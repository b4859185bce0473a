SPECIFICATION FairSpec
CONSTANTS
  Clients = {c1, c2}
  None = None
  MaxBytes = 2
  Terse = {c2}
  EVENT_NODE_MAX = 1
  EVENTS_MAX = 2
  MAX_WRITE_BYTE = 1
  READ_MAX = 1
  TABLE_MAX = 2
  Stacks = {{}}
  MaxDatagrams = 1
  LongLines = {2}
  Paths = {}
  RequestBlocks = 2
  MaxVisitors = 1
  Children = {k1, k2, k3}
  Chosen = {"epoll_reactor", "epoll_normal", "epoll_lt_et_1", "epoll_lt_et_2", "epoll_lt_et_3", "select", "select_wait_signal", "echo_server_tcp_udp_select", "poll", "echo_server", "echo_server_multiprocess", "echo_server_multithread", "myhttpd", "test4", "test5", "test_7", "aio_sigio", "wait", "wait_t1", "waitpid", "waitpid_2", "wait_tmark", "sigaction_child", "aio_echo_server"}
INVARIANTS EchoExact OneAnswerPerRead
PROPERTIES EventuallyEchoed ClosedInTheEnd AllReaped
CHECK_DEADLOCK FALSE
