SPECIFICATION Spec
CONSTANTS
  Clients = {c1, c2, c3}
  None = None
  MaxBytes = 1
  Terse = {}
  EVENT_NODE_MAX = 2
  EVENTS_MAX = 2
  MAX_WRITE_BYTE = 1
  READ_MAX = 1
  TABLE_MAX = 2
  Stacks = {{}}
  MaxDatagrams = 1
  LongLines = {}
  Paths = {f}
  RequestBlocks = 1
  MaxVisitors = 2
  Children = {}
  Chosen = {"epoll_reactor", "epoll_normal", "epoll_lt_et_1", "epoll_lt_et_2", "epoll_lt_et_3", "select", "select_wait_signal", "echo_server_tcp_udp_select", "poll", "echo_server", "echo_server_multiprocess", "echo_server_multithread", "myhttpd", "test4", "test5", "test_7", "aio_sigio2", "aio_echo_server"}
SYMMETRY Symmetry
INVARIANTS NoStaleEvent TableAgrees NeverReadsDry NothingLeaked NothingUnseen 
PROPERTIES HonestAnswers
CHECK_DEADLOCK FALSE
