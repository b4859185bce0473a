-------------------------------- MODULE Epoll --------------------------------
(***************************************************************************)
(* epoll(7) as the epoll programs of internet/ use it: what is registered, *)
(* when a descriptor is ready by level or by edge, and the batch of events *)
(* epoll_wait hands out. External; sending never fills a socket here, so   *)
(* that EPOLLOUT is always ready.                                          *)
(***************************************************************************)
EXTENDS Peers

CONSTANT EVENTS_MAX

VARIABLES
  interest,   \* per registered fd [ptr, events, edge]; edge says that
              \* something happened since it was last reported
  events      \* what is left of the batch: [ptr, of], of being history: the
              \* client the event was reported for

(* None is no registration: not what epoll_ctl leaves in interest.         *)
ASSUME EpollAssumption ==
  None \notin [ptr : Nat, events : {"IN", "IN|ET", "OUT"}, edge : BOOLEAN]

InitEpoll ==
  /\ interest = [f \in Fds |-> None]
  /\ events = <<>>

(* Whatever arrives on a registered connection makes an edge.              *)
Signals(c) ==
  interest' = [f \in Fds |->
    IF fds[f] = c /\ interest[f] # None THEN [interest[f] EXCEPT !.edge = TRUE]
                                        ELSE interest[f]]

(* epoll_ctl ADD and MOD look at the socket, and make an edge if there is  *)
(* something to read.                                                      *)
Registered(ptr, c, ev) == [ptr |-> ptr, events |-> ev, edge |-> Readable(c)]

(* close, or EPOLL_CTL_DEL before it.                                      *)
Unregister(F) == interest' = [f \in Fds |-> IF f \in F THEN None ELSE interest[f]]

ReadyFds ==
  {f \in Fds : interest[f] # None /\
     \/ interest[f].events = "IN" /\ Readable(fds[f])
     \/ interest[f].events = "IN|ET" /\ interest[f].edge /\ Readable(fds[f])
     \/ interest[f].events = "OUT"}

(* lfd is registered for EPOLLIN with ptr listener.                        *)
Reports(listener) ==
  {[ptr |-> interest[f].ptr, of |-> fds[f]] : f \in ReadyFds}
    \union (IF Pending = {} THEN {} ELSE {[ptr |-> listener, of |-> None]})

epoll_wait(listener) ==
  LET most == Min({Cardinality(Reports(listener)), EVENTS_MAX})
  IN  \E batch \in kSubset(most, Reports(listener)) :
        /\ batch # {}
        /\ events' \in SetToSeqs(batch)
        /\ interest' = [f \in Fds |->
             IF f \in ReadyFds /\ \E e \in batch : e.of = fds[f]
             THEN [interest[f] EXCEPT !.edge = FALSE] ELSE interest[f]]
=============================================================================
