----------------------------- MODULE SyncProofs ------------------------------
(***************************************************************************)
(* The programs of threads and of processes, for any number of threads,    *)
(* processes, nodes, slots and starts. Each part shows first that a        *)
(* behaviour of all of them is one of the program it is about, then that   *)
(* the program keeps an invariant of its own.                              *)
(***************************************************************************)
EXTENDS MCSync, FiniteSetTheorems, SequenceTheorems, TLAPS

(* What two instances count of a finite set is the same.                   *)
LEMMA OneMore ==
  ASSUME NEW S, IsFiniteSet(S), NEW x, x \notin S
  PROVE  /\ IsFiniteSet(S \union {x})
         /\ Cardinality(S \union {x}) = Cardinality(S) + 1
         /\ Cardinality(S) \in Nat
  BY FS_AddElement, FS_CardinalityType

(* A finite set without one of its elements has one element less.          *)
LEMMA OneLess ==
  ASSUME NEW S, IsFiniteSet(S), NEW x \in S
  PROVE  /\ IsFiniteSet(S \ {x})
         /\ Cardinality(S \ {x}) = Cardinality(S) - 1
         /\ Cardinality(S) \in Nat
  BY FS_RemoveElement, FS_CardinalityType

-----------------------------------------------------------------------------
(* Who is in a sequence, and that nobody is in it twice.                   *)
Members(q) == {q[i] : i \in DOMAIN q}

NoTwice(q) == \A i, j \in DOMAIN q : q[i] = q[j] => i = j

(* One put before the others, the others without the first, and one put    *)
(* behind them.                                                            *)
LEMMA MembersPushed ==
  ASSUME NEW S, NEW q \in Seq(S), NEW n \in S, n \notin Members(q), NoTwice(q)
  PROVE  /\ <<n>> \o q \in Seq(S) /\ Len(<<n>> \o q) = Len(q) + 1
         /\ NoTwice(<<n>> \o q)
         /\ Members(<<n>> \o q) = Members(q) \union {n}
<1> DEFINE r == <<n>> \o q
<1>1. r \in Seq(S) /\ Len(r) = Len(q) + 1
  OBVIOUS
<1>2. r[1] = n /\ \A i \in 2 .. Len(r) : r[i] = q[i - 1]
  OBVIOUS
<1>3. DOMAIN r = 1 .. Len(r) /\ DOMAIN q = 1 .. Len(q) /\ Len(q) \in Nat
  BY <1>1
<1>4. \A i \in DOMAIN r : i = 1 \/ (i \in 2 .. Len(r) /\ i - 1 \in DOMAIN q)
  BY <1>1, <1>3
<1>5. \A i \in DOMAIN q : i + 1 \in 2 .. Len(r) /\ (i + 1) - 1 = i /\ i + 1 \in DOMAIN r
  BY <1>1, <1>3
<1> HIDE DEF r
<1>6. NoTwice(r)
  BY <1>2, <1>3, <1>4 DEF NoTwice, Members
<1>7. Members(r) = Members(q) \union {n}
  <2>1. \A x \in Members(r) : x \in Members(q) \union {n}
    BY <1>2, <1>4 DEF Members
  <2>2. \A x \in Members(q) : x \in Members(r)
    BY <1>2, <1>5 DEF Members
  <2>3. n \in Members(r)
    BY <1>1, <1>2, <1>3 DEF Members
  <2>. QED
    BY <2>1, <2>2, <2>3
<1>. QED
  BY <1>1, <1>6, <1>7 DEF r

(* Taking the head of a list without repetitions removes that one member.  *)
LEMMA MembersPopped ==
  ASSUME NEW S, NEW q \in Seq(S), q # <<>>, NoTwice(q)
  PROVE  /\ Tail(q) \in Seq(S) /\ Len(Tail(q)) = Len(q) - 1 /\ Len(q) \in Nat
         /\ Head(q) \in S /\ Head(q) \in Members(q)
         /\ NoTwice(Tail(q))
         /\ Members(Tail(q)) = Members(q) \ {Head(q)}
<1> DEFINE r == Tail(q)
<1>1. r \in Seq(S) /\ Len(r) = Len(q) - 1 /\ Len(q) \in Nat /\ Len(q) >= 1
  OBVIOUS
<1>2. Head(q) = q[1] /\ \A i \in 1 .. Len(r) : r[i] = q[i + 1]
  BY <1>1
<1>3. DOMAIN r = 1 .. Len(r) /\ DOMAIN q = 1 .. Len(q)
  BY <1>1
<1>4. \A i \in DOMAIN r : i + 1 \in DOMAIN q /\ i + 1 # 1 /\ i \in Int
  BY <1>1, <1>3
<1>5. \A i \in DOMAIN q : i = 1 \/ (i - 1 \in DOMAIN r /\ (i - 1) + 1 = i)
  BY <1>1, <1>3
<1>6. 1 \in DOMAIN q /\ q[1] \in S
  BY <1>1, <1>3
<1> HIDE DEF r
<1>7. NoTwice(r)
  <2> SUFFICES ASSUME NEW a \in DOMAIN r, NEW b \in DOMAIN r, r[a] = r[b] PROVE a = b
    BY DEF NoTwice
  <2>1. q[a + 1] = q[b + 1] /\ a + 1 \in DOMAIN q /\ b + 1 \in DOMAIN q
    BY <1>2, <1>3, <1>4
  <2>2. a + 1 = b + 1
    BY <2>1 DEF NoTwice
  <2>. QED
    BY <2>2, <1>4
<1>8. Members(r) = Members(q) \ {Head(q)}
  <2>1. \A x \in Members(r) : x \in Members(q) /\ x # Head(q)
    BY <1>2, <1>3, <1>4, <1>6 DEF Members, NoTwice
  <2>2. \A x \in Members(q) : x # Head(q) => x \in Members(r)
    BY <1>2, <1>3, <1>5 DEF Members
  <2>. QED
    BY <2>1, <2>2
<1>. QED
  BY <1>1, <1>2, <1>6, <1>7, <1>8 DEF r, Members

(* Appending to a list adds one member.                                    *)
LEMMA MembersAppended ==
  ASSUME NEW S, NEW q \in Seq(S), NEW n \in S
  PROVE  /\ Append(q, n) \in Seq(S)
         /\ Members(Append(q, n)) = Members(q) \union {n}
         /\ n \notin Members(q) /\ NoTwice(q) => NoTwice(Append(q, n))
<1> DEFINE r == Append(q, n)
<1>1. /\ r \in Seq(S) /\ DOMAIN r = 1 .. Len(q) + 1 /\ DOMAIN q = 1 .. Len(q) /\ Len(q) \in Nat
      /\ r[Len(q) + 1] = n /\ \A i \in 1 .. Len(q) : r[i] = q[i]
  OBVIOUS
<1>2. \A i \in DOMAIN r : i = Len(q) + 1 \/ i \in DOMAIN q
  BY <1>1
<1>3. \A i \in DOMAIN q : i \in DOMAIN r
  BY <1>1
<1>4. Len(q) + 1 \in DOMAIN r
  BY <1>1
<1> HIDE DEF r
<1>5. \A x \in Members(r) : x \in Members(q) \union {n}
  BY <1>1, <1>2 DEF Members
<1>6. \A x \in Members(q) \union {n} : x \in Members(r)
  BY <1>1, <1>3, <1>4 DEF Members
<1>7. n \notin Members(q) /\ NoTwice(q) => NoTwice(r)
  BY <1>1, <1>2 DEF Members, NoTwice
<1>. QED
  BY <1>1, <1>5, <1>6, <1>7 DEF r

-----------------------------------------------------------------------------
(* cond.c.                                                                 *)

(* The module of cond.c counts with a copy of FiniteSets of its own.       *)
LEMMA ListCounts == \A S : CondList!Cardinality(S) = Cardinality(S)
  BY DEF CondList!Cardinality, Cardinality

(* A run of the composition is a run of the condition variable             *)
(* demonstration.                                                          *)
LEMMA ListRuns == MCSpec => CondList!Init /\ [][CondList!Next]_listVars
<1>1. MCInit => CondList!Init
  BY DEF MCInit
<1>2. [MCNext]_mcVars => [CondList!Next]_listVars
  BY DEF MCNext, mcVars, listVars, vars
<1>. QED
  BY <1>1, <1>2, PTL DEF MCSpec

ListWoken == {c \in ListConsumers : listPc[c] = "woken"}

(* A producer has a node while it is about to push it, a consumer while it *)
(* is about to free it, and nobody else has one.                           *)
ListTypes ==
  /\ head \in Seq(ListNodes)
  /\ hand \in [CondList!Workers -> ListNodes \union {NULL}]
  /\ listPc \in [CondList!Workers -> {"malloc", "push", "lock", "asleep", "woken", "free"}]
  /\ \A p \in ListProducers : listPc[p] \in {"malloc", "push"}
  /\ \A c \in ListConsumers : listPc[c] \in {"lock", "asleep", "woken", "free"}
  /\ \A t \in CondList!Workers : hand[t] = NULL <=> listPc[t] \notin {"push", "free"}

ListInv == ListTypes /\ CondList!OnePlace /\ CondList!WakeUpPerNode

(* The list is empty before the producer starts.                           *)
LEMMA ListInit == CondList!Init => ListInv
<1> SUFFICES ASSUME CondList!Init PROVE ListInv
  OBVIOUS
<1> USE SyncAssumption DEF CondList!Init, CondList!Workers
<1>1. ListTypes
  BY DEF ListTypes
<1>2. CondList!OnePlace
  BY DEF CondList!OnePlace, CondList!IsInjective, CondList!ToSet
<1>3. CondList!WakeUpPerNode
  BY DEF CondList!WakeUpPerNode, CondList!Asleep
<1>. QED
  BY <1>1, <1>2, <1>3 DEF ListInv

(* The members of a list and their being distinct, in both notations.      *)
LEMMA ListMembers ==
  \A q : CondList!ToSet(q) = Members(q) /\ (CondList!IsInjective(q) <=> NoTwice(q))
  BY DEF CondList!ToSet, CondList!IsInjective, Members, NoTwice

(* A new node at the front adds one member.                                *)
LEMMA ListPushed ==
  ASSUME NEW S, NEW q \in Seq(S), NEW n \in S, n \notin CondList!ToSet(q), CondList!IsInjective(q)
  PROVE  /\ <<n>> \o q \in Seq(S) /\ Len(<<n>> \o q) = Len(q) + 1
         /\ CondList!IsInjective(<<n>> \o q)
         /\ CondList!ToSet(<<n>> \o q) = CondList!ToSet(q) \union {n}
  BY ListMembers, MembersPushed

(* Taking the front node removes that one member.                          *)
LEMMA ListPopped ==
  ASSUME NEW S, NEW q \in Seq(S), q # <<>>, CondList!IsInjective(q)
  PROVE  /\ Tail(q) \in Seq(S) /\ Len(Tail(q)) = Len(q) - 1 /\ Len(q) \in Nat
         /\ Head(q) \in S /\ Head(q) \in CondList!ToSet(q)
         /\ CondList!IsInjective(Tail(q))
         /\ CondList!ToSet(Tail(q)) = CondList!ToSet(q) \ {Head(q)}
  BY ListMembers, MembersPopped

(* Every step of producer and consumers keeps the invariant.               *)
LEMMA ListNext == ListInv /\ [CondList!Next]_listVars => ListInv'
<1> SUFFICES ASSUME ListInv, [CondList!Next]_listVars PROVE ListInv'
  OBVIOUS
<1> USE SyncAssumption DEF CondList!Workers, CondList!Goes
<1>a. ListTypes /\ CondList!OnePlace /\ CondList!WakeUpPerNode
  BY DEF ListInv
<1>1. ASSUME NEW p \in ListProducers, CondList!Malloc(p)
      PROVE  ListInv'
  <2>1. PICK n \in ListNodes \ CondList!InUse : hand' = [hand EXCEPT ![p] = n]
    BY <1>1 DEF CondList!Malloc
  <2>2. listPc' = [listPc EXCEPT ![p] = "push"] /\ head' = head
    BY <1>1 DEF CondList!Malloc
  <2>3. n \notin CondList!ToSet(head) /\ \A t \in CondList!Workers : hand[t] # n
    BY <2>1 DEF CondList!InUse
  <2>4. ListTypes'
    BY <1>a, <2>1, <2>2, <2>3 DEF ListTypes
  <2>5. CondList!OnePlace'
    BY <1>a, <2>1, <2>2, <2>3 DEF CondList!OnePlace, ListTypes
  <2>6. CondList!WakeUpPerNode'
    <3>1. \A c \in ListConsumers : listPc'[c] = listPc[c]
      BY <2>2, <1>a DEF ListTypes
    <3>2. /\ {c \in ListConsumers : listPc'[c] = "asleep"} = {c \in ListConsumers : listPc[c] = "asleep"}
          /\ {c \in ListConsumers : listPc'[c] = "woken"} = {c \in ListConsumers : listPc[c] = "woken"}
      BY <3>1, Zenon
    <3>. QED
      BY <1>a, <2>2, <3>2, Zenon DEF CondList!WakeUpPerNode, CondList!Asleep
  <2>. QED
    BY <2>4, <2>5, <2>6 DEF ListInv
<1>2. ASSUME NEW p \in ListProducers, CondList!Push(p)
      PROVE  ListInv'
  <2> DEFINE n == hand[p]
             at == [listPc EXCEPT ![p] = "malloc"]
  <2>1. /\ listPc[p] = "push" /\ head' = <<n>> \o head
        /\ hand' = [hand EXCEPT ![p] = NULL]
        /\ CondList!Signal(at)
    BY <1>2 DEF CondList!Push
  <2>2. n \in ListNodes /\ n \notin CondList!ToSet(head) /\ CondList!IsInjective(head)
    BY <1>a, <2>1 DEF ListTypes, CondList!OnePlace
  <2>3. /\ head' \in Seq(ListNodes) /\ Len(head') = Len(head) + 1 /\ Len(head) \in Nat
        /\ CondList!IsInjective(head') /\ CondList!ToSet(head') = CondList!ToSet(head) \union {n}
    BY <1>a, <2>1, <2>2, ListPushed DEF ListTypes
  <2>4. \/ CondList!Asleep = {} /\ listPc' = at
        \/ \E c \in CondList!Asleep : listPc' = [at EXCEPT ![c] = "woken"]
    BY <2>1 DEF CondList!Signal
  <2>5. /\ listPc' \in [CondList!Workers -> {"malloc", "push", "lock", "asleep", "woken", "free"}]
        /\ listPc'[p] = "malloc"
        /\ \A t \in CondList!Workers \ {p} :
             listPc'[t] = listPc[t] \/ (t \in ListConsumers /\ listPc[t] = "asleep" /\ listPc'[t] = "woken")
    BY <1>a, <2>4 DEF ListTypes, CondList!Asleep
  <2>6. ListTypes'
    <3>1. hand' \in [CondList!Workers -> ListNodes \union {NULL}]
      BY <1>a, <2>1 DEF ListTypes
    <3>2. \A q \in ListProducers : listPc'[q] \in {"malloc", "push"}
      BY <1>a, <2>5 DEF ListTypes
    <3>3. \A c \in ListConsumers : listPc'[c] \in {"lock", "asleep", "woken", "free"}
      BY <1>a, <2>5 DEF ListTypes
    <3>4. \A t \in CondList!Workers : hand'[t] = NULL <=> listPc'[t] \notin {"push", "free"}
      BY <1>a, <2>1, <2>5 DEF ListTypes
    <3>. QED
      BY <2>3, <2>5, <3>1, <3>2, <3>3, <3>4 DEF ListTypes
  <2>7. CondList!OnePlace'
    <3>1. \A t \in CondList!Workers : hand'[t] \notin CondList!ToSet(head')
      <4> TAKE t \in CondList!Workers
      <4>1. CASE t = p
        <5>1. hand'[t] = NULL
          BY <1>a, <2>1, <4>1 DEF ListTypes
        <5>2. \A x \in CondList!ToSet(head') : x # NULL
          BY <2>3 DEF CondList!ToSet
        <5>. QED
          BY <5>1, <5>2
      <4>2. CASE t # p
        BY <1>a, <2>1, <2>2, <2>3, <4>2 DEF ListTypes, CondList!OnePlace
      <4>. QED
        BY <4>1, <4>2
    <3>2. \A s, t \in CondList!Workers : hand'[s] = hand'[t] /\ hand'[s] # NULL => s = t
      BY <1>a, <2>1 DEF ListTypes, CondList!OnePlace
    <3>3. \A c \in ListConsumers : listPc'[c] # "crashed"
      BY <2>6 DEF ListTypes
    <3>. QED
      BY <2>3, <3>1, <3>2, <3>3 DEF CondList!OnePlace
  <2>8. CondList!WakeUpPerNode'
    <3>1. CASE CondList!Asleep = {} /\ listPc' = at
      <4>1. CondList!Asleep' = {}
        BY <1>a, <3>1 DEF CondList!Asleep, ListTypes
      <4>. QED
        BY <4>1 DEF CondList!WakeUpPerNode
    <3>2. ASSUME NEW c \in CondList!Asleep, listPc' = [at EXCEPT ![c] = "woken"]
          PROVE  CondList!WakeUpPerNode'
      <4>1. ListWoken' = ListWoken \union {c} /\ c \notin ListWoken /\ IsFiniteSet(ListWoken)
        BY <1>a, <3>2, FS_Subset DEF ListWoken, ListTypes, CondList!Asleep
      <4>2. Cardinality(ListWoken') = Cardinality(ListWoken) + 1 /\ Cardinality(ListWoken) \in Nat
        BY <4>1, OneMore
      <4>3. Len(head) <= Cardinality(ListWoken)
        BY <1>a, <3>2, ListCounts DEF CondList!WakeUpPerNode, ListWoken
      <4>4. Len(head') <= Cardinality(ListWoken')
        BY <2>3, <4>2, <4>3
      <4>. QED
        BY <4>4, ListCounts DEF CondList!WakeUpPerNode, ListWoken
    <3>. QED
      BY <2>4, <3>1, <3>2
  <2>. QED
    BY <2>6, <2>7, <2>8 DEF ListInv
<1>3. ASSUME NEW c \in ListConsumers, CondList!Waits(c)
      PROVE  ListInv'
  <2>1. /\ listPc[c] \in {"lock", "woken"} /\ head = <<>>
        /\ listPc' = [listPc EXCEPT ![c] = "asleep"] /\ head' = head /\ hand' = hand
    BY <1>3 DEF CondList!Waits, CondList!MustWait
  <2>2. ListTypes' /\ CondList!OnePlace'
    BY <1>a, <2>1 DEF ListTypes, CondList!OnePlace
  <2>3. Len(head') = 0 /\ Cardinality(ListWoken') \in Nat
    <3>1. IsFiniteSet(ListWoken')
      BY FS_Subset DEF ListWoken
    <3>. QED
      BY <2>1, <3>1, FS_CardinalityType
  <2>4. CondList!WakeUpPerNode'
    BY <2>3, ListCounts DEF CondList!WakeUpPerNode, ListWoken
  <2>. QED
    BY <2>2, <2>4 DEF ListInv
<1>4. ASSUME NEW c \in ListConsumers, CondList!Pop(c)
      PROVE  ListInv'
  <2>1. listPc[c] \in {"lock", "woken"} /\ head # <<>>
    BY <1>4 DEF CondList!Pop, CondList!MustWait
  <2>2. /\ hand' = [hand EXCEPT ![c] = Head(head)] /\ head' = Tail(head)
        /\ listPc' = [listPc EXCEPT ![c] = "free"]
    BY <1>4, <2>1 DEF CondList!Pop
  <2>3. /\ head' \in Seq(ListNodes) /\ Len(head') = Len(head) - 1 /\ Len(head) \in Nat
        /\ Head(head) \in ListNodes /\ Head(head) \in CondList!ToSet(head)
        /\ CondList!IsInjective(head') /\ CondList!ToSet(head') = CondList!ToSet(head) \ {Head(head)}
    BY <1>a, <2>1, <2>2, ListPopped DEF ListTypes, CondList!OnePlace
  <2>4. ListTypes'
    BY <1>a, <2>1, <2>2, <2>3 DEF ListTypes
  <2>5. CondList!OnePlace'
    BY <1>a, <2>2, <2>3, <2>4 DEF ListTypes, CondList!OnePlace
  <2>6. CondList!WakeUpPerNode'
    <3> SUFFICES ASSUME CondList!Asleep' # {} PROVE Len(head') <= Cardinality(ListWoken')
      BY ListCounts DEF CondList!WakeUpPerNode, ListWoken
    <3>1. Len(head) <= Cardinality(ListWoken) /\ IsFiniteSet(ListWoken)
      <4>1. CondList!Asleep # {}
        BY <1>a, <2>2 DEF CondList!Asleep, ListTypes
      <4>. QED
        BY <1>a, <4>1, FS_Subset, ListCounts DEF CondList!WakeUpPerNode, ListWoken
    <3>2. CASE listPc[c] = "woken"
      <4>1. ListWoken' = ListWoken \ {c} /\ c \in ListWoken
        BY <1>a, <2>2, <3>2 DEF ListWoken, ListTypes
      <4>2. Cardinality(ListWoken') = Cardinality(ListWoken) - 1 /\ Cardinality(ListWoken) \in Nat
        BY <3>1, <4>1, OneLess
      <4>. QED
        BY <2>3, <3>1, <4>2
    <3>3. CASE listPc[c] # "woken"
      <4>1. ListWoken' = ListWoken
        BY <1>a, <2>2, <3>3 DEF ListWoken, ListTypes
      <4>2. Cardinality(ListWoken') = Cardinality(ListWoken) /\ Cardinality(ListWoken) \in Nat
        BY <3>1, <4>1, FS_CardinalityType
      <4>. QED
        BY <2>3, <3>1, <4>2
    <3>. QED
      BY <3>2, <3>3
  <2>. QED
    BY <2>4, <2>5, <2>6 DEF ListInv
<1>5. ASSUME NEW c \in ListConsumers, CondList!Free(c)
      PROVE  ListInv'
  <2>1. /\ listPc[c] = "free" /\ listPc' = [listPc EXCEPT ![c] = "lock"]
        /\ hand' = [hand EXCEPT ![c] = NULL] /\ head' = head
    BY <1>5 DEF CondList!Free
  <2>2. ListTypes'
    BY <1>a, <2>1 DEF ListTypes
  <2>3. \A x \in CondList!ToSet(head) : x # NULL
    BY <1>a DEF CondList!ToSet, ListTypes
  <2>4. CondList!OnePlace'
    BY <1>a, <2>1, <2>2, <2>3 DEF ListTypes, CondList!OnePlace
  <2>5. CondList!Asleep' = CondList!Asleep /\ ListWoken' = ListWoken
    BY <1>a, <2>1 DEF ListTypes, CondList!Asleep, ListWoken
  <2>6. CondList!WakeUpPerNode'
    BY <1>a, <2>1, <2>5 DEF CondList!WakeUpPerNode, ListWoken
  <2>. QED
    BY <2>2, <2>4, <2>6 DEF ListInv
<1>6. ASSUME NEW c \in ListConsumers, CondList!WakesSpuriously(c)
      PROVE  ListInv'
  <2>1. /\ listPc[c] = "asleep" /\ listPc' = [listPc EXCEPT ![c] = "woken"]
        /\ hand' = hand /\ head' = head
    BY <1>6 DEF CondList!WakesSpuriously
  <2>2. ListTypes' /\ CondList!OnePlace'
    BY <1>a, <2>1 DEF ListTypes, CondList!OnePlace
  <2>3. ListWoken' = ListWoken \union {c} /\ c \notin ListWoken /\ IsFiniteSet(ListWoken)
    BY <1>a, <2>1, FS_Subset DEF ListWoken, ListTypes
  <2>4. Cardinality(ListWoken') = Cardinality(ListWoken) + 1 /\ Cardinality(ListWoken) \in Nat
    BY <2>3, OneMore
  <2>5. Len(head) <= Cardinality(ListWoken)
    BY <1>a, <2>1, ListCounts DEF CondList!WakeUpPerNode, CondList!Asleep, ListWoken
  <2>6. Len(head') <= Cardinality(ListWoken')
    BY <1>a, <2>1, <2>4, <2>5 DEF ListTypes
  <2>7. CondList!WakeUpPerNode'
    BY <2>6, ListCounts DEF CondList!WakeUpPerNode, ListWoken
  <2>. QED
    BY <2>2, <2>7 DEF ListInv
<1>7. CASE UNCHANGED listVars
  BY <1>7, <1>a DEF listVars, ListInv, ListTypes, CondList!OnePlace, CondList!WakeUpPerNode, CondList!Asleep
<1>. QED
  BY <1>1, <1>2, <1>3, <1>4, <1>5, <1>6, <1>7 DEF CondList!Next, CondList!Consumer

(* The invariant holds throughout the runs.                                *)
LEMMA ListAlways == MCSpec => []ListInv
  BY ListRuns, ListInit, ListNext, PTL

(***************************************************************************)
(* cond.c, for any number of producers, consumers and nodes: a node is in  *)
(* one place only, so that none is freed while somebody still has it, and  *)
(* no consumer reads through NULL.                                         *)
(***************************************************************************)
THEOREM NodesInOnePlace == MCSpec => []OnePlace
<1>1. ListInv => OnePlace
  BY DEF ListInv, OnePlace
<1>. QED
  BY <1>1, ListAlways, PTL

(***************************************************************************)
(* cond.c, for any number of producers, consumers and nodes: no signal is  *)
(* lost, as each node on the list has a consumer of its own on the way     *)
(* while another sleeps.                                                   *)
(***************************************************************************)
THEOREM NoSignalLost == MCSpec => []WakeUpPerNode
<1>1. ListInv => WakeUpPerNode
  BY DEF ListInv, WakeUpPerNode
<1>. QED
  BY <1>1, ListAlways, PTL

-----------------------------------------------------------------------------
(***************************************************************************)
(* daemon.c. What a start has and holds at each point of its start-up: a   *)
(* step of one start changes nothing of the others but a lock that nobody  *)
(* held.                                                                   *)
(***************************************************************************)
(* Between lockfile and its end a daemon holds the lock.                   *)
DaemonHolds(i) == kind[i] = "single" /\ dPc[i] \in {"locked", "truncated", "running"}

DaemonLock == \A i \in DaemonStarts : DaemonHolds(i) => lock = DaemonStart!getpid(i)

(* Every fork is counted, and process_func/daemon.c makes one only.        *)
ForksCounted ==
  \A i \in DaemonStarts :
    /\ dPc[i] \in {"none", "started"} => forks[i] = 0
    /\ dPc[i] \in {"forked", "session"} => forks[i] = 1
    /\ kind[i] = "plain" => dPc[i] \notin {"forked twice", "detached", "locked", "truncated"}

(* The leader of a session is gone with the second fork, its terminal with *)
(* setsid before, and the directory of the shell is left after both.       *)
LeftBehind ==
  \A i \in DaemonStarts :
    /\ dPc[i] = "session" => ~ tty[i]
    /\ kind[i] = "single" /\ dPc[i] \in {"forked twice", "detached", "locked", "truncated", "running"} =>
         ~ leader[i] /\ ~ tty[i]
    /\ kind[i] = "single" /\ dPc[i] \in {"detached", "locked", "truncated", "running"} =>
         cwd[i] # "home"

DaemonInv == DaemonStart!TypeOK /\ ForksCounted /\ DaemonLock /\ PidFileNamesTheDaemon /\ LeftBehind

(* NULL stands for no process in the lock and in an empty file.            *)
NoOneIsNoPid == NULL \notin DaemonStart!Pids

-----------------------------------------------------------------------------
(* The two numbers of forks a start counts.                                *)
LEMMA TwoForks == 1 \in 0 .. 2 /\ 2 \in 0 .. 2
  OBVIOUS

(* The invariant holds before the first start.                             *)
LEMMA DaemonInit == DaemonStart!Init => DaemonInv
  BY DEF DaemonStart!Init, DaemonInv, DaemonStart!TypeOK, ForksCounted, DaemonLock, DaemonHolds,
         PidFileNamesTheDaemon, DaemonStart!PidFileNamesTheDaemon, DaemonStart!Serves, LeftBehind,
         DaemonStart!Pids

USE DEF DaemonStart!getpid, DaemonHolds, DaemonStart!Serves, DaemonStart!To

(* A fork makes one more process, and drops no lock but that of its own.   *)
ForksTo(i, from, to, n) ==
  /\ dPc[i] = from /\ dPc' = [dPc EXCEPT ![i] = to]
  /\ forks[i] = n - 1 /\ forks' = [forks EXCEPT ![i] = n]
  /\ leader' = [leader EXCEPT ![i] = FALSE]
  /\ lock' \in {lock, NULL}
  /\ \A j \in DaemonStarts : j # i /\ lock = DaemonStart!getpid(j) => lock' = lock
  /\ kind' = kind /\ tty' = tty /\ cwd' = cwd /\ pidfile' = pidfile

(* What the two forks of Daemonize change.                                 *)
LEMMA DaemonForks ==
  ASSUME DaemonStart!TypeOK, ForksCounted, NEW i \in DaemonStarts
  PROVE  /\ DaemonStart!FirstFork(i) => ForksTo(i, "started", "forked", 1)
         /\ DaemonStart!SecondFork(i) => kind[i] = "single" /\ ForksTo(i, "session", "forked twice", 2)
<1>1. DaemonStart!Forks(i) =>
       lock' \in {lock, NULL} /\ \A j \in DaemonStarts : j # i /\ lock = DaemonStart!getpid(j) => lock' = lock
  BY DEF DaemonStart!Forks
<1>2. ASSUME DaemonStart!FirstFork(i) PROVE ForksTo(i, "started", "forked", 1)
  <2>1. dPc[i] = "started" /\ forks[i] = 0
    BY <1>2 DEF DaemonStart!FirstFork, ForksCounted
  <2>2. forks' = [forks EXCEPT ![i] = 1] /\ leader' = [leader EXCEPT ![i] = FALSE]
    BY <1>2, <2>1 DEF DaemonStart!FirstFork, DaemonStart!Forks
  <2> QED BY <1>1, <1>2, <2>1, <2>2 DEF DaemonStart!FirstFork, ForksTo
<1>3. ASSUME DaemonStart!SecondFork(i) PROVE kind[i] = "single" /\ ForksTo(i, "session", "forked twice", 2)
  <2>1. kind[i] = "single" /\ dPc[i] = "session" /\ forks[i] = 1
    BY <1>3 DEF DaemonStart!SecondFork, ForksCounted
  <2>2. forks[i] + 1 = 2 /\ 2 - 1 = 1
    BY <2>1
  <2>3. forks' = [forks EXCEPT ![i] = 2] /\ leader' = [leader EXCEPT ![i] = FALSE]
    BY <1>3, <2>2 DEF DaemonStart!SecondFork, DaemonStart!Forks
  <2> QED BY <1>1, <1>3, <2>1, <2>2, <2>3 DEF DaemonStart!SecondFork, ForksTo
<1> QED BY <1>2, <1>3

(* Types, and the number of forks that bounds a process's identity.        *)
LEMMA DaemonTypesNext ==
  ASSUME DaemonStart!TypeOK, ForksCounted, [DaemonStart!Next]_daemonVars
  PROVE  DaemonStart!TypeOK' /\ ForksCounted'
<1> USE DEF DaemonStart!TypeOK, ForksCounted
<1>1. ASSUME NEW i \in DaemonStarts, DaemonStart!Enters(i) PROVE DaemonStart!TypeOK' /\ ForksCounted'
  BY <1>1 DEF DaemonStart!Enters
<1>2. ASSUME NEW i \in DaemonStarts, DaemonStart!FirstFork(i) PROVE DaemonStart!TypeOK' /\ ForksCounted'
  <2>1. ForksTo(i, "started", "forked", 1)
    BY <1>2, DaemonForks
  <2>2. lock' \in DaemonStart!Pids \union {NULL}
    BY <2>1 DEF ForksTo
  <2>3. forks' \in [DaemonStarts -> 0 .. 2]
    <3>1. forks' = [forks EXCEPT ![i] = 1] /\ forks \in [DaemonStarts -> 0 .. 2]
      BY <2>1 DEF ForksTo
    <3> QED BY ONLY <3>1, TwoForks
  <2>4. leader' \in [DaemonStarts -> BOOLEAN]
    BY <2>1 DEF ForksTo
  <2>5. DaemonStart!TypeOK'
    BY <2>1, <2>2, <2>3, <2>4 DEF ForksTo
  <2>6. ForksCounted'
    BY <2>1 DEF ForksTo
  <2> QED BY <2>5, <2>6
<1>3. ASSUME NEW i \in DaemonStarts, DaemonStart!setsid(i) PROVE DaemonStart!TypeOK' /\ ForksCounted'
  BY <1>3 DEF DaemonStart!setsid
<1>4. ASSUME NEW i \in DaemonStarts, DaemonStart!SecondFork(i) PROVE DaemonStart!TypeOK' /\ ForksCounted'
  <2>1. kind[i] = "single" /\ ForksTo(i, "session", "forked twice", 2)
    BY <1>4, DaemonForks
  <2>2. lock' \in DaemonStart!Pids \union {NULL}
    BY <2>1 DEF ForksTo
  <2>3. forks' \in [DaemonStarts -> 0 .. 2]
    <3>1. forks' = [forks EXCEPT ![i] = 2] /\ forks \in [DaemonStarts -> 0 .. 2]
      BY <2>1 DEF ForksTo
    <3> QED BY ONLY <3>1, TwoForks
  <2>4. leader' \in [DaemonStarts -> BOOLEAN]
    BY <2>1 DEF ForksTo
  <2>5. DaemonStart!TypeOK'
    BY <2>1, <2>2, <2>3, <2>4 DEF ForksTo
  <2>6. ForksCounted'
    BY <2>1 DEF ForksTo
  <2> QED BY <2>5, <2>6
<1>5. ASSUME NEW i \in DaemonStarts, DaemonStart!Detaches(i) PROVE DaemonStart!TypeOK' /\ ForksCounted'
  BY <1>5 DEF DaemonStart!Detaches
<1>6. ASSUME NEW i \in DaemonStarts, DaemonStart!RunsPlain(i) PROVE DaemonStart!TypeOK' /\ ForksCounted'
  BY <1>6 DEF DaemonStart!RunsPlain
<1>7. ASSUME NEW i \in DaemonStarts, DaemonStart!lockfile(i) PROVE DaemonStart!TypeOK' /\ ForksCounted'
  <2>1. DaemonStart!getpid(i) \in DaemonStart!Pids
    BY DEF DaemonStart!Pids
  <2> QED BY <1>7, <2>1 DEF DaemonStart!lockfile
<1>8. ASSUME NEW i \in DaemonStarts, DaemonStart!AlreadyStarted(i) PROVE DaemonStart!TypeOK' /\ ForksCounted'
  BY <1>8 DEF DaemonStart!AlreadyStarted
<1>9. ASSUME NEW i \in DaemonStarts, DaemonStart!ftruncate(i) \/ DaemonStart!WritesPid(i)
      PROVE  DaemonStart!TypeOK' /\ ForksCounted'
  <2>1. DaemonStart!getpid(i) \in DaemonStart!Pids
    BY DEF DaemonStart!Pids
  <2> QED BY <1>9, <2>1 DEF DaemonStart!ftruncate, DaemonStart!WritesPid
<1>10. ASSUME NEW i \in DaemonStarts, DaemonStart!ChangesDir(i) PROVE DaemonStart!TypeOK' /\ ForksCounted'
  BY <1>10 DEF DaemonStart!ChangesDir
<1>11. ASSUME NEW i \in DaemonStarts, DaemonStart!Kill(i) PROVE DaemonStart!TypeOK' /\ ForksCounted'
  <2>1. lock' \in {lock, NULL}
    BY <1>11 DEF DaemonStart!Kill
  <2> QED BY <1>11, <2>1 DEF DaemonStart!Kill
<1>12. ASSUME NEW i \in DaemonStarts, DaemonStart!OpensTerminal(i) PROVE DaemonStart!TypeOK' /\ ForksCounted'
  BY <1>12 DEF DaemonStart!OpensTerminal
<1>13. CASE UNCHANGED daemonVars
  BY <1>13 DEF daemonVars
<1> QED
  BY <1>1, <1>2, <1>3, <1>4, <1>5, <1>6, <1>7, <1>8, <1>9, <1>10, <1>11, <1>12, <1>13 DEF DaemonStart!Next

(* The lock is taken when it is free and given back with its process only, *)
(* and the file is written by its holder.                                  *)
LEMMA DaemonLockNext ==
  ASSUME NoOneIsNoPid, DaemonStart!TypeOK, ForksCounted, DaemonLock, PidFileNamesTheDaemon,
         [DaemonStart!Next]_daemonVars
  PROVE  DaemonLock' /\ PidFileNamesTheDaemon'
<1> USE DEF DaemonStart!TypeOK, ForksCounted, DaemonLock, PidFileNamesTheDaemon, DaemonStart!PidFileNamesTheDaemon
<1> DEFINE Goal == DaemonLock' /\ PidFileNamesTheDaemon'
<1>1. ASSUME NEW i \in DaemonStarts, DaemonStart!Enters(i) PROVE Goal
  BY <1>1 DEF DaemonStart!Enters
<1>2. ASSUME NEW i \in DaemonStarts, DaemonStart!FirstFork(i) PROVE Goal
  <2>1. ForksTo(i, "started", "forked", 1)
    BY <1>2, DaemonForks
  <2>2. ~ DaemonHolds(i)' /\ ~ DaemonHolds(i)
    BY <2>1 DEF ForksTo
  <2>3. \A j \in DaemonStarts : j # i =>
         (DaemonHolds(j) <=> DaemonHolds(j)')
         /\ DaemonStart!getpid(j)' = DaemonStart!getpid(j) /\ (DaemonStart!Serves(j)' => DaemonStart!Serves(j))
    BY <2>1 DEF ForksTo
  <2>4. DaemonLock'
    BY <2>1, <2>2, <2>3 DEF ForksTo
  <2>5. PidFileNamesTheDaemon'
    BY <2>1, <2>2, <2>3 DEF ForksTo
  <2> QED BY <2>4, <2>5
<1>3. ASSUME NEW i \in DaemonStarts, DaemonStart!setsid(i) PROVE Goal
  BY <1>3 DEF DaemonStart!setsid
<1>4. ASSUME NEW i \in DaemonStarts, DaemonStart!SecondFork(i) PROVE Goal
  <2>1. kind[i] = "single" /\ ForksTo(i, "session", "forked twice", 2)
    BY <1>4, DaemonForks
  <2>2. ~ DaemonHolds(i)' /\ ~ DaemonHolds(i)
    BY <2>1 DEF ForksTo
  <2>3. \A j \in DaemonStarts : j # i =>
         (DaemonHolds(j) <=> DaemonHolds(j)')
         /\ DaemonStart!getpid(j)' = DaemonStart!getpid(j) /\ (DaemonStart!Serves(j)' => DaemonStart!Serves(j))
    BY <2>1 DEF ForksTo
  <2>4. DaemonLock'
    BY <2>1, <2>2, <2>3 DEF ForksTo
  <2>5. PidFileNamesTheDaemon'
    BY <2>1, <2>2, <2>3 DEF ForksTo
  <2> QED BY <2>4, <2>5
<1>5. ASSUME NEW i \in DaemonStarts, DaemonStart!Detaches(i) PROVE Goal
  BY <1>5 DEF DaemonStart!Detaches
<1>6. ASSUME NEW i \in DaemonStarts, DaemonStart!RunsPlain(i) PROVE Goal
  BY <1>6 DEF DaemonStart!RunsPlain
<1>7. ASSUME NEW i \in DaemonStarts, DaemonStart!lockfile(i) PROVE Goal
  <2>1. ASSUME NEW j \in DaemonStarts PROVE DaemonStart!getpid(j) # NULL
    <3>1. DaemonStart!getpid(j) \in DaemonStart!Pids
      BY DEF DaemonStart!Pids
    <3> QED BY <3>1 DEF NoOneIsNoPid
  <2>2. \A j \in DaemonStarts : ~ DaemonHolds(j)
    BY <1>7, <2>1 DEF DaemonStart!lockfile
  <2>3. \A j \in DaemonStarts : DaemonHolds(j)' => j = i
    BY <1>7, <2>2 DEF DaemonStart!lockfile
  <2>4. ~ DaemonStart!Serves(i)'
    BY <1>7 DEF DaemonStart!lockfile
  <2>5. lock' = DaemonStart!getpid(i)'
    BY <1>7 DEF DaemonStart!lockfile
  <2> QED BY <2>3, <2>4, <2>5
<1>8. ASSUME NEW i \in DaemonStarts, DaemonStart!AlreadyStarted(i) PROVE Goal
  BY <1>8 DEF DaemonStart!AlreadyStarted
<1>9. ASSUME NEW i \in DaemonStarts, DaemonStart!ftruncate(i) \/ DaemonStart!WritesPid(i) PROVE Goal
  <2>1. DaemonHolds(i) \/ kind[i] = "plain"
    BY <1>9 DEF DaemonStart!ftruncate, DaemonStart!WritesPid
  <2>2. DaemonHolds(i)
    BY <1>9, <2>1 DEF DaemonStart!ftruncate, DaemonStart!WritesPid
  <2>3. ASSUME NEW j \in DaemonStarts, j # i PROVE ~ DaemonHolds(j)
    <3>1. DaemonStart!getpid(j) # DaemonStart!getpid(i)
      BY <2>3
    <3> QED BY <2>2, <3>1
  <2>4. \A j \in DaemonStarts : j # i => ~ DaemonHolds(j)'
    BY <1>9, <2>3 DEF DaemonStart!ftruncate, DaemonStart!WritesPid
  <2>5. lock' = DaemonStart!getpid(i)'
    BY <1>9, <2>2 DEF DaemonStart!ftruncate, DaemonStart!WritesPid
  <2>6. DaemonStart!Serves(i)' => pidfile' = DaemonStart!getpid(i)'
    BY <1>9 DEF DaemonStart!ftruncate, DaemonStart!WritesPid
  <2> QED BY <2>4, <2>5, <2>6
<1>10. ASSUME NEW i \in DaemonStarts, DaemonStart!ChangesDir(i) PROVE Goal
  BY <1>10 DEF DaemonStart!ChangesDir
<1>11. ASSUME NEW i \in DaemonStarts, DaemonStart!Kill(i) PROVE Goal
  <2>1. ~ DaemonHolds(i)' /\ \A j \in DaemonStarts : j # i => (DaemonHolds(j) <=> DaemonHolds(j)')
    BY <1>11 DEF DaemonStart!Kill
  <2>2. \A j \in DaemonStarts : j # i =>
         DaemonStart!getpid(j) # DaemonStart!getpid(i)
         /\ DaemonStart!getpid(j)' = DaemonStart!getpid(j)
    BY <1>11 DEF DaemonStart!Kill
  <2>3. ASSUME NEW j \in DaemonStarts, DaemonHolds(j)' PROVE lock' = DaemonStart!getpid(j)'
    <3>1. j # i /\ lock = DaemonStart!getpid(j)
      BY <2>1, <2>3
    <3> QED BY <1>11, <2>2, <3>1 DEF DaemonStart!Kill
  <2>4. PidFileNamesTheDaemon'
    BY <1>11, <2>1, <2>2 DEF DaemonStart!Kill
  <2> QED BY <2>3, <2>4
<1>12. ASSUME NEW i \in DaemonStarts, DaemonStart!OpensTerminal(i) PROVE Goal
  BY <1>12 DEF DaemonStart!OpensTerminal
<1>13. CASE UNCHANGED daemonVars
  BY <1>13 DEF daemonVars
<1> QED
  BY <1>1, <1>2, <1>3, <1>4, <1>5, <1>6, <1>7, <1>8, <1>9, <1>10, <1>11, <1>12, <1>13 DEF DaemonStart!Next

(* Session, terminal and directory, in the order of the start-up.          *)
LEMMA DaemonLeftNext ==
  ASSUME DaemonStart!TypeOK, ForksCounted, LeftBehind, [DaemonStart!Next]_daemonVars
  PROVE  LeftBehind'
<1> USE DEF DaemonStart!TypeOK, ForksCounted, LeftBehind
<1>1. ASSUME NEW i \in DaemonStarts, DaemonStart!FirstFork(i) PROVE LeftBehind'
  <2>1. ForksTo(i, "started", "forked", 1)
    BY <1>1, DaemonForks
  <2> QED BY <2>1 DEF ForksTo
<1>2. ASSUME NEW i \in DaemonStarts, DaemonStart!SecondFork(i) PROVE LeftBehind'
  <2>1. ForksTo(i, "session", "forked twice", 2)
    BY <1>2, DaemonForks
  <2> QED BY <2>1 DEF ForksTo
<1>3. ASSUME NEW i \in DaemonStarts, DaemonStart!Enters(i) PROVE LeftBehind'
  BY <1>3 DEF DaemonStart!Enters
<1>4. ASSUME NEW i \in DaemonStarts, DaemonStart!setsid(i) PROVE LeftBehind'
  BY <1>4 DEF DaemonStart!setsid
<1>5. ASSUME NEW i \in DaemonStarts, DaemonStart!Detaches(i) PROVE LeftBehind'
  BY <1>5 DEF DaemonStart!Detaches
<1>6. ASSUME NEW i \in DaemonStarts, DaemonStart!RunsPlain(i) PROVE LeftBehind'
  BY <1>6 DEF DaemonStart!RunsPlain
<1>7. ASSUME NEW i \in DaemonStarts, DaemonStart!lockfile(i) \/ DaemonStart!AlreadyStarted(i) PROVE LeftBehind'
  BY <1>7 DEF DaemonStart!lockfile, DaemonStart!AlreadyStarted
<1>8. ASSUME NEW i \in DaemonStarts, DaemonStart!ftruncate(i) \/ DaemonStart!WritesPid(i) PROVE LeftBehind'
  BY <1>8 DEF DaemonStart!ftruncate, DaemonStart!WritesPid
<1>9. ASSUME NEW i \in DaemonStarts, DaemonStart!ChangesDir(i) \/ DaemonStart!Kill(i) PROVE LeftBehind'
  BY <1>9 DEF DaemonStart!ChangesDir, DaemonStart!Kill, DaemonStart!Alive
<1>10. ASSUME NEW i \in DaemonStarts, DaemonStart!OpensTerminal(i) PROVE LeftBehind'
  BY <1>10 DEF DaemonStart!OpensTerminal
<1>11. CASE UNCHANGED daemonVars
  BY <1>11 DEF daemonVars
<1> QED
  BY <1>1, <1>2, <1>3, <1>4, <1>5, <1>6, <1>7, <1>8, <1>9, <1>10, <1>11 DEF DaemonStart!Next

HIDE DEF DaemonStart!getpid, DaemonHolds, DaemonStart!Serves, DaemonStart!To

(* A run of the composition is a run of the daemons, and NULL is nobody.   *)
LEMMA DaemonRuns == MCSpec => DaemonStart!Init /\ [][DaemonStart!Next]_daemonVars
<1>1. MCInit => DaemonStart!Init
  BY DEF MCInit
<1>2. [MCNext]_mcVars => [DaemonStart!Next]_daemonVars
  BY DEF MCNext, mcVars, daemonVars, vars
<1>. QED
  BY <1>1, <1>2, PTL DEF MCSpec

(* The invariant holds throughout the runs.                                *)
LEMMA DaemonAlways == MCSpec => []DaemonInv
<1>1. NoOneIsNoPid
  BY SyncAssumption DEF NoOneIsNoPid, DaemonStart!Pids
<1>2. DaemonInv /\ [DaemonStart!Next]_daemonVars => DaemonInv'
  BY <1>1, DaemonTypesNext, DaemonLockNext, DaemonLeftNext DEF DaemonInv
<1>. QED
  BY DaemonRuns, DaemonInit, <1>2, PTL

(***************************************************************************)
(* daemon.c:137, SingletonDaemon, for any number of starts and kills: with *)
(* the lock, the pid file names the daemon that runs.                      *)
(***************************************************************************)
THEOREM PidFileHolds == MCSpec => []PidFileNamesTheDaemon
<1>1. DaemonInv => PidFileNamesTheDaemon
  BY DEF DaemonInv
<1>. QED
  BY <1>1, DaemonAlways, PTL

(***************************************************************************)
(* daemon.c:53, Daemonize, for any number of starts and kills: a daemon    *)
(* that runs leads no session, has no terminal and has left the directory  *)
(* of its shell.                                                           *)
(***************************************************************************)
THEOREM DaemonsDetached == MCSpec => []Detached
<1>1. DaemonInv => Detached
  BY DEF DaemonInv, LeftBehind, Detached, DaemonStart!Detached, DaemonStart!Serves
<1>. QED
  BY <1>1, DaemonAlways, PTL

(* At most one daemon runs: the file cannot name two.                      *)
AtMostOne == \A i, j \in DaemonStarts : DaemonStart!Serves(i) /\ DaemonStart!Serves(j) => i = j

(***************************************************************************)
(* daemon.c:137, for any number of starts and kills: no two daemons of one *)
(* command run at once.                                                    *)
(***************************************************************************)
THEOREM Singleton == MCSpec => []AtMostOne
<1>1. PidFileNamesTheDaemon => AtMostOne
  BY DEF PidFileNamesTheDaemon, DaemonStart!PidFileNamesTheDaemon, AtMostOne, DaemonStart!getpid
<1>. QED
  BY <1>1, PidFileHolds, PTL

-----------------------------------------------------------------------------
(* shm.c.                                                                  *)

(* A run of the composition is a run of the shared slot.                   *)
LEMMA SlotRuns == MCSpec => SharedSlot!Init /\ [][SharedSlot!Next]_slotVars
<1>1. MCInit => SharedSlot!Init
  BY DEF MCInit
<1>2. [MCNext]_mcVars => [SharedSlot!Next]_slotVars
  BY DEF MCNext, mcVars, slotVars, vars
<1>. QED
  BY <1>1, <1>2, PTL DEF MCSpec

SlotPlaces ==
  {"none", "getting", "creating", "initialising", "found", "outside", "contends", "asleep",
   "holds", "filled", "copied", "served", "exited"}

SegmentType ==
  [made : BOOLEAN, mutex : 0 .. 2, pid : SlotProducers \union {NULL},
   data : (SlotProducers \X Nat) \union {NULL}]

(* Whoever is past GetShmId has a segment.                                 *)
SlotTypes ==
  /\ keyed \in SlotSegments \union {NULL}
  /\ seg \in [SlotSegments -> SegmentType]
  /\ slotPc \in [SharedSlot!Procs -> SlotPlaces]
  /\ ptr \in [SharedSlot!Procs -> SlotSegments \union {NULL}]
  /\ id \in [SlotProducers -> Nat]
  /\ shown \in [SlotSegments -> Seq(SlotProducers \X Nat)]
  /\ quiet \in [SlotSegments -> BOOLEAN]
  /\ \A p \in SharedSlot!Procs :
       slotPc[p] \notin {"none", "getting", "creating", "exited"} => ptr[p] \in SlotSegments

Within(p) == slotPc[p] \in SharedSlot!Inside

(* An item has a number that its producer has come to.                     *)
Item(d) == d \in SlotProducers \X Nat /\ d[2] <= id[d[1]]

(* The item in the slot comes after all that was shown of its producer.    *)
Fresh(s) ==
  \A i \in DOMAIN shown[s] :
     shown[s][i][1] # seg[s].data[1] \/ shown[s][i][2] < seg[s].data[2]

InOrder(s) ==
  \A i, j \in DOMAIN shown[s] :
    i < j => \/ shown[s][i][1] # shown[s][j][1]
             \/ shown[s][i][2] < shown[s][j][2]

(* In a segment that nobody initialised under another's feet the mutex     *)
(* excludes, stays locked behind a process that is killed with it, and     *)
(* what its holder, or the next one, may show was not shown before.        *)
Orderly(s) ==
  /\ \A p \in SharedSlot!Procs : Within(p) /\ ptr[p] = s =>
       /\ seg[s].mutex # 0
       /\ \A q \in SharedSlot!Procs : Within(q) /\ ptr[q] = s => q = p
  /\ seg[s].pid # NULL /\ seg[s].mutex = 0 => Fresh(s)
  /\ \A p \in SharedSlot!Procs :
       slotPc[p] \in {"holds", "served"} /\ ptr[p] = s /\ seg[s].pid # NULL => Fresh(s)
  /\ \A p \in SharedSlot!Procs : slotPc[p] = "filled" /\ ptr[p] = s => Fresh(s)
  /\ InOrder(s)

SlotOk(s) ==
  /\ seg[s].pid # NULL => Item(seg[s].data)
  /\ \A i \in DOMAIN shown[s] : Item(shown[s][i])
  /\ \A p \in SharedSlot!Procs :
       slotPc[p] = "filled" /\ ptr[p] = s => p \in SlotProducers /\ Item(seg[s].data)
  /\ quiet[s] => Orderly(s)

SlotInv == SlotTypes /\ \A s \in SlotSegments : SlotOk(s)

(* No segment exists before the first process starts.                      *)
LEMMA SlotInit == SharedSlot!Init => SlotInv
<1> SUFFICES ASSUME SharedSlot!Init PROVE SlotInv
  OBVIOUS
<1> USE DEF SharedSlot!Init, SharedSlot!Procs
<1>0. /\ SharedSlot!NoSegment \in SegmentType
      /\ SharedSlot!NoSegment.pid = NULL
  BY DEF SharedSlot!NoSegment, SegmentType
<1>1. SlotTypes
  BY <1>0 DEF SlotTypes, SlotPlaces
<1>2. ASSUME NEW s \in SlotSegments PROVE SlotOk(s)
  BY <1>0 DEF SlotOk, Orderly, InOrder, Within, SharedSlot!Inside
<1>. QED
  BY <1>1, <1>2 DEF SlotInv

(* A step that leaves a segment and who is within it leaves it in order.   *)
Untouched(s) ==
  /\ seg'[s].mutex = seg[s].mutex /\ seg'[s].pid = seg[s].pid /\ seg'[s].data = seg[s].data
  /\ shown'[s] = shown[s]
  /\ quiet'[s] => quiet[s]
  /\ \A q \in SharedSlot!Procs : Within(q)' /\ ptr'[q] = s => slotPc'[q] = slotPc[q] /\ ptr[q] = s

Numbers == id' \in [SlotProducers -> Nat] /\ \A p \in SlotProducers : id[p] <= id'[p]

(* An item once produced stays one: the numbers only grow.                 *)
LEMMA ItemStays ==
  ASSUME SlotTypes, Numbers, NEW d, Item(d)
  PROVE  d \in SlotProducers \X Nat /\ d[2] <= id'[d[1]]
<1>1. d[1] \in SlotProducers /\ d[2] \in Nat /\ d[2] <= id[d[1]]
  BY DEF Item
<1>2. id[d[1]] \in Nat /\ id'[d[1]] \in Nat /\ id[d[1]] <= id'[d[1]]
  BY <1>1 DEF SlotTypes, Numbers
<1>. QED
  BY <1>1, <1>2 DEF Item

(* A segment that no process wrote to, entered or showed the data of keeps *)
(* its invariant.                                                          *)
LEMMA SlotUntouched ==
  ASSUME SlotTypes, Numbers, NEW s \in SlotSegments, SlotOk(s), Untouched(s)
  PROVE  SlotOk(s)'
<1> USE DEF Untouched
<1>1. seg'[s].pid # NULL => Item(seg[s].data)'
  BY ItemStays DEF SlotOk, Item
<1>2. \A i \in DOMAIN shown'[s] : Item(shown[s][i])'
  BY ItemStays DEF SlotOk, Item
<1>3. \A p \in SharedSlot!Procs :
        slotPc'[p] = "filled" /\ ptr'[p] = s => p \in SlotProducers /\ Item(seg[s].data)'
  BY ItemStays DEF SlotOk, Item, Within, SharedSlot!Inside
<1>4. Fresh(s)' <=> Fresh(s)
  BY DEF Fresh
<1>5. InOrder(s)' <=> InOrder(s)
  BY DEF InOrder
<1>6. ASSUME quiet'[s] PROVE Orderly(s)'
  <2>1. Orderly(s)
    BY <1>6 DEF SlotOk
  <2>2. \A p \in SharedSlot!Procs : Within(p)' /\ ptr'[p] = s =>
          /\ seg'[s].mutex # 0
          /\ \A q \in SharedSlot!Procs : Within(q)' /\ ptr'[q] = s => q = p
    BY <2>1 DEF Orderly, Within
  <2>3. seg'[s].pid # NULL /\ seg'[s].mutex = 0 => Fresh(s)'
    BY <2>1, <1>4 DEF Orderly
  <2>4. \A p \in SharedSlot!Procs :
          slotPc'[p] \in {"holds", "served"} /\ ptr'[p] = s /\ seg'[s].pid # NULL => Fresh(s)'
    BY <2>1, <1>4 DEF Orderly, Within, SharedSlot!Inside
  <2>5. \A p \in SharedSlot!Procs : slotPc'[p] = "filled" /\ ptr'[p] = s => Fresh(s)'
    BY <2>1, <1>4 DEF Orderly, Within, SharedSlot!Inside
  <2>. QED
    BY <2>1, <2>2, <2>3, <2>4, <2>5, <1>5 DEF Orderly
<1>. QED
  BY <1>1, <1>2, <1>3, <1>6 DEF SlotOk

(* A step of p that writes to no segment and takes p to no place within.   *)
Passes(p) ==
  /\ \A s \in SlotSegments :
       seg'[s].mutex = seg[s].mutex /\ seg'[s].pid = seg[s].pid /\ seg'[s].data = seg[s].data
  /\ id' = id /\ shown' = shown /\ quiet' = quiet
  /\ \A q \in SharedSlot!Procs : q # p => slotPc'[q] = slotPc[q] /\ ptr'[q] = ptr[q]
  /\ ~ Within(p)' \/ (slotPc'[p] = slotPc[p] /\ ptr'[p] = ptr[p])

(* A step that writes to no segment and enters none keeps the invariant.   *)
LEMMA SlotPasses ==
  ASSUME SlotInv, SlotTypes', NEW p \in SharedSlot!Procs, Passes(p)
  PROVE  SlotInv'
<1>1. Numbers
  BY DEF SlotInv, SlotTypes, Numbers, Passes
<1>2. \A s \in SlotSegments : Untouched(s)
  BY DEF Untouched, Passes
<1>3. \A s \in SlotSegments : SlotOk(s)'
  BY <1>1, <1>2, SlotUntouched DEF SlotInv
<1>. QED
  BY <1>3 DEF SlotInv

(* The start of a process, a found lock, a signal and a new segment are    *)
(* such steps.                                                             *)
LEMMA SlotQuietSteps ==
  ASSUME SlotInv, NEW p \in SharedSlot!Procs,
         \/ SharedSlot!Starts(p) \/ SharedSlot!FindsSegment(p) \/ SharedSlot!FindsNone(p)
         \/ SharedSlot!shmat(p) \/ SharedSlot!FindsLocked(p) \/ SharedSlot!Wakes(p)
         \/ SharedSlot!sig_int(p) \/ SharedSlot!sig_quit(p) \/ SharedSlot!Creates(p)
  PROVE  SlotTypes' /\ Passes(p)
<1> USE DEF SlotInv, SlotTypes, SlotPlaces, SharedSlot!To, Passes, Within, SharedSlot!Inside
<1>1. CASE SharedSlot!Starts(p)
  BY <1>1 DEF SharedSlot!Starts
<1>2. CASE SharedSlot!FindsSegment(p)
  BY <1>2 DEF SharedSlot!FindsSegment
<1>3. CASE SharedSlot!FindsNone(p)
  BY <1>3 DEF SharedSlot!FindsNone
<1>4. CASE SharedSlot!shmat(p)
  <2>1. PICK to \in {"outside", "exited"} : slotPc[p] = "found" /\ slotPc' = [slotPc EXCEPT ![p] = to]
    BY <1>4 DEF SharedSlot!shmat
  <2>. QED
    BY <1>4, <2>1 DEF SharedSlot!shmat
<1>5. CASE SharedSlot!FindsLocked(p)
  BY <1>5 DEF SharedSlot!FindsLocked
<1>6. CASE SharedSlot!Wakes(p)
  BY <1>6 DEF SharedSlot!Wakes
<1>7. CASE SharedSlot!sig_int(p)
  BY <1>7 DEF SharedSlot!sig_int
<1>8. CASE SharedSlot!sig_quit(p)
  BY <1>8 DEF SharedSlot!sig_quit
<1>9. CASE SharedSlot!Creates(p)
  <2>1. /\ slotPc[p] = "creating" /\ slotPc' = [slotPc EXCEPT ![p] = "initialising"]
        /\ ptr' = [ptr EXCEPT ![p] = keyed']
        /\ id' = id /\ shown' = shown /\ quiet' = quiet
    BY <1>9 DEF SharedSlot!Creates
  <2>2. /\ keyed' \in SlotSegments
        /\ seg' \in [SlotSegments -> SegmentType]
        /\ \A s \in SlotSegments : /\ seg'[s].mutex = seg[s].mutex
                                   /\ seg'[s].pid = seg[s].pid /\ seg'[s].data = seg[s].data
    <3>1. CASE keyed # NULL /\ UNCHANGED <<keyed, seg>>
      BY <3>1
    <3>2. CASE keyed' \in SlotSegments /\ seg' = [seg EXCEPT ![keyed'].made = TRUE]
      <4>1. seg \in [SlotSegments -> SegmentType]
        OBVIOUS
      <4>2. seg' \in [SlotSegments -> SegmentType]
        BY <3>2, <4>1 DEF SegmentType
      <4>3. \A s \in SlotSegments : /\ seg'[s].mutex = seg[s].mutex
                                    /\ seg'[s].pid = seg[s].pid /\ seg'[s].data = seg[s].data
        BY <3>2, <4>1 DEF SegmentType
      <4>. QED
        BY <3>2, <4>2, <4>3
    <3>. QED
      BY <1>9, <3>1, <3>2 DEF SharedSlot!Creates
  <2>. QED
    BY <2>1, <2>2
<1>. QED
  BY <1>1, <1>2, <1>3, <1>4, <1>5, <1>6, <1>7, <1>8, <1>9

(* A step of p that touches no segment but its own.                        *)
ActsOn(p, s) ==
  /\ s \in SlotSegments /\ ptr[p] = s
  /\ keyed' = keyed /\ ptr' = ptr
  /\ seg' \in [SlotSegments -> SegmentType]
  /\ shown' \in [SlotSegments -> Seq(SlotProducers \X Nat)]
  /\ quiet' \in [SlotSegments -> BOOLEAN]
  /\ \A t \in SlotSegments \ {s} : seg'[t] = seg[t] /\ shown'[t] = shown[t] /\ quiet'[t] = quiet[t]
  /\ \E to \in SlotPlaces \ {"none", "getting", "creating"} : slotPc' = [slotPc EXCEPT ![p] = to]

(* A step on one segment keeps the invariant if that segment keeps it.     *)
LEMMA SlotActs ==
  ASSUME SlotInv, NEW p \in SharedSlot!Procs, NEW s, ActsOn(p, s), Numbers, SlotOk(s)'
  PROVE  SlotInv'
<1> USE DEF ActsOn
<1>1. PICK to \in SlotPlaces \ {"none", "getting", "creating"} : slotPc' = [slotPc EXCEPT ![p] = to]
  OBVIOUS
<1>2. SlotTypes'
  BY <1>1 DEF SlotInv, SlotTypes, Numbers
<1>3. \A q \in SharedSlot!Procs : q # p => slotPc'[q] = slotPc[q]
  BY <1>1 DEF SlotInv, SlotTypes
<1>4. \A t \in SlotSegments \ {s} : Untouched(t)
  BY <1>3 DEF Untouched
<1>5. \A t \in SlotSegments : SlotOk(t)'
  BY <1>4, SlotUntouched DEF SlotInv
<1>. QED
  BY <1>2, <1>5 DEF SlotInv

(* What a write of one field leaves alone.                                 *)
OthersStay(s) == \A t \in SlotSegments \ {s} : seg'[t] = seg[t]

(* An assignment through ptr changes one field of one segment.             *)
LEMMA SlotWrites ==
  ASSUME SlotInv, NEW p \in SharedSlot!Procs, ptr[p] \in SlotSegments, NEW v
  PROVE  /\ SharedSlot!Writes(p, "mutex", v) /\ v \in 0 .. 2 =>
              /\ seg' \in [SlotSegments -> SegmentType] /\ OthersStay(ptr[p])
              /\ seg'[ptr[p]].mutex = v /\ seg'[ptr[p]].pid = seg[ptr[p]].pid
              /\ seg'[ptr[p]].data = seg[ptr[p]].data
         /\ SharedSlot!Writes(p, "pid", v) /\ v \in SlotProducers \union {NULL} =>
              /\ seg' \in [SlotSegments -> SegmentType] /\ OthersStay(ptr[p])
              /\ seg'[ptr[p]].mutex = seg[ptr[p]].mutex /\ seg'[ptr[p]].pid = v
              /\ seg'[ptr[p]].data = seg[ptr[p]].data
         /\ SharedSlot!Writes(p, "data", v) /\ v \in SlotProducers \X Nat =>
              /\ seg' \in [SlotSegments -> SegmentType] /\ OthersStay(ptr[p])
              /\ seg'[ptr[p]].mutex = seg[ptr[p]].mutex /\ seg'[ptr[p]].pid = seg[ptr[p]].pid
              /\ seg'[ptr[p]].data = v
<1>1. seg \in [SlotSegments -> SegmentType]
  BY DEF SlotInv, SlotTypes
<1> DEFINE s == ptr[p]
<1>2. s \in SlotSegments
  OBVIOUS
<1> HIDE DEF s
<1>3. ASSUME v \in 0 .. 2, seg' = [seg EXCEPT ![s].mutex = v]
      PROVE  /\ seg' \in [SlotSegments -> SegmentType] /\ OthersStay(s)
             /\ seg'[s].mutex = v /\ seg'[s].pid = seg[s].pid /\ seg'[s].data = seg[s].data
  BY <1>1, <1>2, <1>3 DEF SegmentType, OthersStay
<1>4. ASSUME v \in SlotProducers \union {NULL}, seg' = [seg EXCEPT ![s].pid = v]
      PROVE  /\ seg' \in [SlotSegments -> SegmentType] /\ OthersStay(s)
             /\ seg'[s].mutex = seg[s].mutex /\ seg'[s].pid = v /\ seg'[s].data = seg[s].data
  BY <1>1, <1>2, <1>4 DEF SegmentType, OthersStay
<1>5. ASSUME v \in SlotProducers \X Nat, seg' = [seg EXCEPT ![s].data = v]
      PROVE  /\ seg' \in [SlotSegments -> SegmentType] /\ OthersStay(s)
             /\ seg'[s].mutex = seg[s].mutex /\ seg'[s].pid = seg[s].pid /\ seg'[s].data = v
  BY <1>1, <1>2, <1>5 DEF SegmentType, OthersStay
<1>. QED
  BY <1>3, <1>4, <1>5 DEF SharedSlot!Writes, s

(* A segment that is initialised stays quiet only if nobody is within.     *)
LEMMA SlotInitialises ==
  ASSUME SlotInv, NEW p \in SharedSlot!Procs, SharedSlot!Initialises(p)
  PROVE  SlotInv'
<1> PICK s : s = ptr[p]
  OBVIOUS
<1>1. /\ slotPc[p] = "initialising" /\ slotPc' = [slotPc EXCEPT ![p] = "found"]
      /\ ptr' = ptr /\ id' = id /\ shown' = shown /\ keyed' = keyed
      /\ seg' = [seg EXCEPT ![s].mutex = 0, ![s].pid = NULL]
      /\ quiet' = [quiet EXCEPT ![s] =
           @ /\ \A q \in SharedSlot!Procs \ {p} :
                  ptr[q] = s => slotPc[q] \in {"none", "exited", "initialising"}]
  BY DEF SharedSlot!Initialises, SharedSlot!To
<1>2. s \in SlotSegments
  BY <1>1 DEF SlotInv, SlotTypes
<1>3. /\ seg' \in [SlotSegments -> SegmentType] /\ OthersStay(s)
      /\ seg'[s].pid = NULL /\ seg'[s].data = seg[s].data
  <2>1. seg \in [SlotSegments -> SegmentType] /\ seg' = [seg EXCEPT ![s].mutex = 0, ![s].pid = NULL]
    BY <1>1 DEF SlotInv, SlotTypes
  <2>2. OthersStay(s) /\ DOMAIN seg' = SlotSegments
    BY <1>2, <2>1 DEF OthersStay
  <2>3. seg'[s] = [seg[s] EXCEPT !.mutex = 0, !.pid = NULL] /\ seg[s] \in SegmentType
    BY <1>2, <2>1
  <2>4. /\ seg'[s] = [made |-> seg[s].made, mutex |-> 0, pid |-> NULL, data |-> seg[s].data]
        /\ seg[s].made \in BOOLEAN /\ seg[s].data \in (SlotProducers \X Nat) \union {NULL}
    BY <2>3 DEF SegmentType
  <2>5. seg'[s] \in SegmentType /\ seg'[s].pid = NULL /\ seg'[s].data = seg[s].data
    BY <2>4 DEF SegmentType
  <2>6. \A t \in SlotSegments : seg'[t] \in SegmentType
    BY <2>1, <2>2, <2>5 DEF OthersStay
  <2>7. seg' \in [SlotSegments -> SegmentType]
    BY <2>1, <2>2, <2>6
  <2>. QED
    BY <2>2, <2>5, <2>7
<1>4. /\ quiet' \in [SlotSegments -> BOOLEAN]
      /\ \A t \in SlotSegments \ {s} : quiet'[t] = quiet[t]
  BY <1>1, <1>2 DEF SlotInv, SlotTypes
<1>5. quiet'[s] => quiet[s] /\ \A q \in SharedSlot!Procs : ptr[q] = s => ~ Within(q)'
  BY <1>1, <1>2 DEF SlotInv, SlotTypes, Within, SharedSlot!Inside
<1>6. \A q \in SharedSlot!Procs : slotPc'[q] = slotPc[q] \/ (q = p /\ ~ Within(p)')
  BY <1>1 DEF SlotInv, SlotTypes, Within, SharedSlot!Inside
<1>7. ActsOn(p, s) /\ Numbers
  <2>0. ptr[p] = s /\ SlotTypes
    BY DEF SlotInv
  <2>1. "found" \in SlotPlaces \ {"none", "getting", "creating"}
    BY DEF SlotPlaces
  <2>2. Numbers
    BY <1>1, <2>0 DEF Numbers, SlotTypes
  <2>3. shown' \in [SlotSegments -> Seq(SlotProducers \X Nat)]
    BY <1>1, <2>0 DEF SlotTypes
  <2>. QED
    BY <1>1, <1>2, <1>3, <1>4, <2>0, <2>1, <2>2, <2>3 DEF ActsOn, OthersStay
<1>8. SlotOk(s)'
  <2>1. SlotOk(s)
    BY <1>2 DEF SlotInv
  <2>2. ASSUME quiet'[s] PROVE Orderly(s)'
    <3>1. InOrder(s)' /\ \A q \in SharedSlot!Procs : ptr'[q] = s => ~ Within(q)'
      BY <1>1, <1>5, <2>1, <2>2 DEF SlotOk, Orderly, InOrder
    <3>. QED
      BY <1>3, <3>1 DEF Orderly, Within, SharedSlot!Inside
  <2>3. \A q \in SharedSlot!Procs :
          slotPc'[q] = "filled" /\ ptr'[q] = s => q \in SlotProducers /\ Item(seg[s].data)'
    BY <1>1, <1>3, <1>6, <2>1 DEF SlotOk, Item, Within, SharedSlot!Inside
  <2>4. \A i \in DOMAIN shown'[s] : Item(shown[s][i])'
    BY <1>1, <2>1 DEF SlotOk, Item
  <2>. QED
    BY <1>3, <2>2, <2>3, <2>4 DEF SlotOk
<1>. QED
  BY <1>7, <1>8, SlotActs

(* A step of p that leaves what was shown, and who is quiet.               *)
Writes(p, s, to) ==
  /\ s \in SlotSegments /\ ptr[p] = s
  /\ to \in SlotPlaces \ {"none", "getting", "creating"}
  /\ slotPc' = [slotPc EXCEPT ![p] = to]
  /\ keyed' = keyed /\ ptr' = ptr /\ quiet' = quiet
  /\ seg' \in [SlotSegments -> SegmentType] /\ OthersStay(s)

(* An assignment acts on the segment it writes to.                         *)
LEMMA SlotWritesActs ==
  ASSUME SlotInv, NEW p \in SharedSlot!Procs, NEW s, NEW to, Writes(p, s, to), shown' = shown
  PROVE  ActsOn(p, s)
<1>1. SlotTypes
  BY DEF SlotInv
<1>2. shown' \in [SlotSegments -> Seq(SlotProducers \X Nat)] /\ quiet' \in [SlotSegments -> BOOLEAN]
  BY <1>1 DEF SlotTypes, Writes
<1>. QED
  BY <1>2 DEF Writes, ActsOn, OthersStay

(* The mutex is taken when it is free, and nobody is within then.          *)
LEMMA SlotTakes ==
  ASSUME SlotInv, NEW p \in SharedSlot!Procs, NEW s, Writes(p, s, "holds"), ~ Within(p),
         shown' = shown, id' = id, seg[s].mutex = 0, seg'[s].mutex # 0,
         seg'[s].pid = seg[s].pid, seg'[s].data = seg[s].data
  PROVE  SlotInv'
<1>1. SlotTypes /\ SlotOk(s) /\ s \in SlotSegments
  BY DEF SlotInv, Writes
<1>2. ActsOn(p, s)
  BY SlotWritesActs
<1>3. Numbers
  BY <1>1 DEF SlotTypes, Numbers
<1>4. /\ \A q \in SharedSlot!Procs : q # p => slotPc'[q] = slotPc[q]
      /\ slotPc'[p] = "holds" /\ ptr' = ptr /\ quiet' = quiet
  BY <1>1 DEF SlotTypes, Writes
<1>5. Fresh(s)' <=> Fresh(s)
  BY DEF Fresh
<1>6. ASSUME quiet'[s] PROVE Orderly(s)'
  <2>1. Orderly(s)
    BY <1>1, <1>4, <1>6 DEF SlotOk
  <2>2. \A q \in SharedSlot!Procs : ptr[q] = s => ~ Within(q)
    BY <2>1 DEF Orderly
  <2>3. \A q \in SharedSlot!Procs : Within(q)' /\ ptr'[q] = s => q = p
    BY <1>4, <2>2 DEF Within
  <2>4. seg'[s].pid # NULL => Fresh(s)'
    BY <2>1, <1>5 DEF Orderly
  <2>5. InOrder(s)'
    BY <2>1 DEF Orderly, InOrder
  <2>6. \A q \in SharedSlot!Procs : slotPc'[q] = "filled" => Within(q)' /\ q # p
    BY <1>4 DEF Within, SharedSlot!Inside
  <2>. QED
    BY <2>3, <2>4, <2>5, <2>6 DEF Orderly
<1>7. SlotOk(s)'
  BY <1>1, <1>4, <1>6 DEF SlotOk, Item
<1>. QED
  BY <1>2, <1>3, <1>7, SlotActs

(* Taking the mutex keeps the invariant of the segment.                    *)
LEMMA SlotLocks ==
  ASSUME SlotInv, NEW p \in SharedSlot!Procs, SharedSlot!Locks(p) \/ SharedSlot!Marks(p)
  PROVE  SlotInv'
<1> PICK s : s = ptr[p]
  OBVIOUS
<1>1. SlotTypes
  BY DEF SlotInv
<1>2. s \in SlotSegments /\ SlotOk(s) /\ ~ Within(p)
  BY <1>1 DEF SlotInv, SlotTypes, SharedSlot!Locks, SharedSlot!Marks, SharedSlot!To, Within, SharedSlot!Inside
<1>3. UNCHANGED <<keyed, ptr, id, shown, quiet>>
  BY DEF SharedSlot!Locks, SharedSlot!Marks
<1>4. /\ seg' \in [SlotSegments -> SegmentType] /\ OthersStay(s)
      /\ seg'[s].mutex \in {1, 2} /\ seg'[s].pid = seg[s].pid /\ seg'[s].data = seg[s].data
  <2>1. CASE SharedSlot!Locks(p)
    BY <1>2, <2>1, SlotWrites DEF SharedSlot!Locks
  <2>2. CASE SharedSlot!Marks(p)
    BY <1>2, <2>2, SlotWrites DEF SharedSlot!Marks
  <2>. QED
    BY <2>1, <2>2
<1>5. CASE seg[s].mutex = 0
  <2>1. slotPc' = [slotPc EXCEPT ![p] = "holds"]
    BY <1>5 DEF SharedSlot!Locks, SharedSlot!Marks, SharedSlot!To
  <2>2. Writes(p, s, "holds")
    BY <1>2, <1>3, <1>4, <2>1 DEF Writes, SlotPlaces
  <2>. QED
    BY <1>2, <1>3, <1>4, <1>5, <2>2, SlotTakes
<1>6. CASE seg[s].mutex # 0
  <2>1. slotPc' = [slotPc EXCEPT ![p] = "asleep"]
    BY <1>6 DEF SharedSlot!Locks, SharedSlot!Marks
  <2>2. Writes(p, s, "asleep")
    BY <1>2, <1>3, <1>4, <2>1 DEF Writes, SlotPlaces
  <2>3. /\ \A q \in SharedSlot!Procs : slotPc'[q] = slotPc[q] \/ (q = p /\ ~ Within(p)')
    BY <1>1, <2>1 DEF SlotTypes, Within, SharedSlot!Inside
  <2>4. Fresh(s)' <=> Fresh(s)
    BY <1>3, <1>4 DEF Fresh
  <2>5. ASSUME quiet'[s] PROVE Orderly(s)'
    <3>1. Orderly(s)
      BY <1>2, <1>3, <2>5 DEF SlotOk
    <3>2. InOrder(s)'
      BY <1>3, <3>1 DEF Orderly, InOrder
    <3>. QED
      BY <1>3, <1>4, <1>6, <2>3, <2>4, <3>1, <3>2 DEF Orderly, Within, SharedSlot!Inside
  <2>6. SlotOk(s)'
    BY <1>2, <1>3, <1>4, <2>3, <2>5 DEF SlotOk, Item, Within, SharedSlot!Inside
  <2>7. ActsOn(p, s) /\ Numbers
    BY <1>1, <1>3, <2>2, SlotWritesActs DEF Numbers, SlotTypes
  <2>. QED
    BY <2>6, <2>7, SlotActs
<1>. QED
  BY <1>5, <1>6

(* Who is within is alone there, and stays within or unlocks.              *)
LEMMA SlotWithin ==
  ASSUME SlotInv, NEW p \in SharedSlot!Procs, Within(p)
  PROVE  /\ SlotTypes /\ ptr[p] \in SlotSegments /\ SlotOk(ptr[p])
         /\ quiet[ptr[p]] => /\ Orderly(ptr[p]) /\ seg[ptr[p]].mutex # 0
                             /\ \A q \in SharedSlot!Procs : Within(q) /\ ptr[q] = ptr[p] => q = p
<1>1. SlotTypes /\ ptr[p] \in SlotSegments
  BY DEF SlotInv, SlotTypes, Within, SharedSlot!Inside
<1>2. SlotOk(ptr[p])
  BY <1>1 DEF SlotInv
<1>3. quiet[ptr[p]] => Orderly(ptr[p])
  BY <1>2 DEF SlotOk
<1>. QED
  BY <1>1, <1>2, <1>3 DEF Orderly

(* Giving the mutex back keeps the invariant of the segment.               *)
LEMMA SlotUnlocks ==
  ASSUME SlotInv, NEW p \in SharedSlot!Procs, SharedSlot!Unlocks(p)
  PROVE  SlotInv'
<1> PICK s : s = ptr[p]
  OBVIOUS
<1>1. /\ slotPc[p] \in {"holds", "served"} /\ slotPc' = [slotPc EXCEPT ![p] = "outside"]
      /\ SharedSlot!Writes(p, "mutex", 0) /\ UNCHANGED <<keyed, ptr, id, shown, quiet>>
  BY DEF SharedSlot!Unlocks, SharedSlot!To
<1>2. /\ SlotTypes /\ s \in SlotSegments /\ SlotOk(s)
      /\ quiet[s] => /\ Orderly(s) /\ seg[s].mutex # 0
                     /\ \A q \in SharedSlot!Procs : Within(q) /\ ptr[q] = s => q = p
  BY <1>1, SlotWithin DEF Within, SharedSlot!Inside
<1>3. /\ seg' \in [SlotSegments -> SegmentType] /\ OthersStay(s)
      /\ seg'[s].mutex = 0 /\ seg'[s].pid = seg[s].pid /\ seg'[s].data = seg[s].data
  BY <1>1, <1>2, SlotWrites
<1>4. \A q \in SharedSlot!Procs : slotPc'[q] = slotPc[q] \/ (q = p /\ ~ Within(p)')
  BY <1>1, <1>2 DEF SlotTypes, Within, SharedSlot!Inside
<1>5. slotPc'[p] = "outside" /\ ~ Within(p)'
  BY <1>1, <1>2 DEF SlotTypes, Within, SharedSlot!Inside
<1>6. ASSUME quiet'[s] PROVE Orderly(s)'
  <2>1. \A q \in SharedSlot!Procs : ptr'[q] = s => ~ Within(q)'
    BY <1>1, <1>2, <1>4, <1>5, <1>6 DEF Within
  <2>2. seg'[s].pid # NULL => Fresh(s)'
    BY <1>1, <1>2, <1>3, <1>6 DEF Orderly, Fresh
  <2>3. InOrder(s)'
    BY <1>1, <1>2, <1>6 DEF Orderly, InOrder
  <2>. QED
    BY <2>1, <2>2, <2>3 DEF Orderly, Within, SharedSlot!Inside
<1>7. SlotOk(s)'
  BY <1>1, <1>2, <1>3, <1>4, <1>6 DEF SlotOk, Item, Within, SharedSlot!Inside
<1>8. Writes(p, s, "outside") /\ Numbers
  BY <1>1, <1>2, <1>3 DEF Writes, SlotPlaces, Numbers, SlotTypes
<1>9. ActsOn(p, s)
  BY <1>1, <1>8, SlotWritesActs
<1>. QED
  BY <1>7, <1>8, <1>9, SlotActs

(* The holder goes on: the others are nowhere in the segment while it is   *)
(* quiet, and what is left to show is what its next place asks for.        *)
LEMMA SlotHolds ==
  ASSUME SlotInv, NEW p \in SharedSlot!Procs, NEW s, ptr[p] = s, Within(p), NEW to,
         to \in {"filled", "copied", "served"}, slotPc' = [slotPc EXCEPT ![p] = to],
         ptr' = ptr, quiet' = quiet, seg'[s].mutex = seg[s].mutex,
         quiet[s] => InOrder(s)',
         quiet[s] /\ to = "served" /\ seg'[s].pid # NULL => Fresh(s)',
         quiet[s] /\ to = "filled" => Fresh(s)'
  PROVE  quiet'[s] => Orderly(s)'
<1> SUFFICES ASSUME quiet'[s] PROVE Orderly(s)'
  OBVIOUS
<1>1. /\ SlotTypes /\ seg[s].mutex # 0
      /\ \A q \in SharedSlot!Procs : Within(q) /\ ptr[q] = s => q = p
  BY SlotWithin
<1>2. \A q \in SharedSlot!Procs : slotPc'[q] = IF q = p THEN to ELSE slotPc[q]
  BY <1>1 DEF SlotTypes
<1>3. \A q \in SharedSlot!Procs : Within(q)' /\ ptr'[q] = s => q = p
  BY <1>1, <1>2 DEF Within
<1>4. slotPc'[p] = to
  BY <1>2
<1>5. \A q \in SharedSlot!Procs : slotPc'[q] \in {"holds", "served", "filled"} => Within(q)'
  BY DEF Within, SharedSlot!Inside
<1>. QED
  BY <1>1, <1>3, <1>4, <1>5 DEF Orderly

(* Setting and clearing pid keeps the invariant of the segment.            *)
LEMMA SlotMarksItem ==
  ASSUME SlotInv, NEW p \in SharedSlot!Procs, SharedSlot!SetsPid(p) \/ SharedSlot!ClearsPid(p)
  PROVE  SlotInv'
<1> PICK s : s = ptr[p]
  OBVIOUS
<1>1. /\ Within(p) /\ slotPc' = [slotPc EXCEPT ![p] = "served"]
      /\ UNCHANGED <<keyed, ptr, id, shown, quiet>>
  BY DEF SharedSlot!SetsPid, SharedSlot!ClearsPid, SharedSlot!To, Within, SharedSlot!Inside
<1>2. /\ SlotTypes /\ s \in SlotSegments /\ SlotOk(s)
      /\ quiet[s] => Orderly(s)
  BY <1>1, SlotWithin
<1>3. /\ seg' \in [SlotSegments -> SegmentType] /\ OthersStay(s)
      /\ seg'[s].mutex = seg[s].mutex /\ seg'[s].data = seg[s].data
      /\ seg'[s].pid # NULL => slotPc[p] = "filled"
  <2>1. CASE SharedSlot!SetsPid(p)
    <3>1. slotPc[p] = "filled" /\ p \in SlotProducers
      BY <2>1, <1>2 DEF SharedSlot!SetsPid, SharedSlot!To, SlotOk
    <3>. QED
      BY <1>2, <2>1, <3>1, SlotWrites DEF SharedSlot!SetsPid
  <2>2. CASE SharedSlot!ClearsPid(p)
    BY <1>2, <2>2, SlotWrites DEF SharedSlot!ClearsPid
  <2>. QED
    BY <2>1, <2>2
<1>4. Fresh(s)' <=> Fresh(s)
  BY <1>1, <1>3 DEF Fresh
<1>5. quiet[s] => InOrder(s)'
  BY <1>1, <1>2 DEF Orderly, InOrder
<1>6. quiet[s] /\ seg'[s].pid # NULL => Fresh(s)'
  BY <1>2, <1>3, <1>4 DEF Orderly
<1>7. quiet'[s] => Orderly(s)'
  BY <1>1, <1>3, <1>5, <1>6, SlotHolds
<1>8. \A q \in SharedSlot!Procs : slotPc'[q] = "filled" => slotPc[q] = "filled"
  BY <1>1, <1>2 DEF SlotTypes
<1>9. SlotOk(s)'
  BY <1>1, <1>2, <1>3, <1>7, <1>8 DEF SlotOk, Item
<1>10. Writes(p, s, "served") /\ Numbers
  BY <1>1, <1>2, <1>3 DEF Writes, SlotPlaces, Numbers, SlotTypes
<1>11. ActsOn(p, s)
  BY <1>1, <1>10, SlotWritesActs
<1>. QED
  BY <1>9, <1>10, <1>11, SlotActs

(* Filling the slot with the next number keeps the invariant.              *)
LEMMA SlotFills ==
  ASSUME SlotInv, NEW p \in SharedSlot!Procs, SharedSlot!Fills(p)
  PROVE  SlotInv'
<1> PICK s : s = ptr[p]
  OBVIOUS
<1>1. /\ p \in SlotProducers /\ Within(p) /\ slotPc' = [slotPc EXCEPT ![p] = "filled"]
      /\ seg[s].pid = NULL /\ id' = [id EXCEPT ![p] = @ + 1]
      /\ SharedSlot!Writes(p, "data", <<p, id'[p]>>)
      /\ UNCHANGED <<keyed, ptr, shown, quiet>>
  BY DEF SharedSlot!Fills, SharedSlot!To, Within, SharedSlot!Inside
<1>2. /\ SlotTypes /\ s \in SlotSegments /\ SlotOk(s)
      /\ quiet[s] => Orderly(s)
  BY <1>1, SlotWithin
<1>3. /\ id \in [SlotProducers -> Nat] /\ id[p] \in Nat /\ id'[p] = id[p] + 1
      /\ id' \in [SlotProducers -> Nat] /\ \A q \in SlotProducers \ {p} : id'[q] = id[q]
  BY <1>1, <1>2 DEF SlotTypes
<1>4. Numbers
  <2>1. \A q \in SlotProducers : id[q] <= id'[q]
    BY <1>3
  <2>. QED
    BY <1>3, <2>1 DEF Numbers
<1>5. <<p, id'[p]>> \in SlotProducers \X Nat
  BY <1>1, <1>3
<1>6. /\ seg' \in [SlotSegments -> SegmentType] /\ OthersStay(s)
      /\ seg'[s].mutex = seg[s].mutex /\ seg'[s].pid = NULL /\ seg'[s].data = <<p, id'[p]>>
  BY <1>1, <1>2, <1>5, SlotWrites
<1>7. Item(seg[s].data)'
  BY <1>3, <1>5, <1>6 DEF Item
<1>8. \A i \in DOMAIN shown'[s] : Item(shown[s][i])'
  BY <1>1, <1>2, <1>4, ItemStays DEF SlotOk, Item
<1>9. Fresh(s)'
  <2> SUFFICES ASSUME NEW i \in DOMAIN shown[s], shown[s][i][1] = p
               PROVE  shown[s][i][2] < id'[p]
    BY <1>1, <1>6 DEF Fresh
  <2>1. shown[s][i][2] \in Nat /\ shown[s][i][2] <= id[p]
    BY <1>2 DEF SlotOk, Item
  <2>. QED
    BY <1>3, <2>1
<1>10. quiet[s] => InOrder(s)'
  BY <1>1, <1>2 DEF Orderly, InOrder
<1>11. quiet'[s] => Orderly(s)'
  BY <1>1, <1>6, <1>9, <1>10, SlotHolds
<1>12. \A q \in SharedSlot!Procs : slotPc'[q] = "filled" => q = p \/ slotPc[q] = "filled"
  BY <1>1, <1>2 DEF SlotTypes
<1>13. SlotOk(s)'
  <2>1. \A q \in SharedSlot!Procs : slotPc'[q] = "filled" /\ ptr'[q] = s => q \in SlotProducers
    BY <1>1, <1>2, <1>12 DEF SlotOk
  <2>. QED
    BY <1>6, <1>7, <1>8, <1>11, <2>1 DEF SlotOk
<1>14. Writes(p, s, "filled")
  BY <1>1, <1>2, <1>6 DEF Writes, SlotPlaces
<1>15. ActsOn(p, s)
  BY <1>1, <1>14, SlotWritesActs
<1>. QED
  BY <1>4, <1>13, <1>15, SlotActs

(* Copying the item out, the consumer shows one it had not shown.          *)
LEMMA SlotCopies ==
  ASSUME SlotInv, NEW p \in SharedSlot!Procs, SharedSlot!Copies(p)
  PROVE  SlotInv'
<1> PICK s : s = ptr[p]
  OBVIOUS
<1> DEFINE d == seg[s].data
<1>1. /\ slotPc[p] = "holds" /\ Within(p) /\ slotPc' = [slotPc EXCEPT ![p] = "copied"]
      /\ seg[s].pid # NULL /\ shown' = [shown EXCEPT ![s] = Append(@, d)]
      /\ UNCHANGED <<keyed, seg, ptr, id, quiet>>
  BY DEF SharedSlot!Copies, SharedSlot!To, Within, SharedSlot!Inside
<1>2. /\ SlotTypes /\ s \in SlotSegments /\ SlotOk(s)
      /\ quiet[s] => Orderly(s)
  BY <1>1, SlotWithin
<1>3. Item(d) /\ d \in SlotProducers \X Nat
  BY <1>1, <1>2 DEF SlotOk, Item
<1> DEFINE before == shown[s]
<1>4. /\ before \in Seq(SlotProducers \X Nat)
      /\ shown' \in [SlotSegments -> Seq(SlotProducers \X Nat)]
      /\ shown'[s] = Append(before, d)
      /\ \A t \in SlotSegments \ {s} : shown'[t] = shown[t]
  BY <1>1, <1>2, <1>3 DEF SlotTypes
<1> HIDE DEF before, d
<1>5. /\ DOMAIN shown'[s] = 1 .. Len(before) + 1 /\ DOMAIN before = 1 .. Len(before)
      /\ Len(before) \in Nat
      /\ \A i \in 1 .. Len(before) : shown'[s][i] = before[i]
      /\ shown'[s][Len(before) + 1] = d
  BY <1>4
<1>6. \A i \in DOMAIN shown'[s] : i \in DOMAIN before \/ i = Len(before) + 1
  BY <1>5
<1>7. \A i \in DOMAIN shown'[s] : Item(shown[s][i])'
  <2>1. \A i \in DOMAIN before : Item(before[i])
    BY <1>2 DEF SlotOk, before
  <2>. QED
    BY <1>1, <1>3, <1>5, <1>6, <2>1 DEF Item
<1>8. ASSUME quiet[s] PROVE InOrder(s)'
  <2>1. Fresh(s) /\ InOrder(s)
    BY <1>1, <1>2, <1>8 DEF Orderly
  <2> SUFFICES ASSUME NEW i \in DOMAIN shown'[s], NEW j \in DOMAIN shown'[s], i < j,
                      shown'[s][i][1] = shown'[s][j][1]
               PROVE  shown'[s][i][2] < shown'[s][j][2]
    BY DEF InOrder
  <2>2. i \in DOMAIN before
    BY <1>5
  <2>3. CASE j \in DOMAIN before
    BY <1>5, <2>1, <2>2, <2>3 DEF InOrder, before
  <2>4. CASE j = Len(before) + 1
    BY <1>5, <2>1, <2>2, <2>4 DEF Fresh, before, d
  <2>. QED
    BY <1>6, <2>3, <2>4
<1>9. quiet'[s] => Orderly(s)'
  BY <1>1, <1>8, SlotHolds
<1>10. \A q \in SharedSlot!Procs : slotPc'[q] = "filled" => slotPc[q] = "filled"
  BY <1>1, <1>2 DEF SlotTypes
<1>11. SlotOk(s)'
  BY <1>1, <1>2, <1>7, <1>9, <1>10 DEF SlotOk, Item
<1>12. ActsOn(p, s) /\ Numbers
  <2>1. "copied" \in SlotPlaces \ {"none", "getting", "creating"}
    BY DEF SlotPlaces
  <2>2. seg' \in [SlotSegments -> SegmentType] /\ quiet' \in [SlotSegments -> BOOLEAN]
    BY <1>1, <1>2 DEF SlotTypes
  <2>3. Numbers
    BY <1>1, <1>2 DEF SlotTypes, Numbers
  <2>. QED
    BY <1>1, <1>2, <1>4, <2>1, <2>2, <2>3 DEF ActsOn
<1>. QED
  BY <1>11, <1>12, SlotActs

(* With the two invariants, every step keeps NoLostSlot.                   *)
LEMMA SlotNext == SlotInv /\ [SharedSlot!Next]_slotVars => SlotInv'
<1> SUFFICES ASSUME SlotInv, [SharedSlot!Next]_slotVars PROVE SlotInv'
  OBVIOUS
<1>1. CASE UNCHANGED slotVars
  BY <1>1 DEF slotVars, SlotInv, SlotTypes, SlotOk, Orderly, InOrder, Fresh, Item, Within
<1>2. ASSUME NEW p \in SharedSlot!Procs,
         \/ SharedSlot!Starts(p) \/ SharedSlot!FindsSegment(p) \/ SharedSlot!FindsNone(p)
         \/ SharedSlot!shmat(p) \/ SharedSlot!FindsLocked(p) \/ SharedSlot!Wakes(p)
         \/ SharedSlot!sig_int(p) \/ SharedSlot!sig_quit(p) \/ SharedSlot!Creates(p)
      PROVE  SlotInv'
  BY <1>2, SlotQuietSteps, SlotPasses
<1>. QED
  BY <1>1, <1>2, SlotInitialises, SlotLocks, SlotUnlocks, SlotMarksItem, SlotFills, SlotCopies
     DEF SharedSlot!Next, SharedSlot!Producer, SharedSlot!Consumer

(* The invariant holds throughout the runs.                                *)
LEMMA SlotAlways == MCSpec => []SlotInv
  BY SlotRuns, SlotInit, SlotNext, PTL

(***************************************************************************)
(* shm.c, for any number of processes and segments, killed wherever: in a  *)
(* segment that was not initialised under somebody's feet each item is     *)
(* shown at most once, those of a producer in the order it made them.      *)
(***************************************************************************)
THEOREM ItemsShownOnce == MCSpec => []ShownOnce
<1>1. SlotInv => ShownOnce
  BY DEF SlotInv, SlotOk, Orderly, InOrder, ShownOnce, SharedSlot!ShownOnce
<1>. QED
  BY <1>1, SlotAlways, PTL
-----------------------------------------------------------------------------
(* anonymous_semaphore.c.                                                  *)

(* Nothing is added by zero.                                               *)
LEMMA PlusZero == ASSUME NEW a \in Nat, NEW b, b = 0 PROVE a + b = a
  OBVIOUS

(* Both sides count in the same way.                                       *)
LEMMA RingCounts == \A S : SharedRing!Cardinality(S) = Cardinality(S)
  BY DEF SharedRing!Cardinality, Cardinality

(* A run of the composition is a run of the shared ring.                   *)
LEMMA RingRuns == MCSpec => SharedRing!Init /\ [][SharedRing!Next]_ringVars
<1>1. MCInit => SharedRing!Init
  BY DEF MCInit
<1>2. [MCNext]_mcVars => [SharedRing!Next]_ringVars
  BY DEF MCNext, mcVars, ringVars, vars
<1>. QED
  BY <1>1, <1>2, PTL DEF MCSpec

RingSetUp == {"init space", "init product", "init queue"}
RingHeld == {"check", "copy", "advance", "count", "store", "print", "post"}
RingPlaces == {"start", "create", "loop"} \union RingSetUp \union RingHeld

RingTypes ==
  /\ exists \in BOOLEAN
  /\ space \in Nat /\ product \in Nat /\ kills \in Nat
  /\ ringPc \in [SharedRing!Procs -> RingPlaces]

(* While one process sets the segment up the others have not started, and  *)
(* the semaphores come one after the other.                                *)
RingSetsUp ==
  /\ ~ exists => space = 0 /\ product = 0 /\ \A p \in SharedRing!Procs : ringPc[p] \in {"start", "create"}
  /\ \A p \in SharedRing!Procs : ringPc[p] \in {"create"} \union RingSetUp =>
       /\ ringPc[p] = "create" <=> ~ exists
       /\ product = 0
       /\ ringPc[p] \in {"create", "init space"} => space = 0
       /\ ringPc[p] \in {"init product", "init queue"} => space = RingSize
       /\ \A q \in SharedRing!Procs : q # p => ringPc[q] = "start"

RingFree == space + product

RingSlots == RingFree + Cardinality(SharedRing!Holding)

RingSum ==
  /\ RingSlots <= RingSize
  /\ exists /\ SharedRing!Creating = {} /\ kills = 0 => RingSlots = RingSize

RingInv == RingTypes /\ RingSetsUp /\ RingSum

(* The processes that hold a slot are finitely many.                       *)
LEMMA RingHolding ==
  /\ IsFiniteSet(SharedRing!Procs)
  /\ IsFiniteSet(SharedRing!Holding) /\ Cardinality(SharedRing!Holding) \in Nat
<1>1. IsFiniteSet(SharedRing!Procs)
  BY SyncAssumption, FS_Union DEF SharedRing!Procs
<1>2. IsFiniteSet(SharedRing!Holding)
  BY <1>1, FS_Subset DEF SharedRing!Holding
<1>. QED
  BY <1>1, <1>2, FS_CardinalityType

(* There is no segment, and no process holds a slot, before the first one  *)
(* starts.                                                                 *)
LEMMA RingInit == SharedRing!Init => RingInv
<1> SUFFICES ASSUME SharedRing!Init PROVE RingInv
  OBVIOUS
<1> USE DEF SharedRing!Init, SharedRing!Procs
<1>1. RingTypes
  BY DEF RingTypes, RingPlaces
<1>2. RingSetsUp
  BY DEF RingSetsUp, RingSetUp
<1>3. SharedRing!Holding = {}
  BY DEF SharedRing!Holding
<1>4. Cardinality(SharedRing!Holding) = 0
  BY <1>3, FS_EmptySet
<1>5. RingSum
  BY <1>4, SyncAssumption DEF RingSum, RingSlots, RingFree
<1>. QED
  BY <1>1, <1>2, <1>5 DEF RingInv

(* How a step of p from one place to another changes who holds a slot.     *)
LEMMA RingGoes ==
  ASSUME RingTypes, NEW p \in SharedRing!Procs, NEW to, ringPc' = [ringPc EXCEPT ![p] = to]
  PROVE  /\ ringPc[p] \in RingHeld <=> p \in SharedRing!Holding
         /\ ringPc[p] \in RingHeld /\ to \in RingHeld =>
              Cardinality(SharedRing!Holding') = Cardinality(SharedRing!Holding)
         /\ ringPc[p] \in RingHeld /\ to \notin RingHeld =>
              Cardinality(SharedRing!Holding') = Cardinality(SharedRing!Holding) - 1
         /\ ringPc[p] \notin RingHeld /\ to \in RingHeld =>
              Cardinality(SharedRing!Holding') = Cardinality(SharedRing!Holding) + 1
         /\ ringPc[p] \notin RingHeld /\ to \notin RingHeld =>
              Cardinality(SharedRing!Holding') = Cardinality(SharedRing!Holding)
<1> USE DEF SharedRing!Holding, RingHeld, RingTypes
<1>1. CASE ringPc[p] \in RingHeld /\ to \in RingHeld
  <2>1. SharedRing!Holding' = SharedRing!Holding
    BY <1>1
  <2>. QED
    BY <1>1, <2>1
<1>2. CASE ringPc[p] \in RingHeld /\ to \notin RingHeld
  <2>1. SharedRing!Holding' = SharedRing!Holding \ {p} /\ p \in SharedRing!Holding
    BY <1>2
  <2>2. Cardinality(SharedRing!Holding \ {p}) = Cardinality(SharedRing!Holding) - 1
    BY <2>1, RingHolding, OneLess
  <2>3. Cardinality(SharedRing!Holding') = Cardinality(SharedRing!Holding) - 1
    BY ONLY <2>1, <2>2
  <2>. QED
    BY <1>2, <2>1, <2>3
<1>3. CASE ringPc[p] \notin RingHeld /\ to \in RingHeld
  <2>1. SharedRing!Holding' = SharedRing!Holding \union {p} /\ p \notin SharedRing!Holding
    BY <1>3
  <2>2. Cardinality(SharedRing!Holding \union {p}) = Cardinality(SharedRing!Holding) + 1
    BY <2>1, RingHolding, OneMore
  <2>3. Cardinality(SharedRing!Holding') = Cardinality(SharedRing!Holding) + 1
    BY ONLY <2>1, <2>2
  <2>. QED
    BY <1>3, <2>1, <2>3
<1>4. CASE ringPc[p] \notin RingHeld /\ to \notin RingHeld
  <2>1. SharedRing!Holding' = SharedRing!Holding
    BY <1>4
  <2>. QED
    BY <1>4, <2>1
<1>. QED
  BY <1>1, <1>2, <1>3, <1>4

(* A step of a process that works on the ring moves at most one slot.      *)
Works(p, from, to) ==
  /\ from \in {"loop"} \union RingHeld /\ to \in {"loop"} \union RingHeld
  /\ ringPc[p] = from /\ ringPc' = [ringPc EXCEPT ![p] = to]
  /\ exists' = exists /\ kills' = kills
  /\ space' \in Nat /\ product' \in Nat
  /\ \/ from \in RingHeld /\ to \in RingHeld /\ RingFree' = RingFree
     \/ from = "loop" /\ to \in RingHeld /\ RingFree' = RingFree - 1
     \/ from \in RingHeld /\ to = "loop" /\ RingFree' = RingFree + 1

(* A step from one place to the next keeps the count of the slots.         *)
LEMMA RingWorks ==
  ASSUME RingInv, NEW p \in SharedRing!Procs, NEW from, NEW to, Works(p, from, to)
  PROVE  RingInv'
<1>1. RingTypes /\ RingSetsUp /\ RingSum
  BY DEF RingInv
<1>2. exists /\ \A q \in SharedRing!Procs : ringPc[q] \notin {"create"} \union RingSetUp
  BY <1>1 DEF RingTypes, RingSetsUp, RingSetUp, RingHeld, Works
<1>3. RingTypes'
  BY <1>1 DEF RingTypes, Works, RingPlaces
<1>4. \A q \in SharedRing!Procs : ringPc'[q] \notin {"create"} \union RingSetUp
  BY <1>1, <1>2 DEF RingTypes, Works, RingSetUp, RingHeld
<1>5. RingSetsUp'
  BY <1>2, <1>4 DEF RingSetsUp, Works
<1>6. SharedRing!Creating = {} /\ SharedRing!Creating' = {}
  BY <1>2, <1>4 DEF SharedRing!Creating, RingSetUp
<1>7. RingSlots' = RingSlots
  <2>1. Cardinality(SharedRing!Holding) \in Nat /\ RingFree \in Nat
    BY <1>1, RingHolding DEF RingTypes, RingFree
  <2>2. "loop" \notin RingHeld
    BY DEF RingHeld
  <2>3. CASE from \in RingHeld /\ to \in RingHeld
    <3>1. /\ Cardinality(SharedRing!Holding') = Cardinality(SharedRing!Holding)
          /\ RingFree' = RingFree
      BY <1>1, <2>2, <2>3, RingGoes DEF Works
    <3>. QED
      BY <3>1 DEF RingSlots
  <2>4. CASE from \in RingHeld /\ to = "loop"
    <3>1. /\ Cardinality(SharedRing!Holding') = Cardinality(SharedRing!Holding) - 1
          /\ RingFree' = RingFree + 1
      BY <1>1, <2>2, <2>4, RingGoes DEF Works
    <3>. QED
      BY <2>1, <3>1 DEF RingSlots
  <2>5. CASE from = "loop" /\ to \in RingHeld
    <3>1. /\ Cardinality(SharedRing!Holding') = Cardinality(SharedRing!Holding) + 1
          /\ RingFree' = RingFree - 1
      BY <1>1, <2>2, <2>5, RingGoes DEF Works
    <3>. QED
      BY <2>1, <3>1 DEF RingSlots
  <2>. QED
    BY <2>3, <2>4, <2>5 DEF Works
<1>8. RingSum'
  BY <1>1, <1>2, <1>6, <1>7 DEF RingSum, Works
<1>. QED
  BY <1>3, <1>5, <1>8 DEF RingInv

(* Every step of a producer or consumer that has attached keeps it.        *)
LEMMA RingActions ==
  ASSUME RingInv, NEW p \in SharedRing!Procs,
         \/ p \in RingProducers /\ SharedRing!Producer(p)
         \/ p \in RingConsumers /\ SharedRing!Consumer(p)
  PROVE  RingInv'
<1>1. space \in Nat /\ product \in Nat
  BY DEF RingInv, RingTypes
<1> USE DEF SharedRing!Goes, Works, RingHeld
<1>0. space' = space /\ product' = product => RingFree' = RingFree
  BY DEF RingFree
<1>2. CASE SharedRing!WaitsForSpace(p)
  <2>1. space' = space - 1 /\ product' = product /\ space' \in Nat
    BY <1>1, <1>2 DEF SharedRing!WaitsForSpace
  <2>2. RingFree' = RingFree - 1
    BY ONLY <1>1, <2>1 DEF RingFree
  <2>3. Works(p, "loop", "check")
    BY <1>1, <1>2, <2>1, <2>2 DEF SharedRing!WaitsForSpace
  <2>. QED
    BY <2>3, RingWorks
<1>3. CASE SharedRing!WaitsForProduct(p)
  <2>1. space' = space /\ product' = product - 1 /\ product' \in Nat
    BY <1>1, <1>3 DEF SharedRing!WaitsForProduct
  <2>2. RingFree' = RingFree - 1
    BY ONLY <1>1, <2>1 DEF RingFree
  <2>3. Works(p, "loop", "check")
    BY <1>1, <1>3, <2>1, <2>2 DEF SharedRing!WaitsForProduct, SharedRing!history
  <2>. QED
    BY <2>3, RingWorks
<1>4. CASE SharedRing!PostsProduct(p)
  <2>1. space' = space /\ product' = product + 1 /\ product' \in Nat
    BY <1>1, <1>4 DEF SharedRing!PostsProduct
  <2>2. RingFree' = RingFree + 1
    BY ONLY <1>1, <2>1 DEF RingFree
  <2>3. Works(p, "post", "loop")
    BY <1>1, <1>4, <2>1, <2>2 DEF SharedRing!PostsProduct, SharedRing!history
  <2>. QED
    BY <2>3, RingWorks
<1>5. CASE SharedRing!PostsSpace(p)
  <2>1. space' = space + 1 /\ product' = product /\ space' \in Nat
    BY <1>1, <1>5 DEF SharedRing!PostsSpace
  <2>2. RingFree' = RingFree + 1
    BY ONLY <1>1, <2>1 DEF RingFree
  <2>3. Works(p, "post", "loop")
    BY <1>1, <1>5, <2>1, <2>2 DEF SharedRing!PostsSpace, SharedRing!history
  <2>. QED
    BY <2>3, RingWorks
<1>6. CASE SharedRing!AddChecks(p) \/ SharedRing!PopChecks(p)
  <2>1. \E to \in {"copy", "post", "print"} : Works(p, "check", to)
    BY <1>0, <1>1, <1>6 DEF SharedRing!AddChecks, SharedRing!PopChecks, SharedRing!shared
  <2>. QED
    BY <2>1, RingWorks
<1>7. CASE SharedRing!AddCopies(p) \/ SharedRing!PopCopies(p)
  <2>1. Works(p, "copy", "advance")
    BY <1>0, <1>1, <1>7 DEF SharedRing!AddCopies, SharedRing!PopCopies, SharedRing!shared, SharedRing!history
  <2>. QED
    BY <2>1, RingWorks
<1>8. CASE SharedRing!AddAdvances(p) \/ SharedRing!PopAdvances(p)
  <2>1. Works(p, "advance", "count")
    BY <1>0, <1>1, <1>8 DEF SharedRing!AddAdvances, SharedRing!PopAdvances, SharedRing!history
  <2>. QED
    BY <2>1, RingWorks
<1>9. CASE SharedRing!CountsWhole(p, 1) \/ SharedRing!CountsWhole(p, -1)
  <2>1. \E to \in {"post", "print"} : Works(p, "count", to)
    BY <1>0, <1>1, <1>9 DEF SharedRing!CountsWhole, SharedRing!Returned, SharedRing!history
  <2>. QED
    BY <2>1, RingWorks
<1>10. CASE SharedRing!LoadsSize(p, 1) \/ SharedRing!LoadsSize(p, -1)
  <2>1. Works(p, "count", "store")
    BY <1>0, <1>1, <1>10 DEF SharedRing!LoadsSize, SharedRing!shared, SharedRing!history
  <2>. QED
    BY <2>1, RingWorks
<1>11. CASE SharedRing!StoresSize(p)
  <2>1. \E to \in {"post", "print"} : Works(p, "store", to)
    BY <1>0, <1>1, <1>11 DEF SharedRing!StoresSize, SharedRing!Returned, SharedRing!history
  <2>. QED
    BY <2>1, RingWorks
<1>12. CASE SharedRing!Prints(p)
  <2>1. Works(p, "print", "post")
    BY <1>0, <1>1, <1>12 DEF SharedRing!Prints, SharedRing!shared
  <2>. QED
    BY <2>1, RingWorks
<1>. QED
  BY <1>2, <1>3, <1>4, <1>5, <1>6, <1>7, <1>8, <1>9, <1>10, <1>11, <1>12
     DEF SharedRing!Producer, SharedRing!Consumer

(* Finding the segment, or finding none, counts no slot.                   *)
LEMMA RingStarts ==
  ASSUME RingInv, NEW p \in SharedRing!Procs, SharedRing!FindsSegment(p) \/ SharedRing!FindsNone(p)
  PROVE  RingInv'
<1>1. RingTypes /\ RingSetsUp /\ RingSum
  BY DEF RingInv
<1>2. /\ ringPc[p] = "start" /\ UNCHANGED <<exists, space, product, kills>>
      /\ SharedRing!Creating = {}
      /\ \/ exists /\ ringPc' = [ringPc EXCEPT ![p] = "loop"]
         \/ ~ exists /\ ringPc' = [ringPc EXCEPT ![p] = "create"]
  BY DEF SharedRing!FindsSegment, SharedRing!FindsNone, SharedRing!Goes, SharedRing!MayStart,
         SharedRing!shared, SharedRing!history
<1>3. \A q \in SharedRing!Procs : ringPc[q] \notin {"create"} \union RingSetUp
  BY <1>2 DEF SharedRing!Creating, RingSetUp
<1>4. RingTypes'
  BY <1>1, <1>2 DEF RingTypes, RingPlaces
<1>5. RingSetsUp'
  BY <1>1, <1>2, <1>3 DEF RingTypes, RingSetsUp, RingSetUp
<1>6. Cardinality(SharedRing!Holding') = Cardinality(SharedRing!Holding)
  <2>1. "loop" \notin RingHeld /\ "create" \notin RingHeld /\ ringPc[p] \notin RingHeld
    BY <1>2 DEF RingHeld
  <2>. QED
    BY <1>1, <1>2, <2>1, RingGoes
<1>7. RingSum'
  BY <1>1, <1>2, <1>6 DEF RingSum, RingSlots, RingFree
<1>. QED
  BY <1>4, <1>5, <1>7 DEF RingInv

(* Who creates the segment and the semaphores makes every slot free.       *)
LEMMA RingCreates ==
  ASSUME RingInv, NEW p \in SharedRing!Procs,
         \/ SharedRing!Creates(p) \/ SharedRing!InitSpace(p)
         \/ SharedRing!InitProduct(p) \/ SharedRing!InitQueue(p)
  PROVE  RingInv'
<1>1. RingTypes /\ RingSetsUp /\ RingSum
  BY DEF RingInv
<1> USE SyncAssumption
<1>2. /\ kills' = kills /\ exists' = TRUE
      /\ \/ /\ ringPc[p] = "create" /\ ringPc' = [ringPc EXCEPT ![p] = "init space"]
            /\ UNCHANGED <<space, product>>
         \/ /\ ringPc[p] = "init space" /\ ringPc' = [ringPc EXCEPT ![p] = "init product"]
            /\ space' = RingSize /\ product' = product
         \/ /\ ringPc[p] = "init product" /\ ringPc' = [ringPc EXCEPT ![p] = "init queue"]
            /\ space' = space /\ product' = 0
         \/ /\ ringPc[p] = "init queue" /\ ringPc' = [ringPc EXCEPT ![p] = "loop"]
            /\ UNCHANGED <<space, product>>
  <2>1. ringPc[p] \in RingSetUp => exists
    BY <1>1 DEF RingTypes, RingSetsUp, RingSetUp
  <2>. QED
    BY <1>1, <2>1 DEF RingTypes, RingSetUp, SharedRing!Creates, SharedRing!InitSpace, SharedRing!InitProduct,
       SharedRing!InitQueue, SharedRing!Goes, SharedRing!history
<1>3. \A q \in SharedRing!Procs : q # p => ringPc[q] = "start" /\ ringPc'[q] = "start"
  BY <1>1, <1>2 DEF RingTypes, RingSetsUp, RingSetUp
<1>4. ringPc'[p] \in {"loop"} \union RingSetUp
  BY <1>1, <1>2 DEF RingTypes, RingSetUp
<1>5. RingTypes'
  <2>1. ringPc' \in [SharedRing!Procs -> RingPlaces]
    BY <1>1, <1>2 DEF RingTypes, RingPlaces, RingSetUp
  <2>2. space' \in Nat /\ product' \in Nat /\ kills' \in Nat /\ exists' \in BOOLEAN
    <3>1. RingSize \in Nat
      BY SyncAssumption
    <3>2. /\ space' = space \/ space' = RingSize
          /\ product' = product \/ product' = 0
      BY <1>2
    <3>3. space \in Nat /\ kills \in Nat
      BY <1>1 DEF RingTypes
    <3>4. space' \in Nat
      BY ONLY <3>1, <3>2, <3>3
    <3>5. product' \in Nat
      BY <1>1, <3>2 DEF RingTypes
    <3>. QED
      BY <1>2, <3>3, <3>4, <3>5
  <2>. QED
    BY <2>1, <2>2 DEF RingTypes
<1>9. /\ product' = 0
      /\ ringPc'[p] = "init space" => space' = 0
      /\ ringPc'[p] \in {"init product", "init queue", "loop"} => space' = RingSize
  <2>1. CASE ringPc[p] = "create"
    BY <1>1, <1>2, <2>1 DEF RingTypes, RingSetsUp
  <2>2. CASE ringPc[p] = "init space"
    BY <1>1, <1>2, <2>2 DEF RingTypes, RingSetsUp, RingSetUp
  <2>3. CASE ringPc[p] = "init product"
    BY <1>1, <1>2, <2>3 DEF RingTypes, RingSetsUp, RingSetUp
  <2>4. CASE ringPc[p] = "init queue"
    BY <1>1, <1>2, <2>4 DEF RingTypes, RingSetsUp, RingSetUp
  <2>. QED
    BY <1>2, <2>1, <2>2, <2>3, <2>4
<1>6. RingSetsUp'
  BY <1>2, <1>3, <1>4, <1>9 DEF RingSetsUp, RingSetUp
<1>7. Cardinality(SharedRing!Holding') = 0
  <2>1. SharedRing!Holding' = {}
    BY <1>3, <1>4 DEF SharedRing!Holding, RingSetUp
  <2>. QED
    BY <2>1, FS_EmptySet
<1>8. RingSum'
  <2>1. RingSlots' = space' + product'
    BY <1>5, <1>7 DEF RingSlots, RingFree, RingTypes
  <2>0. RingSize \in Nat
    BY SyncAssumption
  <2>2. space' + product' \in {0, RingSize}
    <3>1. space' = 0 \/ space' = RingSize
      BY <1>4, <1>9 DEF RingSetUp
    <3>2. space' \in Nat /\ product' = 0
      BY <1>5, <1>9 DEF RingTypes
    <3>3. space' + product' = space'
      BY <3>2, PlusZero
    <3>. QED
      BY ONLY <3>1, <3>3
  <2>3. SharedRing!Creating' = {} => space' + product' = RingSize
    <3>1. p \notin SharedRing!Creating' => ringPc'[p] = "loop"
      BY <1>4 DEF SharedRing!Creating, RingSetUp
    <3>. QED
      BY <3>1, <1>5, <1>9 DEF RingTypes
  <2>. QED
    BY <2>0, <2>1, <2>2, <2>3 DEF RingSum
<1>. QED
  BY <1>5, <1>6, <1>8 DEF RingInv

(* A process that is ended takes at most its slot with it.                 *)
LEMMA RingInterrupted ==
  ASSUME RingInv, NEW p \in SharedRing!Procs, SharedRing!Interrupted(p)
  PROVE  RingInv'
<1>1. RingTypes /\ RingSetsUp /\ RingSum
  BY DEF RingInv
<1>2. /\ ringPc' = [ringPc EXCEPT ![p] = "start"] /\ kills' = kills + 1
      /\ UNCHANGED <<exists, space, product>>
  BY DEF SharedRing!Interrupted, SharedRing!shared
<1>3. RingTypes'
  BY <1>1, <1>2 DEF RingTypes, RingPlaces
<1>4. RingSetsUp'
  BY <1>1, <1>2 DEF RingTypes, RingSetsUp, RingSetUp
<1>5. /\ Cardinality(SharedRing!Holding) \in Nat
      /\ Cardinality(SharedRing!Holding') \in {Cardinality(SharedRing!Holding), Cardinality(SharedRing!Holding) - 1}
  <2>1. "start" \notin RingHeld
    BY DEF RingHeld
  <2>. QED
    BY <1>1, <1>2, <2>1, RingGoes, RingHolding
<1>6. RingSlots' <= RingSlots /\ RingSlots \in Int /\ RingSlots' \in Int
  BY <1>1, <1>2, <1>5 DEF RingSlots, RingFree, RingTypes
<1>7. kills' # 0
  BY <1>1, <1>2 DEF RingTypes
<1>8. RingSum'
  BY <1>1, <1>6, <1>7, SyncAssumption DEF RingSum
<1>. QED
  BY <1>3, <1>4, <1>8 DEF RingInv

(* Every step of producers and consumers keeps the invariant.              *)
LEMMA RingNext == RingInv /\ [SharedRing!Next]_ringVars => RingInv'
<1> SUFFICES ASSUME RingInv, [SharedRing!Next]_ringVars PROVE RingInv'
  OBVIOUS
<1>1. CASE UNCHANGED ringVars
  BY <1>1 DEF ringVars, RingInv, RingTypes, RingSetsUp, RingSum, RingSlots, RingFree,
              SharedRing!Holding, SharedRing!Creating
<1>2. RingProducers \subseteq SharedRing!Procs /\ RingConsumers \subseteq SharedRing!Procs
  BY DEF SharedRing!Procs
<1>. QED
  BY <1>1, <1>2, RingActions, RingStarts, RingCreates, RingInterrupted
     DEF SharedRing!Next, SharedRing!GetShmId

(* The invariant holds throughout the runs.                                *)
LEMMA RingAlways == MCSpec => []RingInv
  BY RingRuns, RingInit, RingNext, PTL
-----------------------------------------------------------------------------
(* unix_domain_socket_send_fd_server.c and _cli.c.                         *)

(* A run of the composition is a run of the descriptor passing.            *)
LEMMA PassRuns == MCSpec => FdPassing!Init /\ [][FdPassing!Next]_passVars
<1>1. MCInit => FdPassing!Init
  BY DEF MCInit
<1>2. [MCNext]_mcVars => [FdPassing!Next]_passVars
  BY DEF MCNext, mcVars, passVars, vars
<1>. QED
  BY <1>1, <1>2, PTL DEF MCSpec

PassTypes ==
  /\ backlog \in Seq(Takers) /\ NoTwice(backlog)
  /\ serving \subseteq Takers /\ \A c, d \in serving : c = d
  /\ refs \in [Takers -> SUBSET {"server", "message", "client"}]
  /\ takerPc \in [Takers -> {"idle", "recvmsg", "has", "gone"}]
  /\ passerPc \in {"accept", "connect", "send", "close", "dead"}
  /\ passerPc \in {"accept", "dead"} => serving = {}

(* The server refers to the connection of the client it serves alone, and  *)
(* to that from connect to close; the client to its own once it has it.    *)
PassOf(c) ==
  /\ takerPc[c] = "idle" => refs[c] = {} /\ c \notin Members(backlog) /\ c \notin serving
  /\ c \in Members(backlog) => refs[c] = {} /\ c \notin serving
  /\ "server" \in refs[c] => c \in serving /\ passerPc \in {"send", "close"}
  /\ c \in serving /\ passerPc = "connect" => refs[c] = {}
  /\ c \in serving /\ passerPc = "send" => refs[c] = {"server"}
  /\ c \in serving /\ passerPc = "close" /\ takerPc[c] = "recvmsg" => "message" \in refs[c]
  /\ "client" \in refs[c] <=> takerPc[c] = "has"
  /\ takerPc[c] = "gone" => "message" \notin refs[c]
  /\ takerPc[c] = "recvmsg" /\ passerPc # "dead" =>
       "message" \in refs[c] \/ c \in serving \/ c \in Members(backlog)

PassInv == PassTypes /\ \A c \in Takers : PassOf(c)

(* Nothing is open, sent or received at the start.                         *)
LEMMA PassInit == FdPassing!Init => PassInv
<1> SUFFICES ASSUME FdPassing!Init PROVE PassInv
  OBVIOUS
<1>1. Members(backlog) = {} /\ NoTwice(backlog) /\ backlog \in Seq(Takers)
  BY DEF FdPassing!Init, Members, NoTwice
<1>. QED
  BY <1>1 DEF FdPassing!Init, PassInv, PassTypes, PassOf

(* The server.                                                             *)
LEMMA PassAccept ==
  ASSUME PassInv, FdPassing!Accept
  PROVE  PassInv'
<1>1. PassTypes /\ \A c \in Takers : PassOf(c)
  BY DEF PassInv
<1>2. /\ passerPc = "accept" /\ passerPc' = "connect" /\ backlog # <<>>
      /\ serving' = {Head(backlog)} /\ backlog' = Tail(backlog)
      /\ refs' = refs /\ takerPc' = takerPc
  BY DEF FdPassing!Accept, FdPassing!Goes
<1>3. /\ backlog' \in Seq(Takers) /\ NoTwice(backlog')
      /\ Head(backlog) \in Takers /\ Head(backlog) \in Members(backlog)
      /\ Members(backlog') = Members(backlog) \ {Head(backlog)}
  BY <1>1, <1>2, MembersPopped DEF PassTypes
<1>4. PassTypes'
  BY <1>1, <1>2, <1>3 DEF PassTypes
<1>5. ASSUME NEW c \in Takers PROVE PassOf(c)'
  <2>1. PassOf(c)
    BY <1>1
  <2>2. CASE c = Head(backlog)
    BY <2>1, <2>2, <1>2, <1>3, <1>4 DEF PassOf, PassTypes, Members
  <2>3. CASE c # Head(backlog)
    BY <2>1, <2>3, <1>1, <1>2, <1>3, <1>4 DEF PassOf, PassTypes, Members
  <2>. QED
    BY <2>2, <2>3
<1>. QED
  BY <1>4, <1>5 DEF PassInv

(* One step of the server about the client it serves: what the others have *)
(* stays as it is.                                                         *)
LEMMA PassServes ==
  ASSUME PassInv, NEW c \in serving, NEW who \in SUBSET {"server", "message", "client"},
         refs' = [refs EXCEPT ![c] = who], backlog' = backlog, takerPc' = takerPc,
         \/ passerPc = "connect" /\ passerPc' = "send" /\ who = {"server"} /\ serving' = serving
         \/ passerPc = "connect" /\ passerPc' = "dead" /\ who = {} /\ serving' = {}
         \/ /\ passerPc = "send" /\ passerPc' = "close" /\ takerPc[c] # "gone"
            /\ who = refs[c] \union {"message"} /\ serving' = serving
         \/ passerPc = "send" /\ passerPc' = "dead" /\ takerPc[c] = "gone" /\ who = {} /\ serving' = {}
         \/ passerPc = "close" /\ passerPc' = "accept" /\ who = refs[c] \ {"server"} /\ serving' = {}
  PROVE  PassInv'
<1>1. PassTypes /\ \A d \in Takers : PassOf(d)
  BY DEF PassInv
<1>2. c \in Takers /\ \A d \in serving : d = c
  BY <1>1 DEF PassTypes
<1>3. PassTypes'
  BY <1>1, <1>2 DEF PassTypes
<1>4. refs'[c] = who /\ \A d \in Takers : d # c => refs'[d] = refs[d]
  BY <1>1, <1>2 DEF PassTypes
<1>5. ASSUME NEW d \in Takers, d # c PROVE PassOf(d)'
  BY <1>1, <1>2, <1>4, <1>5 DEF PassOf, PassTypes, Members
<1>6. PassOf(c)'
  BY <1>1, <1>2, <1>4 DEF PassOf, PassTypes, Members
<1>. QED
  BY <1>3, <1>5, <1>6 DEF PassInv

(* Every step of the server keeps the invariant.                           *)
LEMMA PassServer ==
  ASSUME PassInv, FdPassing!Server
  PROVE  PassInv'
<1>1. \A c \in serving : refs[c] \in SUBSET {"server", "message", "client"}
  BY DEF PassInv, PassTypes
<1>2. CASE FdPassing!Accept
  BY <1>2, PassAccept
<1>3. CASE FdPassing!tcp_connect
  <2>1. PICK c \in serving :
          \/ FdPassing!Goes("connect", "send") /\ FdPassing!Refers(c, {"server"}) /\ UNCHANGED serving
          \/ FdPassing!Goes("connect", "dead") /\ FdPassing!Refers(c, {}) /\ serving' = {}
    BY <1>3 DEF FdPassing!tcp_connect
  <2>2. backlog' = backlog /\ takerPc' = takerPc
    BY <1>3 DEF FdPassing!tcp_connect
  <2>3. {"server"} \in SUBSET {"server", "message", "client"} /\ {} \in SUBSET {"server", "message", "client"}
    OBVIOUS
  <2>. QED
    BY <2>1, <2>2, <2>3, PassServes DEF FdPassing!Goes, FdPassing!Refers
<1>4. CASE FdPassing!send_fd_func
  <2>1. PICK c \in serving :
          \/ /\ FdPassing!Goes("send", "close") /\ takerPc[c] # "gone"
             /\ FdPassing!Refers(c, refs[c] \union {"message"}) /\ UNCHANGED serving
          \/ /\ FdPassing!Goes("send", "dead") /\ takerPc[c] = "gone"
             /\ FdPassing!Refers(c, {}) /\ serving' = {}
    BY <1>4 DEF FdPassing!send_fd_func
  <2>2. backlog' = backlog /\ takerPc' = takerPc
    BY <1>4 DEF FdPassing!send_fd_func
  <2>3. /\ refs[c] \union {"message"} \in SUBSET {"server", "message", "client"}
        /\ {} \in SUBSET {"server", "message", "client"}
    BY <1>1
  <2>. QED
    BY <2>1, <2>2, <2>3, PassServes DEF FdPassing!Goes, FdPassing!Refers
<1>5. CASE FdPassing!Closes
  <2>1. PICK c \in serving : FdPassing!Refers(c, refs[c] \ {"server"})
    BY <1>5 DEF FdPassing!Closes
  <2>2. /\ FdPassing!Goes("close", "accept") /\ serving' = {}
        /\ backlog' = backlog /\ takerPc' = takerPc
    BY <1>5 DEF FdPassing!Closes
  <2>3. refs[c] \ {"server"} \in SUBSET {"server", "message", "client"}
    BY <1>1
  <2>. QED
    BY <2>1, <2>2, <2>3, PassServes DEF FdPassing!Goes, FdPassing!Refers
<1>. QED
  BY <1>2, <1>3, <1>4, <1>5 DEF FdPassing!Server

(* A client.                                                               *)
LEMMA PassConnects ==
  ASSUME PassInv, NEW c \in Takers, FdPassing!Connects(c)
  PROVE  PassInv'
<1>1. PassTypes /\ \A d \in Takers : PassOf(d)
  BY DEF PassInv
<1>2. PICK to \in {"recvmsg", "gone"} :
        /\ takerPc[c] = "idle" /\ takerPc' = [takerPc EXCEPT ![c] = to]
        /\ to = "gone" => passerPc = "dead" /\ backlog' = backlog
        /\ to = "recvmsg" => passerPc # "dead" /\ backlog' = Append(backlog, c)
        /\ serving' = serving /\ refs' = refs /\ passerPc' = passerPc
  BY DEF FdPassing!Connects
<1>3. c \notin Members(backlog)
  BY <1>1, <1>2 DEF PassOf
<1>4. /\ backlog' \in Seq(Takers) /\ NoTwice(backlog')
      /\ Members(backlog') = Members(backlog) \union (IF to = "recvmsg" THEN {c} ELSE {})
  <2>1. CASE to = "gone"
    BY <1>1, <1>2, <2>1 DEF PassTypes, Members, NoTwice
  <2>2. CASE to = "recvmsg"
    <3>1. backlog \in Seq(Takers) /\ NoTwice(backlog) /\ backlog' = Append(backlog, c)
      BY <1>1, <1>2, <2>2 DEF PassTypes
    <3>2. /\ Append(backlog, c) \in Seq(Takers) /\ NoTwice(Append(backlog, c))
          /\ Members(Append(backlog, c)) = Members(backlog) \union {c}
      BY <1>3, <3>1, MembersAppended
    <3>. QED
      BY <2>2, <3>1, <3>2 DEF Members, NoTwice
  <2>. QED
    BY <2>1, <2>2
<1>5. PassTypes'
  BY <1>1, <1>2, <1>4 DEF PassTypes
<1>6. takerPc'[c] = to /\ \A d \in Takers : d # c => takerPc'[d] = takerPc[d]
  BY <1>1, <1>2 DEF PassTypes
<1>7. ASSUME NEW d \in Takers, d # c PROVE PassOf(d)'
  BY <1>1, <1>2, <1>4, <1>6, <1>7 DEF PassOf, PassTypes
<1>8. PassOf(c)'
  BY <1>1, <1>2, <1>3, <1>4, <1>6 DEF PassOf, PassTypes
<1>. QED
  BY <1>5, <1>7, <1>8 DEF PassInv

(* It takes the message, or is without it.                                 *)
LEMMA PassTakes ==
  ASSUME PassInv, NEW c \in Takers, FdPassing!recvmsg(c) \/ FdPassing!Leaves(c)
  PROVE  PassInv'
<1>1. PassTypes /\ \A d \in Takers : PassOf(d)
  BY DEF PassInv
<1>2. backlog' = backlog /\ serving' = serving /\ passerPc' = passerPc
  BY DEF FdPassing!recvmsg, FdPassing!Leaves
<1>3. \/ /\ takerPc[c] = "recvmsg" /\ "message" \in refs[c]
         /\ refs' = [refs EXCEPT ![c] = (refs[c] \ {"message"}) \union {"client"}]
         /\ takerPc' = [takerPc EXCEPT ![c] = "has"]
      \/ /\ takerPc[c] = "recvmsg" /\ "message" \notin refs[c] /\ passerPc = "dead"
         /\ takerPc' = [takerPc EXCEPT ![c] = "gone"] /\ refs' = refs
      \/ /\ takerPc[c] \in {"recvmsg", "has"}
         /\ takerPc' = [takerPc EXCEPT ![c] = "gone"]
         /\ refs' = [refs EXCEPT ![c] = refs[c] \ {"message", "client"}]
  BY DEF FdPassing!recvmsg, FdPassing!Leaves, FdPassing!Refers
<1>4. PassTypes'
  BY <1>1, <1>2, <1>3 DEF PassTypes, NoTwice
<1>5. \A d \in Takers : d # c => takerPc'[d] = takerPc[d] /\ refs'[d] = refs[d]
  BY <1>1, <1>3 DEF PassTypes
<1>6. ASSUME NEW d \in Takers, d # c PROVE PassOf(d)'
  BY <1>1, <1>2, <1>5, <1>6 DEF PassOf, Members
<1>7. PassOf(c)'
  BY <1>1, <1>2, <1>3 DEF PassOf, PassTypes, Members
<1>. QED
  BY <1>4, <1>6, <1>7 DEF PassInv

(* Every step of client and server keeps the invariant.                    *)
LEMMA PassNext == PassInv /\ [FdPassing!Next]_passVars => PassInv'
<1> SUFFICES ASSUME PassInv, [FdPassing!Next]_passVars PROVE PassInv'
  OBVIOUS
<1>1. CASE UNCHANGED passVars
  BY <1>1 DEF passVars, PassInv, PassTypes, PassOf, Members, NoTwice
<1>2. CASE FdPassing!Server
  BY <1>2, PassServer
<1>3. CASE \E c \in Takers : FdPassing!Client(c)
  BY <1>3, PassConnects, PassTakes DEF FdPassing!Client
<1>. QED
  BY <1>1, <1>2, <1>3 DEF FdPassing!Next

(* A descriptor in use is open throughout the runs.                        *)
LEMMA PassAlways == MCSpec => []FdPassing!OpenWhileUsed
<1>1. PassInv => FdPassing!OpenWhileUsed
  <2> SUFFICES ASSUME PassInv, NEW c \in Takers
      PROVE /\ takerPc[c] = "has" => "client" \in refs[c]
            /\ takerPc[c] = "recvmsg" /\ passerPc # "dead" =>
                 "message" \in refs[c] \/ c \in serving \/ c \in Members(backlog)
            /\ takerPc[c] = "gone" /\ c \notin serving => refs[c] = {}
    BY DEF FdPassing!OpenWhileUsed, Members
  <2>. QED
    BY DEF PassInv, PassTypes, PassOf
<1>. QED
  BY <1>1, PassRuns, PassInit, PassNext, PTL

(* A slot of the ring is free, filled or held, and a process that is ended *)
(* takes at most one with it; a descriptor is open for the client that has *)
(* it or will, and for nobody who has gone.                                *)
THEOREM SlotsAndDescriptors == MCSpec => []SlotsAccounted
<1>1. RingInv => SharedRing!SlotsAccounted
  BY RingCounts DEF RingInv, RingSum, RingSlots, RingFree, SharedRing!SlotsAccounted
<1>2. SharedRing!SlotsAccounted /\ FdPassing!OpenWhileUsed => SlotsAccounted
  BY DEF SlotsAccounted
<1>. QED
  BY <1>1, <1>2, RingAlways, PassAlways, PTL
-----------------------------------------------------------------------------
(* The clients of echo servers. The variables of those who are not the     *)
(* program that was picked say nothing, so the invariant is under that     *)
(* condition, and the program stays what it is.                            *)

(* The program under way never changes.                                    *)
LEMMA ProgramStays ==
  /\ EchoClients!Next => program' = program
  /\ Pipeline!Next => program' = program
  /\ Datagrams!Next => program' = program
<1>1. EchoClients!Next => program' = program
  BY DEF EchoClients!Next, EchoClients!Client, EchoClients!Runs, EchoClients!Serves, EchoClients!Departs
<1>2. Pipeline!Next => program' = program
  BY DEF Pipeline!Next, Pipeline!Opens, Pipeline!Forks, Pipeline!ForkFails, Pipeline!Writes,
         Pipeline!WriterEnds, Pipeline!ReadsEnd, Pipeline!OtherLeaves, Pipeline!Waits,
         Pipeline!Closes, Pipeline!Starts, Pipeline!Reads, Pipeline!At
<1>3. Datagrams!Next => program' = program
  BY DEF Datagrams!Next, Datagrams!Server, Datagrams!UnixServer, Datagrams!UdpServer,
         Datagrams!Receive, Datagrams!Answers, Datagrams!NoAnswer, Datagrams!Killed,
         Datagrams!Client, Datagrams!Asks, Datagrams!AsksNobody, Datagrams!Hears, Datagrams!Leaves,
         Datagrams!str_cli, Datagrams!Receives, Datagrams!Types, Datagrams!Speaks,
         Datagrams!sig_int, Datagrams!Unreachable, Datagrams!At
<1>. QED
  BY <1>1, <1>2, <1>3

(* A run of the composition is a run of the echo client under way.         *)
LEMMA EchoRuns ==
  /\ MCInit /\ program \in EchoClients!Programs => EchoClients!Init
  /\ [MCNext]_mcVars /\ program' \in EchoClients!Programs =>
       program \in EchoClients!Programs /\ [EchoClients!Next]_<<program, clientVars>>
<1>1. MCInit /\ program \in EchoClients!Programs => EchoClients!Init
  BY DEF MCInit
<1>2. ASSUME [MCNext]_mcVars, program' \in EchoClients!Programs
      PROVE  program \in EchoClients!Programs /\ [EchoClients!Next]_<<program, clientVars>>
  <2>1. program' = program
    BY <1>2, ProgramStays DEF MCNext, mcVars
  <2>2. EchoClients!Next \/ UNCHANGED clientVars
    <3>1. program \notin Pipeline!Programs /\ program \notin Datagrams!Programs
      BY <1>2, <2>1 DEF EchoClients!Programs, EchoClients!Events, Pipeline!Programs, Pipeline!Shape,
                        Datagrams!Programs, Datagrams!Selecting
    <3>. QED
      BY <1>2, <3>1 DEF MCNext, mcVars
  <2>. QED
    BY <1>2, <2>1, <2>2
<1>. QED
  BY <1>1, <1>2

-----------------------------------------------------------------------------
EchoPlaces ==
  CASE program = "client_normal_select" -> {"select", "server", "stdin", "write", "fin", "exited"}
    [] program = "client_normal_select -i" -> {"source", "exited"}
    [] program = "unix_domain_socket_send_fd_cli" -> {"select", "do_write", "write", "do_read", "exited"}
    [] program = "client_normal2" -> {"line", "write", "answer", "closed", "exited"}
    [] OTHER -> {"loop", "leaving", "freed", "ended", "undefined", "exited"}

EchoTypes ==
  /\ program \in EchoClients!Programs /\ clientPc \in EchoPlaces
  /\ typed \in Nat /\ left \in Nat /\ printed \in Nat
  /\ up \in 0 .. SocketCap /\ down \in 0 .. SocketCap /\ echoing \in 0 .. ServerRead
  /\ server \in {"open", "finished", "left"}
  /\ ready \subseteq {"stdin", "server"}
  /\ eof \in BOOLEAN
  /\ clientPc = "write" /\ server = "open" => left > 0

(* What was typed and is not printed, and what of it fits when the client  *)
(* has nothing in its hands and nothing comes back.                        *)
Underway == left + up + echoing + down

Room == SocketCap + ServerRead

SelectClient ==
  program = "client_normal_select" =>
    /\ clientPc # "write" => left = 0
    /\ server # "left" => typed = Underway + printed
    /\ eof => clientPc # "write"
    /\ eof /\ clientPc \in {"server", "stdin"} => "stdin" \notin ready
    /\ server = "finished" => eof /\ up = 0 /\ echoing = 0
    /\ clientPc = "server" /\ "server" \in ready => down > 0 \/ server # "open"
    /\ clientPc = "fin" => server # "open" /\ down = 0
    /\ server = "open" => Underway <= Room + ClientChunk
    /\ server = "open" /\ (clientPc = "stdin" \/ (clientPc = "server" /\ "server" \notin ready)) =>
         Underway <= Room

(* It may take a second chunk before it looks at what came for the first.  *)
PassedClient ==
  program = "unix_domain_socket_send_fd_cli" =>
    /\ clientPc # "write" => left = 0
    /\ eof => clientPc = "exited"
    /\ server = "open" =>
         /\ clientPc \in {"select", "do_write"} => Underway <= Room + ClientChunk
         /\ clientPc = "do_write" /\ "server" \notin ready => Underway <= Room
         /\ clientPc \in {"write", "do_read"} => Underway <= Room + ClientChunk + ClientChunk
         /\ clientPc \in {"write", "do_read"} /\ "server" \notin ready => Underway <= Room + ClientChunk

LineClient ==
  program = "client_normal2" =>
    /\ clientPc # "write" => left = 0
    /\ server = "open" =>
         /\ clientPc = "line" => Underway <= Room
         /\ clientPc \in {"write", "answer"} => Underway <= Room + ClientChunk
         /\ clientPc = "answer" => Underway > 0

EchoInv == EchoTypes /\ SelectClient /\ PassedClient /\ LineClient

(* No byte is under way before the first line is typed.                    *)
LEMMA EchoInit == EchoClients!Init => EchoInv
<1> SUFFICES ASSUME EchoClients!Init PROVE EchoInv
  OBVIOUS
<1>1. clientPc \in EchoPlaces
  BY DEF EchoClients!Init, EchoPlaces, EchoClients!Programs, EchoClients!Events
<1>2. clientPc \notin {"write", "fin", "answer"}
  BY DEF EchoClients!Init, EchoClients!Programs, EchoClients!Events
<1>3. SocketCap \in Nat /\ ServerRead \in Nat /\ ClientChunk \in Nat
  BY SyncAssumption
<1>4. /\ program \in EchoClients!Programs /\ eof = FALSE /\ typed = 0 /\ left = 0 /\ up = 0
      /\ echoing = 0 /\ down = 0 /\ printed = 0 /\ server = "open" /\ ready = {}
  BY DEF EchoClients!Init
<1>5. Underway = 0 /\ Room \in Nat
  <2>1. left = 0 /\ up = 0 /\ echoing = 0 /\ down = 0
    BY <1>4
  <2>. QED
    BY ONLY <1>3, <2>1 DEF Underway, Room
<1>6. EchoTypes
  <2>1. /\ typed \in Nat /\ left \in Nat /\ printed \in Nat
        /\ up \in 0 .. SocketCap /\ down \in 0 .. SocketCap /\ echoing \in 0 .. ServerRead
    <3>1. typed = 0 /\ left = 0 /\ up = 0 /\ echoing = 0 /\ down = 0 /\ printed = 0
      BY <1>4
    <3>. QED
      BY ONLY <1>3, <3>1
  <2>. QED
    BY <1>1, <1>2, <1>4, <2>1 DEF EchoTypes
<1>7. SelectClient /\ PassedClient /\ LineClient
  BY <1>2, <1>3, <1>4, <1>5 DEF SelectClient, PassedClient, LineClient
<1>. QED
  BY <1>6, <1>7 DEF EchoInv

-----------------------------------------------------------------------------
(* What the steps that the clients share do to what is under way.          *)
LEMMA EchoSum == EchoTypes => /\ Underway \in Nat /\ Room \in Nat /\ ClientChunk \in Nat
                              /\ up \in Nat /\ echoing \in Nat /\ down \in Nat
                              /\ up <= SocketCap /\ echoing <= ServerRead /\ down <= SocketCap
                              /\ SocketCap \in Nat /\ ServerRead \in Nat
  BY SyncAssumption DEF EchoTypes, Underway, Room

(* n bytes go from one place to another.                                   *)
LEMMA Moved ==
  ASSUME NEW a \in Nat, NEW b \in Nat, NEW c \in Nat, NEW d \in Nat, NEW n \in Nat
  PROVE  /\ a + b + c + d \in Nat
         /\ n <= a => (a - n) + (b + n) + c + d = a + b + c + d
         /\ n <= b => a + (b - n) + (c + n) + d = a + b + c + d
         /\ n <= c => a + b + (c - n) + (d + n) = a + b + c + d
         /\ n <= d => a + b + c + (d - n) = (a + b + c + d) - n
  OBVIOUS

(* A write moves bytes of the client into the socket and loses none.       *)
LEMMA EchoWrites ==
  ASSUME EchoTypes, NEW next, next # "write", EchoClients!Writes(next)
  PROVE  /\ UNCHANGED <<eof, typed, echoing, down, printed, server, ready, shut>>
         /\ left' \in Nat /\ up' \in 0 .. SocketCap
         /\ clientPc = "write" /\ clientPc' \in {"write", next, "exited"}
         /\ clientPc' = "write" /\ server = "open" => left' > 0
         /\ clientPc' # "write" => left' = 0
         /\ server = "open" => clientPc' \in {"write", next} /\ Underway' = Underway /\ up' > 0
         /\ server # "open" => clientPc' # "write" /\ up' = up
<1>1. /\ clientPc = "write"
      /\ UNCHANGED <<eof, typed, echoing, down, printed, server, ready, shut>>
  BY DEF EchoClients!Writes
<1>2. CASE server = "open"
  <2>1. up < SocketCap
    BY <1>2 DEF EchoClients!Writes
  <2>2. PICK n : /\ n = EchoClients!Least(left, SocketCap - up)
                 /\ up' = up + n /\ left' = left - n
                 /\ clientPc' = IF left' = 0 THEN next ELSE "write"
    BY <1>2 DEF EchoClients!Writes
  <2>3. left \in Nat /\ left > 0
    BY <1>1, <1>2 DEF EchoTypes
  <2>4. n \in Nat /\ n > 0 /\ n <= left /\ up + n <= SocketCap
    BY <2>1, <2>2, <2>3, EchoSum DEF EchoClients!Least
  <2>5. left' \in Nat /\ up' \in 0 .. SocketCap /\ up' > 0 /\ (left' = 0 \/ left' > 0)
    BY <2>2, <2>3, <2>4, EchoSum
  <2>6. Underway' = Underway
    BY <1>1, <2>2, <2>3, <2>4, EchoSum, Moved DEF Underway
  <2>. QED
    BY <1>1, <1>2, <2>2, <2>5, <2>6
<1>3. CASE server # "open"
  <2>1. left' = 0 /\ clientPc' \in {next, "exited"} /\ up' = up
    BY <1>3 DEF EchoClients!Writes
  <2>. QED
    BY <1>1, <1>3, <2>1, EchoSum DEF EchoTypes
<1>. QED
  BY <1>2, <1>3

(* A step of the server moves bytes from one direction to the other.       *)
LEMMA EchoServes ==
  ASSUME EchoTypes, EchoClients!Serves
  PROVE  /\ UNCHANGED <<program, eof, typed, left, printed, server, ready, shut, clientPc>>
         /\ up' \in 0 .. SocketCap /\ echoing' \in 0 .. ServerRead /\ down' \in 0 .. SocketCap
         /\ server = "open" /\ Underway' = Underway /\ down <= down'
<1>1. /\ UNCHANGED <<program, eof, typed, left, printed, server, ready, shut, clientPc>>
      /\ server = "open"
  BY DEF EchoClients!Serves
<1>2. left \in Nat
  BY DEF EchoTypes
<1>3. CASE \E n \in 1 .. EchoClients!Least(ServerRead, up) : 
             echoing = 0 /\ echoing' = n /\ up' = up - n /\ down' = down
  <2>1. PICK n \in 1 .. EchoClients!Least(ServerRead, up) : 
             echoing = 0 /\ echoing' = n /\ up' = up - n /\ down' = down
    BY <1>3
  <2>2. n \in Nat /\ n <= up /\ n <= ServerRead
    BY <2>1, EchoSum DEF EchoClients!Least
  <2>3. echoing' = echoing + n
    BY <2>1, <2>2
  <2>4. Underway' = Underway
    BY <1>1, <1>2, <2>1, <2>2, <2>3, EchoSum, Moved DEF Underway
  <2>5. up' \in 0 .. SocketCap /\ echoing' \in 0 .. ServerRead /\ down' \in 0 .. SocketCap /\ down <= down'
    BY <2>1, <2>2, EchoSum
  <2>. QED
    BY <1>1, <2>4, <2>5
<1>4. CASE /\ echoing > 0 /\ down < SocketCap
           /\ LET n == EchoClients!Least(echoing, SocketCap - down)
              IN  down' = down + n /\ echoing' = echoing - n
           /\ up' = up
  <2>1. PICK n : /\ n = EchoClients!Least(echoing, SocketCap - down)
                 /\ down' = down + n /\ echoing' = echoing - n
    BY <1>4
  <2>2. n \in Nat /\ n <= echoing /\ down + n <= SocketCap
    BY <1>4, <2>1, EchoSum DEF EchoClients!Least
  <2>3. Underway' = Underway
    BY <1>1, <1>2, <1>4, <2>1, <2>2, EchoSum, Moved DEF Underway
  <2>4. up' \in 0 .. SocketCap /\ echoing' \in 0 .. ServerRead /\ down' \in 0 .. SocketCap /\ down <= down'
    BY <1>4, <2>1, <2>2, EchoSum
  <2>. QED
    BY <1>1, <2>3, <2>4
<1>. QED
  BY <1>3, <1>4 DEF EchoClients!Serves

(* A read of the client takes bytes off the way, or finds the end of file. *)
LEMMA EchoHears ==
  ASSUME EchoTypes, NEW from, NEW next, NEW end, EchoClients!Hears(from, next, end)
  PROVE  /\ UNCHANGED <<eof, typed, left, up, echoing, server, ready, shut>> /\ clientPc = from
         /\ down' \in 0 .. SocketCap /\ printed' \in Nat
         /\ Underway' + printed' = Underway + printed
         /\ \/ "server" \notin ready /\ clientPc' = next /\ Underway' = Underway
            \/ /\ "server" \in ready /\ clientPc' = next
               /\ left = 0 /\ Underway <= Room + ClientChunk + ClientChunk =>
                     Underway' <= Room + ClientChunk
               /\ left = 0 /\ Underway <= Room + ClientChunk => Underway' <= Room
            \/ /\ "server" \in ready /\ clientPc' = end /\ down = 0
               /\ down' = down /\ printed' = printed
<1>1. /\ UNCHANGED <<eof, typed, left, up, echoing, server, ready, shut>> /\ clientPc = from
  BY DEF EchoClients!Hears
<1>2. left \in Nat /\ printed \in Nat
  BY DEF EchoTypes
<1>3. CASE /\ \/ "server" \notin ready /\ clientPc' = next
              \/ "server" \in ready /\ down = 0 /\ clientPc' = end
           /\ down' = down /\ printed' = printed
  <2>1. Underway' = Underway
    BY <1>1, <1>3 DEF Underway
  <2>2. down' \in 0 .. SocketCap /\ printed' \in Nat
    BY <1>2, <1>3, EchoSum
  <2>. QED
    BY <1>1, <1>3, <2>1, <2>2
<1>4. CASE /\ "server" \in ready /\ down > 0 /\ clientPc' = next
           /\ EchoClients!Reads(EchoClients!Least(ClientChunk, down))
  <2>1. PICK n : n = EchoClients!Least(ClientChunk, down) /\ down' = down - n /\ printed' = printed + n
    BY <1>4 DEF EchoClients!Reads
  <2>2. n \in Nat /\ n <= down /\ (n = ClientChunk \/ n = down)
    BY <1>4, <2>1, EchoSum DEF EchoClients!Least
  <2>3. Underway' = Underway - n
    BY <1>1, <1>2, <2>1, <2>2, EchoSum, Moved DEF Underway
  <2>4. down' \in 0 .. SocketCap /\ printed' \in Nat
    BY <1>2, <2>1, <2>2, EchoSum
  <2>5. Underway' + printed' = Underway + printed
    BY <1>2, <2>1, <2>2, <2>3, EchoSum
  <2>6. ASSUME n = down, left = 0 PROVE Underway' <= Room
    <3>1. Underway = left + up + echoing + down /\ Room = SocketCap + ServerRead
      BY DEF Underway, Room
    <3>2. \A u, h, d \in Nat : (0 + u + h + d) - d = u + h
      OBVIOUS
    <3>3. Underway' = up + echoing
      BY <2>3, <2>6, <3>1, <3>2, EchoSum
    <3>. QED
      BY <3>1, <3>3, EchoSum
  <2>7. /\ left = 0 /\ Underway <= Room + ClientChunk + ClientChunk => Underway' <= Room + ClientChunk
        /\ left = 0 /\ Underway <= Room + ClientChunk => Underway' <= Room
    BY <2>2, <2>3, <2>6, EchoSum
  <2>. QED
    BY <1>1, <1>4, <2>4, <2>5, <2>7
<1>. QED
  BY <1>3, <1>4 DEF EchoClients!Hears

(* The user types, and the client takes it in its hands.                   *)
LEMMA EchoTypesSome ==
  ASSUME EchoTypes, NEW n \in 1 .. ClientChunk, EchoClients!Types(n), left = 0, left' = n,
         UNCHANGED <<up, echoing, down, printed>>
  PROVE  /\ typed' = typed + n /\ typed' \in Nat /\ left' \in Nat /\ left' > 0
         /\ Underway' = Underway + n /\ n \in Nat /\ n <= ClientChunk
<1>1. n \in Nat /\ n > 0 /\ n <= ClientChunk /\ typed' = typed + n
  BY EchoSum DEF EchoClients!Types
<1>2. typed' \in Nat /\ left' \in Nat /\ left' > 0
  BY <1>1 DEF EchoTypes
<1>3. Underway' = Underway + n
  <2>1. left' = left + n
    BY <1>1
  <2>2. Underway' = left' + up' + echoing' + down' /\ Underway = left + up + echoing + down
    BY DEF Underway
  <2>. QED
    BY <1>1, <2>1, <2>2, EchoSum
<1>. QED
  BY <1>1, <1>2, <1>3

-----------------------------------------------------------------------------
(* select: the server's side is seen when something comes or it is gone.   *)
LEMMA EchoSelects ==
  ASSUME EchoTypes, NEW next, EchoClients!Select(next)
  PROVE  /\ UNCHANGED <<eof, typed, left, up, echoing, down, printed, server, shut>>
         /\ clientPc = "select" /\ clientPc' = next /\ Underway' = Underway
         /\ ready' \subseteq {"stdin", "server"}
         /\ eof => "stdin" \notin ready'
         /\ "server" \in ready' => down > 0 \/ server # "open"
         /\ "server" \notin ready' => server = "open" /\ (left = 0 => Underway <= Room)
<1>1. /\ UNCHANGED <<eof, typed, left, up, echoing, down, printed, server, shut>>
      /\ clientPc = "select" /\ clientPc' = next
  BY DEF EchoClients!Select, EchoClients!Goes, EchoClients!wire
<1>2. PICK user \in SUBSET {"stdin"} :
        /\ eof => user = {}
        /\ ready' = user \union (IF down > 0 \/ server # "open" THEN {"server"} ELSE {})
  BY DEF EchoClients!Select
<1>3. Underway' = Underway
  BY <1>1 DEF Underway
<1>4. /\ ready' \subseteq {"stdin", "server"}
      /\ eof => "stdin" \notin ready'
      /\ "server" \in ready' <=> down > 0 \/ server # "open"
  BY <1>2
<1>5. ~ (down > 0) /\ left = 0 => Underway <= Room
  <2>1. ~ (down > 0) => down = 0
    BY EchoSum
  <2>2. up + echoing <= Room
    BY EchoSum DEF Room
  <2>3. left = 0 /\ down = 0 => Underway = up + echoing
    BY EchoSum DEF Underway
  <2>. QED
    BY <2>1, <2>2, <2>3
<1>. QED
  BY <1>1, <1>3, <1>4, <1>5

(* The client that waits in select keeps the invariant.                    *)
LEMMA SelectClientKeeps ==
  ASSUME EchoInv, program = "client_normal_select", program' = program, EchoClients!str_cli
  PROVE  EchoInv'
<1>1. EchoTypes /\ SelectClient
  BY DEF EchoInv
<1>2. clientPc \in {"select", "server", "stdin", "write", "fin", "exited"}
  BY <1>1 DEF EchoTypes, EchoPlaces
<1>3. clientPc' \in {"select", "server", "stdin", "write", "fin", "exited"} => clientPc' \in EchoPlaces'
  BY DEF EchoPlaces
<1>4. PassedClient' /\ LineClient'
  BY DEF PassedClient, LineClient
<1>5. SelectClient' /\ EchoTypes' => EchoInv'
  BY <1>4 DEF EchoInv
<1>6. CASE EchoClients!Select("server")
  <2>1. EchoTypes'
    BY <1>1, <1>3, <1>6, EchoSelects DEF EchoTypes
  <2>2. SelectClient'
    <3>1. Room' = Room
      BY DEF Room
    <3>. QED
      BY <1>1, <1>6, <3>1, EchoSelects DEF SelectClient
  <2>. QED
    BY <1>5, <2>1, <2>2
<1>7. CASE EchoClients!ReadsServer
  <2>1. EchoClients!Hears("server", "stdin", "fin")
    BY <1>7 DEF EchoClients!ReadsServer
  <2>2. EchoTypes'
    <3>1. /\ UNCHANGED <<eof, typed, left, up, echoing, server, ready>>
          /\ down' \in 0 .. SocketCap /\ printed' \in Nat
          /\ clientPc' \in {"stdin", "fin"}
      BY <1>1, <2>1, EchoHears
    <3>. QED
      BY <1>1, <1>3, <3>1 DEF EchoTypes
  <2>3. SelectClient'
    <3>1. Room' = Room /\ Room + ClientChunk >= Room
      BY <1>1, EchoSum DEF Room
    <3>2. left = 0 /\ left' = 0 /\ clientPc = "server" /\ clientPc' \in {"stdin", "fin"}
      BY <1>1, <2>1, EchoHears DEF SelectClient
    <3>3. server' # "left" => typed' = Underway' + printed'
      BY <1>1, <2>1, EchoHears DEF SelectClient
    <3>4. server' = "open" => clientPc' = "stdin" /\ Underway' <= Room'
      BY <1>1, <2>1, <3>1, <3>2, EchoHears DEF SelectClient
    <3>5. Underway' \in Nat
      <4>1. left' \in Nat /\ up' \in Nat /\ echoing' \in Nat /\ down' \in Nat
        BY <1>1, <2>1, <2>2, EchoHears, EchoSum DEF EchoTypes
      <4>2. Underway' = left' + up' + echoing' + down'
        BY DEF Underway
      <4>. QED
        BY <4>1, <4>2, Moved
    <3>6. clientPc' = "fin" => server' # "open" /\ down' = 0
      BY <1>1, <2>1, EchoHears DEF SelectClient
    <3>7. eof' /\ clientPc' = "stdin" => "stdin" \notin ready'
      BY <1>1, <2>1, EchoHears DEF SelectClient
    <3>8. server' = "finished" => eof' /\ up' = 0 /\ echoing' = 0
      BY <1>1, <2>1, EchoHears DEF SelectClient
    <3>9. server' = "open" => Underway' <= Room' + ClientChunk
      BY <3>4, <3>5, <3>1, <1>1, EchoSum
    <3>. QED
      BY <3>2, <3>3, <3>4, <3>6, <3>7, <3>8, <3>9 DEF SelectClient
  <2>. QED
    BY <1>5, <2>2, <2>3
<1>8. CASE EchoClients!ReadsStdin
  <2>1. /\ clientPc = "stdin" /\ UNCHANGED <<eof, up, echoing, down, printed, server, ready, shut>>
        /\ left = 0
    BY <1>1, <1>8 DEF EchoClients!ReadsStdin, EchoClients!wire, SelectClient
  <2>2. CASE clientPc' = "select" /\ typed' = typed /\ left' = left
    <3>1. Underway' = Underway /\ Room' = Room
      BY <2>1, <2>2 DEF Underway, Room
    <3>2. EchoTypes'
      BY <1>1, <1>3, <2>1, <2>2 DEF EchoTypes
    <3>3. SelectClient'
      BY <1>1, <2>1, <2>2, <3>1 DEF SelectClient
    <3>. QED
      BY <1>5, <3>2, <3>3
  <2>3. CASE "stdin" \in ready /\ clientPc' = "write" /\ \E n \in 1 .. ClientChunk : EchoClients!Types(n) /\ left' = n
    <3>1. PICK n \in 1 .. ClientChunk : EchoClients!Types(n) /\ left' = n
      BY <2>3
    <3>2. /\ typed' = typed + n /\ typed' \in Nat /\ left' \in Nat /\ left' > 0
          /\ Underway' = Underway + n /\ n \in Nat /\ n <= ClientChunk
      BY <1>1, <2>1, <3>1, EchoTypesSome
    <3>3. EchoTypes'
      BY <1>1, <1>3, <2>1, <2>3, <3>2 DEF EchoTypes
    <3>4. ~ eof /\ server # "finished" /\ (server = "open" => Underway <= Room)
      BY <1>1, <2>1, <2>3 DEF SelectClient, EchoTypes
    <3>5. server = "open" => Underway' <= Room + ClientChunk
      BY <1>1, <3>2, <3>4, EchoSum
    <3>6. server # "left" => typed' = Underway' + printed
      <4>1. server # "left" => typed = Underway + printed
        BY <1>1 DEF SelectClient
      <4>2. printed \in Nat
        BY <1>1 DEF EchoTypes
      <4>. QED
        BY <1>1, <4>1, <4>2, <3>2, EchoSum
    <3>7. Room' = Room
      BY DEF Room
    <3>8. SelectClient'
      BY <2>1, <2>3, <3>4, <3>5, <3>6, <3>7 DEF SelectClient
    <3>. QED
      BY <1>5, <3>3, <3>8
  <2>. QED
    BY <1>8, <2>2, <2>3 DEF EchoClients!ReadsStdin
<1>9. CASE EchoClients!ShutsDown
  <2>1. /\ clientPc = "stdin" /\ clientPc' = "select" /\ eof' = TRUE
        /\ UNCHANGED <<typed, left, up, echoing, down, printed, server, ready, shut>>
    BY <1>9 DEF EchoClients!ShutsDown, EchoClients!Goes, EchoClients!wire
  <2>2. Underway' = Underway /\ Room' = Room
    BY <2>1 DEF Underway, Room
  <2>3. EchoTypes'
    BY <1>1, <1>3, <2>1 DEF EchoTypes
  <2>4. SelectClient'
    BY <1>1, <2>1, <2>2 DEF SelectClient
  <2>. QED
    BY <1>5, <2>3, <2>4
<1>10. CASE EchoClients!Writes("select")
  <2>1. EchoTypes'
    BY <1>1, <1>3, <1>10, EchoWrites DEF EchoTypes
  <2>2. ~ eof /\ server # "finished"
    BY <1>1, <1>10, EchoWrites DEF SelectClient
  <2>3. Room' = Room
    BY DEF Room
  <2>4. SelectClient'
    BY <1>1, <1>10, <2>2, <2>3, EchoWrites DEF SelectClient, EchoTypes
  <2>. QED
    BY <1>5, <2>1, <2>4
<1>. QED
  BY <1>6, <1>7, <1>8, <1>9, <1>10 DEF EchoClients!str_cli

(* The client that was passed its connection.                              *)
LEMMA PassedClientKeeps ==
  ASSUME EchoInv, program = "unix_domain_socket_send_fd_cli", program' = program,
         EchoClients!send_fd_cli
  PROVE  EchoInv'
<1>1. EchoTypes /\ PassedClient
  BY DEF EchoInv
<1>2. clientPc \in {"select", "do_write", "write", "do_read", "exited"}
  BY <1>1 DEF EchoTypes, EchoPlaces
<1>3. clientPc' \in {"select", "do_write", "write", "do_read", "exited"} => clientPc' \in EchoPlaces'
  BY DEF EchoPlaces
<1>4. SelectClient' /\ LineClient'
  BY DEF SelectClient, LineClient
<1>5. PassedClient' /\ EchoTypes' => EchoInv'
  BY <1>4 DEF EchoInv
<1>6. Room' = Room
  BY DEF Room
<1>7. CASE EchoClients!Select("do_write")
  <2>1. EchoTypes'
    BY <1>1, <1>3, <1>7, EchoSelects DEF EchoTypes
  <2>2. PassedClient'
    BY <1>1, <1>6, <1>7, EchoSelects DEF PassedClient
  <2>. QED
    BY <1>5, <2>1, <2>2
<1>8. CASE EchoClients!do_write
  <2>1. /\ clientPc = "do_write" /\ UNCHANGED <<up, echoing, down, printed, server, ready, shut>>
        /\ left = 0 /\ ~ eof /\ eof \in BOOLEAN
    BY <1>1, <1>8 DEF EchoClients!do_write, EchoClients!wire, PassedClient, EchoTypes
  <2>2. CASE /\ typed' = typed /\ left' = left
             /\ \/ clientPc' = "do_read" /\ eof' = eof /\ "stdin" \notin ready
                \/ clientPc' = "exited" /\ eof' = TRUE
    <3>1. Underway' = Underway
      BY <2>1, <2>2 DEF Underway
    <3>2. EchoTypes'
      BY <1>1, <1>3, <2>1, <2>2 DEF EchoTypes
    <3>3. Room <= Room + ClientChunk /\ Room + ClientChunk <= Room + ClientChunk + ClientChunk
      BY <1>1, EchoSum
    <3>4. server = "open" => /\ Underway <= Room + ClientChunk + ClientChunk
                             /\ "server" \notin ready => Underway <= Room + ClientChunk
      BY <1>1, <2>1, <3>3, EchoSum DEF PassedClient
    <3>5. PassedClient'
      BY <1>6, <2>1, <2>2, <3>1, <3>4 DEF PassedClient
    <3>. QED
      BY <1>5, <3>2, <3>5
  <2>3. CASE clientPc' = "write" /\ eof' = eof /\ \E n \in 1 .. ClientChunk : EchoClients!Types(n) /\ left' = n
    <3>1. PICK n \in 1 .. ClientChunk : EchoClients!Types(n) /\ left' = n
      BY <2>3
    <3>2. /\ typed' = typed + n /\ typed' \in Nat /\ left' \in Nat /\ left' > 0
          /\ Underway' = Underway + n /\ n \in Nat /\ n <= ClientChunk
      BY <1>1, <2>1, <3>1, EchoTypesSome
    <3>3. EchoTypes'
      BY <1>1, <1>3, <2>1, <2>3, <3>2 DEF EchoTypes
    <3>4. server = "open" => /\ Underway <= Room + ClientChunk
                             /\ "server" \notin ready => Underway <= Room
      BY <1>1, <2>1 DEF PassedClient
    <3>5. server = "open" => /\ Underway' <= Room + ClientChunk + ClientChunk
                             /\ "server" \notin ready => Underway' <= Room + ClientChunk
      BY <1>1, <3>2, <3>4, EchoSum
    <3>6. PassedClient'
      BY <1>6, <2>1, <2>3, <3>5 DEF PassedClient
    <3>. QED
      BY <1>5, <3>3, <3>6
  <2>. QED
    BY <1>8, <2>2, <2>3 DEF EchoClients!do_write
<1>9. CASE EchoClients!Writes("do_read")
  <2>1. EchoTypes'
    BY <1>1, <1>3, <1>9, EchoWrites DEF EchoTypes
  <2>2. PassedClient'
    BY <1>1, <1>6, <1>9, EchoWrites DEF PassedClient, EchoTypes
  <2>. QED
    BY <1>5, <2>1, <2>2
<1>10. CASE EchoClients!do_read
  <2>1. EchoClients!Hears("do_read", "select", "exited")
    BY <1>10 DEF EchoClients!do_read
  <2>2. EchoTypes'
    <3>1. /\ UNCHANGED <<eof, typed, left, up, echoing, server, ready>>
          /\ down' \in 0 .. SocketCap /\ printed' \in Nat
          /\ clientPc' \in {"select", "exited"}
      BY <1>1, <2>1, EchoHears
    <3>. QED
      BY <1>1, <1>3, <3>1 DEF EchoTypes
  <2>3. PassedClient'
    <3>1. clientPc = "do_read" /\ left = 0 /\ left' = 0 /\ clientPc' \in {"select", "exited"} /\ ~ eof /\ ~ eof'
      BY <1>1, <2>1, EchoHears DEF PassedClient
    <3>2. clientPc' = "select" /\ server' = "open" => Underway' <= Room + ClientChunk
      BY <1>1, <2>1, <3>1, EchoHears DEF PassedClient
    <3>. QED
      BY <1>6, <3>1, <3>2 DEF PassedClient
  <2>. QED
    BY <1>5, <2>2, <2>3
<1>. QED
  BY <1>7, <1>8, <1>9, <1>10 DEF EchoClients!send_fd_cli

(* The client that sends a line and waits for an answer.                   *)
LEMMA LineClientKeeps ==
  ASSUME EchoInv, program = "client_normal2", program' = program, EchoClients!line_by_line
  PROVE  EchoInv'
<1>1. EchoTypes /\ LineClient
  BY DEF EchoInv
<1>2. clientPc \in {"line", "write", "answer", "closed", "exited"}
  BY <1>1 DEF EchoTypes, EchoPlaces
<1>3. clientPc' \in {"line", "write", "answer", "closed", "exited"} => clientPc' \in EchoPlaces'
  BY DEF EchoPlaces
<1>4. SelectClient' /\ PassedClient'
  BY DEF SelectClient, PassedClient
<1>5. LineClient' /\ EchoTypes' => EchoInv'
  BY <1>4 DEF EchoInv
<1>6. Room' = Room
  BY DEF Room
<1>7. CASE EchoClients!TakesLine
  <2>1. /\ clientPc = "line" /\ UNCHANGED <<up, echoing, down, printed, server, ready, shut>> /\ left = 0
    BY <1>1, <1>7 DEF EchoClients!TakesLine, EchoClients!Goes, EchoClients!wire, LineClient
  <2>2. CASE clientPc' = "closed" /\ eof' = TRUE /\ typed' = typed /\ left' = left
    <3>1. EchoTypes'
      BY <1>1, <1>3, <2>1, <2>2 DEF EchoTypes
    <3>2. LineClient'
      BY <2>1, <2>2 DEF LineClient
    <3>. QED
      BY <1>5, <3>1, <3>2
  <2>3. CASE clientPc' = "write" /\ eof' = eof /\ \E n \in 1 .. ClientChunk : EchoClients!Types(n) /\ left' = n
    <3>1. PICK n \in 1 .. ClientChunk : EchoClients!Types(n) /\ left' = n
      BY <2>3
    <3>2. /\ typed' = typed + n /\ typed' \in Nat /\ left' \in Nat /\ left' > 0
          /\ Underway' = Underway + n /\ n \in Nat /\ n <= ClientChunk
      BY <1>1, <2>1, <3>1, EchoTypesSome
    <3>3. EchoTypes'
      BY <1>1, <1>3, <2>1, <2>3, <3>2 DEF EchoTypes
    <3>4. server = "open" => Underway <= Room
      BY <1>1, <2>1 DEF LineClient
    <3>5. server = "open" => Underway' <= Room + ClientChunk
      BY <1>1, <3>2, <3>4, EchoSum
    <3>6. LineClient'
      BY <1>6, <2>1, <2>3, <3>5 DEF LineClient
    <3>. QED
      BY <1>5, <3>3, <3>6
  <2>. QED
    BY <1>7, <2>2, <2>3 DEF EchoClients!TakesLine, EchoClients!Goes
<1>8. CASE EchoClients!Writes("answer")
  <2>1. EchoTypes'
    BY <1>1, <1>3, <1>8, EchoWrites DEF EchoTypes
  <2>2. server = "open" => Underway' > 0
    <3>1. clientPc = "write" /\ (server = "open" => left > 0 /\ Underway' = Underway)
      BY <1>1, <1>8, EchoWrites DEF EchoTypes
    <3>2. left \in Nat
      BY <1>1 DEF EchoTypes
    <3>. QED
      BY <1>1, <3>1, <3>2, EchoSum DEF Underway
  <2>3. LineClient'
    BY <1>1, <1>6, <1>8, <2>2, EchoWrites DEF LineClient, EchoTypes
  <2>. QED
    BY <1>5, <2>1, <2>3
<1>9. CASE EchoClients!TakesAnswer
  <2>1. /\ clientPc = "answer" /\ UNCHANGED <<eof, typed, left, up, echoing, server, ready, shut>> /\ left = 0
    BY <1>1, <1>9 DEF EchoClients!TakesAnswer, EchoClients!Goes, LineClient
  <2>2. CASE clientPc' = "line" /\ down' = down - down /\ printed' = printed + down
    <3>1. down' = 0 /\ printed' \in Nat
      BY <1>1, <2>2, EchoSum DEF EchoTypes
    <3>2. EchoTypes'
      BY <1>1, <1>3, <2>1, <2>2, <3>1, EchoSum DEF EchoTypes
    <3>3. Underway' <= Room
      <4>1. left' = 0 /\ up' = up /\ echoing' = echoing
        BY <2>1
      <4>2. Underway' = up + echoing
        BY <1>1, <3>1, <4>1, EchoSum DEF Underway
      <4>. QED
        BY <1>1, <4>2, EchoSum DEF Room
    <3>4. LineClient'
      BY <1>6, <2>1, <2>2, <3>3 DEF LineClient
    <3>. QED
      BY <1>5, <3>2, <3>4
  <2>3. CASE clientPc' = "exited" /\ down' = down /\ printed' = printed
    <3>1. EchoTypes'
      BY <1>1, <1>3, <2>1, <2>3 DEF EchoTypes
    <3>2. LineClient'
      BY <2>1, <2>3 DEF LineClient
    <3>. QED
      BY <1>5, <3>1, <3>2
  <2>. QED
    BY <1>9, <2>2, <2>3 DEF EchoClients!TakesAnswer, EchoClients!Goes, EchoClients!Reads
<1>10. CASE EchoClients!sig_int
  <2>1. UNCHANGED <<eof, typed, left, up, echoing, down, printed, server, ready, clientPc>>
    BY <1>10 DEF EchoClients!sig_int, EchoClients!wire
  <2>2. EchoTypes'
    BY <1>1, <1>3, <2>1 DEF EchoTypes, EchoPlaces
  <2>3. LineClient'
    BY <1>1, <1>6, <2>1 DEF LineClient, Underway
  <2>. QED
    BY <1>5, <2>2, <2>3
<1>. QED
  BY <1>7, <1>8, <1>9, <1>10 DEF EchoClients!line_by_line

(* The source that never reads.                                            *)
LEMMA SourceSends ==
  ASSUME EchoTypes, EchoClients!source_socket_handler
  PROVE  /\ UNCHANGED <<eof, left, echoing, down, printed, server, ready, shut>>
         /\ clientPc = "source" /\ clientPc' \in {"source", "exited"}
         /\ typed' \in Nat /\ up' \in 0 .. SocketCap
<1>1. /\ UNCHANGED <<eof, left, echoing, down, printed, server, ready, shut>>
      /\ clientPc = "source" /\ clientPc' \in {"source", "exited"}
  BY DEF EchoClients!source_socket_handler
<1>2. typed' \in Nat /\ up' \in 0 .. SocketCap
  <2>1. CASE typed' = typed /\ up' = up
    BY <2>1 DEF EchoTypes
  <2>2. CASE \E n : n = EchoClients!Least(ClientChunk, SocketCap - up) /\ EchoClients!Types(n) /\ up' = up + n
    <3>1. PICK n : n = EchoClients!Least(ClientChunk, SocketCap - up) /\ typed' = typed + n /\ up' = up + n
      BY <2>2 DEF EchoClients!Types
    <3>2. n \in Nat /\ up + n <= SocketCap
      BY <3>1, EchoSum DEF EchoClients!Least
    <3>. QED
      BY <3>1, <3>2, EchoSum DEF EchoTypes
  <2>. QED
    BY <2>1, <2>2 DEF EchoClients!source_socket_handler
<1>. QED
  BY <1>1, <1>2

(* The client that feeds what fits every 0.1 s, and never reads, keeps the *)
(* invariant.                                                              *)
LEMMA SourceKeeps ==
  ASSUME EchoInv, program = "client_normal_select -i", program' = program,
         EchoClients!source_socket_handler
  PROVE  EchoInv'
<1>1. EchoTypes
  BY DEF EchoInv
<1>2. SelectClient' /\ PassedClient' /\ LineClient'
  BY DEF SelectClient, PassedClient, LineClient
<1>3. clientPc' \in EchoPlaces' /\ clientPc' # "write"
  BY <1>1, SourceSends DEF EchoPlaces
<1>4. EchoTypes'
  BY <1>1, <1>3, SourceSends DEF EchoTypes
<1>. QED
  BY <1>2, <1>4 DEF EchoInv

(* The event loops.                                                        *)
LEMMA EventClientsKeep ==
  ASSUME EchoInv, program \in {"libevent_stream_client", "libevent_stream_client_2"},
         program' = program, EchoClients!event_loop
  PROVE  EchoInv'
<1>1. EchoTypes
  BY DEF EchoInv
<1>2. SelectClient' /\ PassedClient' /\ LineClient'
  BY DEF SelectClient, PassedClient, LineClient
<1>3. typed \in Nat /\ left \in Nat /\ printed \in Nat
  BY <1>1 DEF EchoTypes
<1>4. clientPc \in {"loop", "leaving", "freed", "ended", "undefined", "exited"}
  BY <1>1 DEF EchoTypes, EchoPlaces
<1>5. /\ echoing' = echoing /\ server' = server /\ ready' = ready /\ eof' \in BOOLEAN
      /\ clientPc' \in {"loop", "leaving", "freed", "ended", "undefined", "exited"}
  BY <1>1, <1>4
     DEF EchoTypes, EchoClients!event_loop, EchoClients!stdin_read, EchoClients!StdinEnds,
         EchoClients!LoopWrites, EchoClients!read_cb, EchoClients!event_cb, EchoClients!sigint,
         EchoClients!LoopExits, EchoClients!wire, EchoClients!Goes
<1>6. /\ typed' \in Nat /\ left' \in Nat /\ printed' \in Nat
      /\ up' \in 0 .. SocketCap /\ down' \in 0 .. SocketCap
  <2>1. CASE EchoClients!stdin_read
    <3>1. UNCHANGED <<up, down, printed>>
      BY <2>1 DEF EchoClients!stdin_read, EchoClients!wire
    <3>2. PICK n \in 1 .. ClientChunk : typed' = typed + n /\ (left' = left + n \/ left' = left)
      BY <2>1 DEF EchoClients!stdin_read, EchoClients!Types
    <3>3. n \in Nat
      BY <1>1, <3>2, EchoSum
    <3>. QED
      BY <1>1, <1>3, <3>1, <3>2, <3>3, EchoSum
  <2>2. CASE EchoClients!LoopWrites
    <3>1. UNCHANGED <<typed, down, printed>>
      BY <2>2 DEF EchoClients!LoopWrites
    <3>2. CASE \E n \in 1 .. EchoClients!Least(left, SocketCap - up) : up' = up + n /\ left' = left - n
      <4>1. PICK n \in 1 .. EchoClients!Least(left, SocketCap - up) : up' = up + n /\ left' = left - n
        BY <3>2
      <4>2. n \in Nat /\ n <= left /\ up + n <= SocketCap
        BY <1>1, <1>3, <4>1, EchoSum DEF EchoClients!Least
      <4>. QED
        BY <1>1, <1>3, <3>1, <4>1, <4>2, EchoSum
    <3>3. CASE up' = up /\ (left' = 0 \/ left' = left)
      BY <1>1, <1>3, <3>1, <3>3, EchoSum
    <3>. QED
      BY <2>2, <3>2, <3>3 DEF EchoClients!LoopWrites
  <2>3. CASE EchoClients!read_cb
    <3>1. UNCHANGED <<typed, left, up>>
      BY <2>3 DEF EchoClients!read_cb
    <3>2. PICK n \in 1 .. down : down' = down - n /\ printed' = printed + n
      BY <2>3 DEF EchoClients!read_cb, EchoClients!Reads
    <3>. QED
      BY <1>1, <1>3, <3>1, <3>2, EchoSum
  <2>4. CASE UNCHANGED <<typed, left, up, down, printed>>
    BY <1>1, <2>4 DEF EchoTypes
  <2>. QED
    BY <2>1, <2>2, <2>3, <2>4
       DEF EchoClients!event_loop, EchoClients!StdinEnds, EchoClients!event_cb, EchoClients!sigint,
           EchoClients!LoopExits, EchoClients!wire
<1>7. clientPc' \in EchoPlaces' /\ clientPc' # "write"
  BY <1>5 DEF EchoPlaces
<1>8. EchoTypes'
  BY <1>1, <1>5, <1>6, <1>7 DEF EchoTypes
<1>. QED
  BY <1>2, <1>8 DEF EchoInv

(* The server echoes, or goes: when the client has ended and all came back,*)
(* or at any time.                                                         *)
LEMMA EchoServerKeeps ==
  ASSUME EchoInv, EchoClients!Serves \/ EchoClients!Departs
  PROVE  EchoInv'
<1>1. EchoTypes /\ SelectClient /\ PassedClient /\ LineClient
  BY DEF EchoInv
<1>2. Room' = Room
  BY DEF Room
<1>3. CASE EchoClients!Serves
  <2>1. EchoPlaces' = EchoPlaces
    BY <1>1, <1>3, EchoServes DEF EchoPlaces
  <2>2. EchoTypes'
    BY <1>1, <1>3, <2>1, EchoServes DEF EchoTypes
  <2>3. SelectClient'
    <3>1. down > 0 => down' > 0
      BY <1>1, <1>3, <2>2, EchoServes, EchoSum DEF EchoTypes
    <3>. QED
      BY <1>1, <1>2, <1>3, <3>1, EchoServes DEF SelectClient
  <2>4. PassedClient' /\ LineClient'
    BY <1>1, <1>2, <1>3, EchoServes DEF PassedClient, LineClient
  <2>. QED
    BY <2>2, <2>3, <2>4 DEF EchoInv
<1>4. CASE EchoClients!Departs
  <2>1. /\ UNCHANGED <<program, eof, typed, left, up, echoing, down, printed, ready, clientPc>>
        /\ server = "open" /\ server' \in {"finished", "left"}
        /\ server' = "finished" /\ program = "client_normal_select" => eof /\ up = 0 /\ echoing = 0
    BY <1>4 DEF EchoClients!Departs, EchoClients!wire
  <2>2. EchoTypes'
    BY <1>1, <2>1 DEF EchoTypes, EchoPlaces
  <2>3. Underway' = Underway
    BY <2>1 DEF Underway
  <2>4. SelectClient' /\ PassedClient' /\ LineClient'
    BY <1>1, <1>2, <2>1, <2>3 DEF SelectClient, PassedClient, LineClient
  <2>. QED
    BY <2>2, <2>4 DEF EchoInv
<1>. QED
  BY <1>3, <1>4

(* Every step of an echo client and its server keeps the invariant.        *)
LEMMA EchoNext == EchoInv /\ [EchoClients!Next]_<<program, clientVars>> => EchoInv'
<1> SUFFICES ASSUME EchoInv, [EchoClients!Next]_<<program, clientVars>> PROVE EchoInv'
  OBVIOUS
<1>1. CASE UNCHANGED <<program, clientVars>>
  BY <1>1 DEF clientVars, EchoInv, EchoTypes, EchoPlaces, SelectClient, PassedClient, LineClient,
              Underway, Room
<1>2. CASE EchoClients!Client
  BY <1>2, SelectClientKeeps, PassedClientKeeps, LineClientKeeps, SourceKeeps, EventClientsKeep
     DEF EchoClients!Client, EchoClients!Runs, EchoClients!Events
<1>3. CASE EchoClients!Serves \/ EchoClients!Departs
  BY <1>3, EchoServerKeeps
<1>. QED
  BY <1>1, <1>2, <1>3 DEF EchoClients!Next

EchoRunning == program \in EchoClients!Programs => EchoInv

(* The invariant holds throughout the runs of the echo clients.            *)
LEMMA EchoAlways == MCSpec => []EchoRunning
<1>1. MCInit => EchoRunning
  BY EchoRuns, EchoInit DEF EchoRunning
<1>2. EchoRunning /\ [MCNext]_mcVars => EchoRunning'
  BY EchoRuns, EchoNext DEF EchoRunning
<1>. QED
  BY <1>1, <1>2, PTL DEF MCSpec

(* client_normal_select.c has printed all that was typed when it returns   *)
(* because its server has finished.                                        *)
THEOREM AllIsPrinted == MCSpec => []PrintsAll
<1>1. EchoRunning => PrintsAll
  <2> SUFFICES ASSUME EchoInv, clientPc = "fin", server = "finished" PROVE printed = typed
    BY DEF EchoRunning, PrintsAll, EchoClients!PrintsAll
  <2>1. program = "client_normal_select"
    BY DEF EchoInv, EchoTypes, EchoPlaces
  <2>2. /\ left = 0 /\ up = 0 /\ echoing = 0 /\ down = 0 /\ typed = Underway + printed
    BY <2>1 DEF EchoInv, SelectClient
  <2>3. printed \in Nat
    BY DEF EchoInv, EchoTypes
  <2>. QED
    BY <2>2, <2>3 DEF Underway
<1>. QED
  BY <1>1, EchoAlways, PTL

(* Neither side of a connection waits for the other for ever: to fill both *)
(* socket buffers takes more than the clients let be under way.            *)
LEMMA ClientsNeverWait == EchoRunning => (program \in EchoClients!Programs => EchoClients!NeverBothWait)
<1> SUFFICES ASSUME EchoInv, server = "open", EchoClients!ClientWaits, EchoClients!ServerWaits
    PROVE FALSE
  BY DEF EchoRunning, EchoClients!NeverBothWait
<1>1. EchoTypes /\ SelectClient /\ PassedClient /\ LineClient
  BY DEF EchoInv
<1>2. SocketCap > 0
  BY SyncAssumption
<1>3. CASE clientPc = "write" /\ up = SocketCap
  <2>1. echoing > 0 /\ down = SocketCap /\ left > 0 /\ left \in Nat
    BY <1>1, <1>2, <1>3 DEF EchoClients!ServerWaits, EchoTypes
  <2>2. Underway >= SocketCap + SocketCap + 2
    BY <1>1, <1>3, <2>1, EchoSum DEF Underway
  <2>3. Underway <= Room + ClientChunk + ClientChunk
    <3>1. /\ Room + ClientChunk <= Room + ClientChunk + ClientChunk
      BY <1>1, EchoSum
    <3>2. program \in {"client_normal_select", "unix_domain_socket_send_fd_cli", "client_normal2"}
      BY <1>1, <1>3 DEF EchoTypes, EchoPlaces, EchoClients!Programs, EchoClients!Events
    <3>3. Underway <= Room + ClientChunk \/ Underway <= Room + ClientChunk + ClientChunk
      BY <1>1, <1>3, <3>2 DEF SelectClient, PassedClient, LineClient
    <3>. QED
      BY <1>1, <3>1, <3>3, EchoSum
  <2>4. Room + ClientChunk + ClientChunk <= SocketCap + SocketCap + 1
    BY SyncAssumption DEF Room
  <2>. QED
    BY <1>1, <2>2, <2>3, <2>4, EchoSum
<1>4. CASE clientPc = "answer" /\ down = 0
  <2>1. program = "client_normal2"
    BY <1>1, <1>4 DEF EchoTypes, EchoPlaces, EchoClients!Programs, EchoClients!Events
  <2>2. left = 0 /\ Underway > 0
    BY <1>1, <1>4, <2>1 DEF LineClient
  <2>3. echoing = 0 /\ up = 0
    BY <1>2, <1>4 DEF EchoClients!ServerWaits
  <2>. QED
    BY <1>4, <2>2, <2>3 DEF Underway
<1>5. CASE clientPc = "select" /\ eof /\ down = 0
  <2>1. program \in {"client_normal_select", "unix_domain_socket_send_fd_cli"}
    BY <1>1, <1>5 DEF EchoTypes, EchoPlaces, EchoClients!Programs, EchoClients!Events
  <2>2. program = "client_normal_select"
    BY <1>1, <1>5, <2>1 DEF PassedClient
  <2>. QED
    BY <1>2, <1>5, <2>2 DEF EchoClients!ServerWaits
<1>. QED
  BY <1>3, <1>4, <1>5 DEF EchoClients!ClientWaits

-----------------------------------------------------------------------------
(***************************************************************************)
(* SemMutex, for any number of threads, stray unlocks included. Its        *)
(* invariants are not inductive: a post is made some steps after the       *)
(* comparison with lwp, so the proof needs what a record of a thread in    *)
(* lwp says about where that thread is.                                    *)
(***************************************************************************)
(* The semaphore is taken exactly while it has an owner.                   *)
TakenIffOwned == sem = 1 <=> owner = NoTid

(* Who is in the section, or about to post, owns the semaphore.            *)
OwnerPlaces ==
  \A t \in Threads : pc[t] \in {"record", "section", "post"} => owner = t

(* A recorded thread owns the mutex, unless it is just clearing lwp.       *)
RecordTells ==
  \A t \in Threads :
    lwp = t => \/ pc[t] = "clear"
               \/ owner = t /\ pc[t] \in {"section", "getvalue", "compare", "post"}

MutexInv == TypeOK /\ TakenIffOwned /\ OwnerPlaces /\ RecordTells

(* The three facts hold before the first thread runs.                      *)
LEMMA MutexInit == Init => MutexInv
  BY ThreadsAssumption
     DEF Init, MutexInv, TypeOK, Places, TakenIffOwned, OwnerPlaces, RecordTells

(* Every access to the semaphore or to lwp keeps them.                     *)
LEMMA MutexNext == MutexInv /\ [Next]_vars => MutexInv'
<1> SUFFICES ASSUME MutexInv, [Next]_vars PROVE MutexInv'
  OBVIOUS
<1> USE ThreadsAssumption
       DEF MutexInv, TypeOK, Places, TakenIffOwned, OwnerPlaces, RecordTells, Goes
<1>1. ASSUME NEW t \in Threads, LockWaits(t) PROVE MutexInv'
  BY <1>1 DEF LockWaits
<1>2. ASSUME NEW t \in Threads, LockRecords(t) PROVE MutexInv'
  BY <1>2 DEF LockRecords
<1>3. ASSUME NEW t \in Threads, CallsUnlock(t) PROVE MutexInv'
  BY <1>3 DEF CallsUnlock
<1>4. ASSUME NEW t \in Threads, UnlockFindsFree(t) PROVE MutexInv'
  BY <1>4 DEF UnlockFindsFree
<1>5. ASSUME NEW t \in Threads, UnlockFindsLocked(t) PROVE MutexInv'
  BY <1>5 DEF UnlockFindsLocked
<1>6. ASSUME NEW t \in Threads, UnlockRefuses(t) PROVE MutexInv'
  BY <1>6 DEF UnlockRefuses, IsRecorded
<1>7. ASSUME NEW t \in Threads, UnlockAccepts(t) PROVE MutexInv'
  BY <1>7 DEF UnlockAccepts, IsRecorded
<1>8. ASSUME NEW t \in Threads, UnlockPosts(t) PROVE MutexInv'
  BY <1>8 DEF UnlockPosts
<1>9. ASSUME NEW t \in Threads, UnlockClears(t) PROVE MutexInv'
  BY <1>9 DEF UnlockClears
<1>10. CASE UNCHANGED vars
  BY <1>10 DEF vars
<1> QED
  BY <1>1, <1>2, <1>3, <1>4, <1>5, <1>6, <1>7, <1>8, <1>9, <1>10 DEF Next, Thread

(***************************************************************************)
(* The mutex excludes, whatever the number of threads and of stray calls   *)
(* of sem_mutex_unlock.                                                    *)
(***************************************************************************)
THEOREM MutexExcludes == Spec => []MutualExclusion
<1>1. MutexInv => MutualExclusion
  BY DEF MutexInv, OwnerPlaces, MutualExclusion, InSection
<1> QED
  BY <1>1, MutexInit, MutexNext, PTL DEF Spec

(***************************************************************************)
(* No thread posts the semaphore of another, whatever is in lwp.           *)
(***************************************************************************)
THEOREM MutexOwnerPosts == Spec => ReleasedByOwner
<1> DEFINE Step == \A t \in Threads : pc[t] = "post" /\ pc'[t] # "post" => owner = t
<1>1. MutexInv => Step
  BY DEF MutexInv, OwnerPlaces
<1> HIDE DEF Step
<1>2. MutexInv /\ [Next]_vars => [Step]_vars
  BY <1>1
<1>3. Spec => [][Step]_vars
  BY <1>2, MutexInit, MutexNext, PTL DEF Spec
<1> QED
  BY <1>3 DEF ReleasedByOwner, Step

-----------------------------------------------------------------------------
(* Datagrams. The server of UNIX sockets, which gives recvfrom the whole   *)
(* length, answers a client that has asked, and no name is cut: what a     *)
(* waiting client asked is in the server's inbox or its answer under way.  *)
Awaits(c) ==
  \/ box[c] # <<>>
  \/ received # NULL /\ received[1] = c
  \/ \E k \in DOMAIN inbox : inbox[k][1] = c

GramTypes ==
  /\ speaker \in [Askers -> {"fgets", "recvfrom", "select", "write", "sendto", "ended"}]
  /\ err \in [Askers -> {"none", "pending", "taken"}]
  /\ asked \in [Askers -> Nat]
  /\ echoer \in {"recvfrom", "sendto", "failed", "killed"}

GramUnix ==
  /\ port = [c \in Askers |-> 0]
  /\ box \in [Askers -> Seq(Askers \X Nat)]
  /\ inbox \in Seq(Askers \X Nat \X Nat) /\ \A k \in DOMAIN inbox : inbox[k][2] = 0
  /\ echoer = "sendto" => received \in Askers \X Nat \X Nat /\ received[2] = 0
  /\ echoer = "recvfrom" => received = NULL
  /\ Datagrams!Up => \A c \in Askers : speaker[c] = "recvfrom" => Awaits(c)

GramInv ==
  /\ GramTypes
  /\ Datagrams!Unix => GramUnix
  /\ ~ Datagrams!Unix => echoer # "failed"
  /\ \A c \in Askers : err[c] = "taken" => speaker[c] = "ended"
  /\ Datagrams!FailsForTheGone

(* The datagrams programs start so.                                        *)
LEMMA GramInit == Datagrams!Init => GramInv
<1> SUFFICES ASSUME Datagrams!Init PROVE GramInv
  OBVIOUS
<1>1. GramTypes
  BY DEF Datagrams!Init, GramTypes
<1>2. GramUnix
  BY DEF Datagrams!Init, GramUnix, Datagrams!Unix, Datagrams!Selecting
<1>. QED
  BY <1>1, <1>2 DEF Datagrams!Init, GramInv, Datagrams!FailsForTheGone, Datagrams!Unix, Datagrams!Selecting

(* One datagram more at the end of a queue, one less at its head.          *)
Longer(q, d, T) ==
  LET u == Append(q, d) IN
  /\ u \in Seq(T) /\ u # <<>>
  /\ \A k \in DOMAIN q : k \in DOMAIN u /\ u[k] = q[k]
  /\ Len(q) + 1 \in DOMAIN u /\ u[Len(q) + 1] = d
  /\ \A k \in DOMAIN u : k \in DOMAIN q \/ u[k] = d

Shorter(q, T) ==
  /\ Head(q) \in T /\ Head(q) = q[1] /\ Tail(q) \in Seq(T) /\ 1 \in DOMAIN q
  /\ \A k \in DOMAIN Tail(q) : k + 1 \in DOMAIN q /\ Tail(q)[k] = q[k + 1]
  /\ \A k \in DOMAIN q : k = 1 \/ (k - 1 \in DOMAIN Tail(q) /\ Tail(q)[k - 1] = q[k])

(* What a send and a receive make of a queue.                              *)
LEMMA GramQueues ==
  ASSUME NEW T, NEW q \in Seq(T)
  PROVE  /\ \A d \in T : Longer(q, d, T)
         /\ q # <<>> => Shorter(q, T)
<1>1. ASSUME NEW d \in T
      PROVE  Longer(q, d, T)
  <2>1. PICK u : u = Append(q, d)
    OBVIOUS
  <2>2. u \in Seq(T) /\ Len(u) = Len(q) + 1 /\ Len(q) \in Nat
    BY <2>1
  <2>3. /\ \A k \in DOMAIN q : k \in DOMAIN u /\ u[k] = q[k]
        /\ Len(q) + 1 \in DOMAIN u /\ u[Len(q) + 1] = d
        /\ \A k \in DOMAIN u : k \in DOMAIN q \/ u[k] = d
    BY <2>1
  <2>4. u # <<>>
    BY <2>3
  <2>. QED
    BY <2>1, <2>2, <2>3, <2>4, Zenon DEF Longer
<1>2. ASSUME q # <<>>
      PROVE  Shorter(q, T)
  <2>1. /\ Head(q) \in T /\ Head(q) = q[1] /\ Tail(q) \in Seq(T) /\ 1 \in DOMAIN q
        /\ \A k \in DOMAIN Tail(q) : k + 1 \in DOMAIN q /\ Tail(q)[k] = q[k + 1]
        /\ \A k \in DOMAIN q : k = 1 \/ (k - 1 \in DOMAIN Tail(q) /\ Tail(q)[k - 1] = q[k])
    BY <1>2
  <2>. QED
    BY <2>1, Zenon DEF Shorter
<1>. QED
  BY <1>1, <1>2, Zenon

(* The steps of the server.                                                *)
LEMMA GramServer ==
  ASSUME GramInv, Datagrams!Server
  PROVE  GramInv'
<1>1. UNCHANGED <<program, asked, port, err, speaker>>
  BY DEF Datagrams!Server, Datagrams!UnixServer, Datagrams!UdpServer, Datagrams!Receive, Datagrams!Answers,
         Datagrams!NoAnswer, Datagrams!Killed
<1>2. echoer' \in {"recvfrom", "sendto", "failed", "killed"}
  BY DEF Datagrams!Server, Datagrams!UnixServer, Datagrams!UdpServer, Datagrams!Receive, Datagrams!Answers,
         Datagrams!NoAnswer, Datagrams!Killed
<1>3. GramTypes' /\ (\A c \in Askers : err'[c] = "taken" => speaker'[c] = "ended")
  BY <1>1, <1>2 DEF GramInv, GramTypes
<1>4. CASE ~ Datagrams!Unix
  <2>1. echoer' # "failed"
    BY <1>4 DEF Datagrams!Server, Datagrams!UdpServer, Datagrams!Receive, Datagrams!Answers,
         Datagrams!NoAnswer, Datagrams!Killed
  <2>. QED
    BY <1>1, <1>3, <1>4, <2>1 DEF GramInv, Datagrams!FailsForTheGone, Datagrams!Unix
<1>5. CASE Datagrams!Unix
  <2>1. GramUnix /\ GramTypes /\ Datagrams!FailsForTheGone
    BY <1>5 DEF GramInv
  <2>2. CASE Datagrams!Receive(Datagrams!FullLen)
    <3>1. /\ echoer = "recvfrom" /\ inbox # <<>> /\ echoer' = "sendto" /\ box' = box
          /\ received' = Head(inbox) /\ inbox' = Tail(inbox)
      <4>1. Datagrams!AddrLen(Head(inbox)[1]) =< 2
        BY DEF Datagrams!AddrLen
      <4>2. /\ echoer = "recvfrom" /\ inbox # <<>> /\ echoer' = "sendto" /\ box' = box
            /\ inbox' = Tail(inbox)
            /\ received' = IF Datagrams!AddrLen(Head(inbox)[1]) <= 2 THEN Head(inbox)
                           ELSE <<NULL, 0, Head(inbox)[3]>>
        BY <2>2, Zenon DEF Datagrams!Receive, Datagrams!FullLen
      <4>. QED
        BY <4>1, <4>2, Zenon
    <3>2. PICK q \in Seq(Askers \X Nat \X Nat) : q = inbox /\ q # <<>> /\ \A k \in DOMAIN q : q[k][2] = 0
      BY <2>1, <3>1 DEF GramUnix
    <3>3. Shorter(q, Askers \X Nat \X Nat)
      BY <3>2, GramQueues, Zenon
    <3>4. /\ inbox' \in Seq(Askers \X Nat \X Nat) /\ (\A k \in DOMAIN inbox' : inbox'[k][2] = 0)
          /\ received' \in Askers \X Nat \X Nat /\ received'[2] = 0
      BY <3>1, <3>2, <3>3 DEF Shorter
    <3>5. received' # NULL
      BY <3>4, SyncAssumption
    <3>6. ASSUME NEW c \in Askers, speaker'[c] = "recvfrom"
          PROVE  Awaits(c)'
      <4>1. Awaits(c)
        BY <1>1, <2>1, <3>1, <3>6 DEF GramUnix, Datagrams!Up
      <4>2. CASE box[c] # <<>>
        BY <3>1, <4>2 DEF Awaits
      <4>3. received = NULL
        BY <2>1, <3>1 DEF GramUnix
      <4>4. ASSUME NEW k \in DOMAIN inbox, inbox[k][1] = c
            PROVE  Awaits(c)'
        <5>1. CASE k = 1
          BY <3>1, <3>2, <3>3, <3>5, <4>4, <5>1 DEF Awaits, Shorter
        <5>2. CASE k # 1
          <6>1. k - 1 \in DOMAIN inbox' /\ inbox'[k - 1] = inbox[k]
            BY <3>1, <3>2, <3>3, <4>4, <5>2 DEF Shorter
          <6>. QED
            BY <4>4, <6>1 DEF Awaits
        <5>. QED
          BY <5>1, <5>2
      <4>. QED
        BY <4>1, <4>2, <4>3, <4>4 DEF Awaits
    <3>7. GramUnix'
      BY <1>1, <2>1, <3>1, <3>4, <3>6 DEF GramUnix
    <3>. QED
      BY <1>1, <1>3, <1>5, <3>1, <3>7 DEF GramInv, Datagrams!FailsForTheGone, Datagrams!Unix
  <2>3. CASE Datagrams!Answers
    <3>1. /\ echoer = "sendto" /\ echoer' = "recvfrom" /\ received' = NULL /\ inbox' = inbox
      BY <2>3 DEF Datagrams!Answers
    <3>2. PICK c \in Askers : c = received[1] /\ box' = [box EXCEPT ![c] = Append(@, <<c, received[3]>>)]
      BY <2>3 DEF Datagrams!Answers, Datagrams!Receivers
    <3>3. received \in Askers \X Nat \X Nat
      BY <2>1, <3>1 DEF GramUnix
    <3>4. PICK d \in Askers \X Nat : d = <<c, received[3]>>
      BY <3>3
    <3>5. PICK q \in Seq(Askers \X Nat) : q = Append(box[c], d) /\ q # <<>>
      <4>1. box[c] \in Seq(Askers \X Nat)
        BY <2>1 DEF GramUnix
      <4>2. PICK b \in Seq(Askers \X Nat) : b = box[c]
        BY <4>1, Zenon
      <4>3. Longer(b, d, Askers \X Nat)
        BY GramQueues, Zenon
      <4>. QED
        BY <4>2, <4>3, Zenon DEF Longer
    <3>6. box' = [box EXCEPT ![c] = q]
      BY <3>2, <3>4, <3>5
    <3>7. box' \in [Askers -> Seq(Askers \X Nat)] /\ box'[c] # <<>> /\ \A e \in Askers : e # c => box'[e] = box[e]
      BY <2>1, <3>5, <3>6 DEF GramUnix
    <3>8. ASSUME NEW e \in Askers, speaker'[e] = "recvfrom"
          PROVE  Awaits(e)'
      <4>1. Awaits(e)
        BY <1>1, <2>1, <3>1, <3>8 DEF GramUnix, Datagrams!Up
      <4>. QED
        BY <3>1, <3>2, <3>7, <4>1 DEF Awaits
    <3>9. GramUnix'
      BY <1>1, <2>1, <3>1, <3>7, <3>8 DEF GramUnix
    <3>. QED
      BY <1>1, <1>3, <1>5, <3>1, <3>9 DEF GramInv, Datagrams!FailsForTheGone, Datagrams!Unix
  <2>4. CASE Datagrams!NoAnswer("failed") /\ Datagrams!Receivers = {}
    <3>1. /\ echoer = "sendto" /\ echoer' = "failed" /\ inbox' = inbox /\ box' = box
      BY <2>4 DEF Datagrams!NoAnswer, Datagrams!wire
    <3>2. GramUnix'
      BY <1>1, <2>1, <3>1 DEF GramUnix, Datagrams!Up
    <3>3. PICK c \in Askers : c = received[1]
      BY <2>1, <3>1 DEF GramUnix
    <3>4. speaker[c] = "ended"
      BY <2>1, <2>4, <3>1, <3>3 DEF GramUnix, Datagrams!Receivers
    <3>. QED
      BY <1>1, <1>3, <1>5, <3>2, <3>4 DEF GramInv, Datagrams!FailsForTheGone, Datagrams!Unix
  <2>5. CASE Datagrams!Killed
    <3>1. /\ echoer' = "killed" /\ inbox' = <<>> /\ box' = box
      BY <2>5 DEF Datagrams!Killed
    <3>2. GramUnix'
      BY <1>1, <2>1, <3>1 DEF GramUnix, Datagrams!Up
    <3>. QED
      BY <1>1, <1>3, <1>5, <3>1, <3>2 DEF GramInv, Datagrams!FailsForTheGone, Datagrams!Unix
  <2>. QED
    BY <1>5, <2>2, <2>3, <2>4, <2>5 DEF Datagrams!Server, Datagrams!UnixServer
<1>. QED
  BY <1>4, <1>5

(* A step of client c: what it says goes to the server, or its own queue   *)
(* changes.                                                                *)
LEMMA GramSpeaks ==
  ASSUME GramInv, NEW c \in Askers, NEW to \in {"fgets", "recvfrom", "select", "write", "sendto", "ended"},
         UNCHANGED <<program, received, echoer>>, speaker' = [speaker EXCEPT ![c] = to],
         speaker[c] = "ended" => to = "ended",
         asked' \in [Askers -> Nat], err' \in [Askers -> {"none", "pending", "taken"}],
         \A e \in Askers : e # c => err'[e] = err[e],
         err'[c] = "taken" => err[c] = "taken" \/ to = "ended",
         Datagrams!Unix =>
           /\ UNCHANGED port
           /\ box' \in [Askers -> Seq(Askers \X Nat)]
           /\ \A e \in Askers : e # c => box'[e] = box[e]
           /\ \/ inbox' = inbox
              \/ \E line \in Nat : inbox' = Append(inbox, <<c, 0, line>>)
           /\ to = "recvfrom" /\ Datagrams!Up =>
                \/ \E line \in Nat : inbox' = Append(inbox, <<c, 0, line>>)
                \/ speaker[c] = "recvfrom" /\ box'[c] = box[c]
  PROVE  GramInv'
<1>1. /\ speaker' \in [Askers -> {"fgets", "recvfrom", "select", "write", "sendto", "ended"}] /\ speaker'[c] = to
      /\ \A e \in Askers : e # c => speaker'[e] = speaker[e]
  BY DEF GramInv, GramTypes
<1>2. GramTypes'
  BY <1>1 DEF GramInv, GramTypes
<1>3. \A e \in Askers : err'[e] = "taken" => speaker'[e] = "ended"
  BY <1>1 DEF GramInv
<1>4. Datagrams!FailsForTheGone'
  BY <1>1 DEF GramInv, Datagrams!FailsForTheGone
<1>5. ASSUME Datagrams!Unix
      PROVE  GramUnix'
  <2>1. GramUnix
    BY <1>5 DEF GramInv
  <2>2. PICK q \in Seq(Askers \X Nat \X Nat) : q = inbox /\ \A k \in DOMAIN q : q[k][2] = 0
    BY <2>1 DEF GramUnix
  <2>3. ASSUME NEW line \in Nat, inbox' = Append(inbox, <<c, 0, line>>)
        PROVE  /\ inbox' \in Seq(Askers \X Nat \X Nat) /\ \A k \in DOMAIN inbox' : inbox'[k][2] = 0
               /\ \A k \in DOMAIN inbox : k \in DOMAIN inbox' /\ inbox'[k] = inbox[k]
               /\ \E k \in DOMAIN inbox' : inbox'[k][1] = c
    <3>1. PICK d \in Askers \X Nat \X Nat : d = <<c, 0, line>>
      OBVIOUS
    <3>2. Longer(q, d, Askers \X Nat \X Nat)
      BY GramQueues, Zenon
    <3>3. inbox' = Append(q, d) /\ d[1] = c /\ d[2] = 0
      BY <2>2, <2>3, <3>1
    <3>. QED
      BY <2>2, <3>2, <3>3 DEF Longer
  <2>4. /\ inbox' \in Seq(Askers \X Nat \X Nat) /\ \A k \in DOMAIN inbox' : inbox'[k][2] = 0
        /\ \A k \in DOMAIN inbox : k \in DOMAIN inbox' /\ inbox'[k] = inbox[k]
    BY <1>5, <2>2, <2>3
  <2>5. ASSUME NEW e \in Askers, Datagrams!Up', speaker'[e] = "recvfrom"
        PROVE  Awaits(e)'
    <3>1. Datagrams!Up
      BY <2>5 DEF Datagrams!Up
    <3>2. CASE \E k \in DOMAIN inbox' : inbox'[k][1] = e
      BY <3>2 DEF Awaits
    <3>3. CASE speaker[e] = "recvfrom" /\ box'[e] = box[e]
      <4>1. Awaits(e)
        BY <2>1, <3>1, <3>3 DEF GramUnix
      <4>. QED
        BY <2>4, <3>3, <4>1 DEF Awaits
    <3>. QED
      BY <1>1, <1>5, <2>3, <2>5, <3>1, <3>2, <3>3
  <2>6. /\ port' = [d \in Askers |-> 0] /\ box' \in [Askers -> Seq(Askers \X Nat)]
        /\ (echoer' = "sendto" => received' \in Askers \X Nat \X Nat /\ received'[2] = 0)
        /\ (echoer' = "recvfrom" => received' = NULL)
    BY <1>5, <2>1 DEF GramUnix
  <2>. QED
    BY <2>4, <2>5, <2>6 DEF GramUnix
<1>. QED
  BY <1>2, <1>3, <1>4, <1>5 DEF GramInv, Datagrams!Unix

(* The steps of a client that ask, hear, leave or go on.                   *)
LEMMA GramClient ==
  ASSUME GramInv, NEW c \in Askers, Datagrams!Client(c)
  PROVE  GramInv'
<1>1. GramTypes /\ (Datagrams!Unix => GramUnix)
  BY DEF GramInv
<1>2. /\ speaker \in [Askers -> {"fgets", "recvfrom", "select", "write", "sendto", "ended"}]
      /\ err \in [Askers -> {"none", "pending", "taken"}]
      /\ asked \in [Askers -> Nat]
      /\ asked[c] \in Nat /\ asked[c] + 1 \in Nat
  BY <1>1 DEF GramTypes
<1>3. ASSUME Datagrams!Unix
      PROVE  /\ port[c] = 0 /\ box \in [Askers -> Seq(Askers \X Nat)]
             /\ box[c] # <<>> => [box EXCEPT ![c] = Tail(@)] \in [Askers -> Seq(Askers \X Nat)]
             /\ [box EXCEPT ![c] = <<>>] \in [Askers -> Seq(Askers \X Nat)]
  <2>1. port[c] = 0 /\ box \in [Askers -> Seq(Askers \X Nat)]
    BY <1>1, <1>3 DEF GramUnix
  <2>2. ASSUME box[c] # <<>>
        PROVE  [box EXCEPT ![c] = Tail(@)] \in [Askers -> Seq(Askers \X Nat)]
    <3>1. PICK q \in Seq(Askers \X Nat) : q = box[c] /\ q # <<>>
      BY <2>1, <2>2, Zenon
    <3>2. Shorter(q, Askers \X Nat)
      BY <3>1, GramQueues, Zenon
    <3>. QED
      BY <2>1, <3>1, <3>2 DEF Shorter
  <2>3. <<>> \in Seq(Askers \X Nat)
    OBVIOUS
  <2>. QED
    BY <2>1, <2>2, <2>3
<1>4. [asked EXCEPT ![c] = @ + 1] \in [Askers -> Nat]
  BY <1>2
<1>5. speaker = [speaker EXCEPT ![c] = speaker[c]]
      /\ speaker[c] \in {"fgets", "recvfrom", "select", "write", "sendto", "ended"}
  BY <1>2
<1>6. CASE Datagrams!Asks(c)
  <2>1. /\ speaker[c] = "fgets" /\ speaker' = [speaker EXCEPT ![c] = "recvfrom"]
        /\ asked' = [asked EXCEPT ![c] = @ + 1]
        /\ UNCHANGED <<program, box, received, echoer, port, err>>
    BY <1>6 DEF Datagrams!Asks, Datagrams!At, Datagrams!To, Datagrams!More
  <2>2. Datagrams!Unix => \E line \in Nat : inbox' = Append(inbox, <<c, 0, line>>)
    BY <1>2, <1>3, <1>6 DEF Datagrams!Asks, Datagrams!Sends
  <2>. QED
    BY <1>2, <1>3, <1>4, <2>1, <2>2, GramSpeaks
<1>7. CASE Datagrams!AsksNobody(c)
  <2>1. /\ speaker' = [speaker EXCEPT ![c] = "ended"]
        /\ asked' = [asked EXCEPT ![c] = @ + 1]
        /\ UNCHANGED <<program, inbox, box, received, echoer, port, err>>
    BY <1>7 DEF Datagrams!AsksNobody, Datagrams!At, Datagrams!To, Datagrams!More, Datagrams!wire
  <2>. QED
    BY <1>2, <1>3, <1>4, <2>1, GramSpeaks
<1>8. CASE Datagrams!Hears(c)
  <2>1. /\ speaker[c] = "recvfrom" /\ speaker' = [speaker EXCEPT ![c] = "fgets"]
        /\ box[c] # <<>> /\ box' = [box EXCEPT ![c] = Tail(@)]
        /\ UNCHANGED <<program, inbox, received, echoer, port, err, asked>>
    BY <1>8 DEF Datagrams!Hears, Datagrams!At, Datagrams!To, Datagrams!Prints
  <2>2. Datagrams!Unix => \A e \in Askers : e # c => box'[e] = box[e]
    BY <1>3, <2>1
  <2>. QED
    BY <1>2, <1>3, <2>1, <2>2, GramSpeaks
<1>9. CASE Datagrams!Leaves(c)
  <2>1. /\ speaker' = [speaker EXCEPT ![c] = "ended"]
        /\ box' = [box EXCEPT ![c] = <<>>]
        /\ UNCHANGED <<program, inbox, received, echoer, port, err, asked>>
    BY <1>9 DEF Datagrams!Leaves, Datagrams!To
  <2>2. Datagrams!Unix => \A e \in Askers : e # c => box'[e] = box[e]
    BY <1>3, <2>1
  <2>. QED
    BY <1>2, <1>3, <2>1, <2>2, GramSpeaks
<1>10. CASE Datagrams!Receives(c)
  <2>1. CASE Datagrams!Hurts(c)
    <3>1. /\ speaker' = [speaker EXCEPT ![c] = "ended"]
          /\ err' = [err EXCEPT ![c] = "taken"]
          /\ UNCHANGED <<program, inbox, box, received, echoer, port, asked>>
      BY <1>10, <2>1 DEF Datagrams!Receives, Datagrams!At, Datagrams!To, Datagrams!Hurts
    <3>2. err' \in [Askers -> {"none", "pending", "taken"}] /\ \A e \in Askers : e # c => err'[e] = err[e]
      BY <1>2, <3>1
    <3>. QED
      BY <1>2, <1>3, <3>1, <3>2, GramSpeaks
  <2>2. CASE ~ Datagrams!Hurts(c)
    <3>1. /\ speaker[c] = "select" /\ speaker' = speaker
          /\ box[c] # <<>> /\ box' = [box EXCEPT ![c] = Tail(@)]
          /\ UNCHANGED <<program, inbox, received, echoer, port, err, asked>>
      BY <1>10, <2>2 DEF Datagrams!Receives, Datagrams!At, Datagrams!Prints
    <3>2. Datagrams!Unix => \A e \in Askers : e # c => box'[e] = box[e]
      BY <1>3, <3>1
    <3>. QED
      BY <1>2, <1>3, <1>5, <3>1, <3>2, GramSpeaks
  <2>. QED
    BY <2>1, <2>2
<1>11. CASE Datagrams!Types(c)
  <2>1. PICK to \in {"write", "sendto"} :
          /\ speaker[c] = "select" /\ speaker' = [speaker EXCEPT ![c] = to]
          /\ asked' = [asked EXCEPT ![c] = @ + 1]
          /\ UNCHANGED <<program, inbox, box, received, echoer, port, err>>
    BY <1>11 DEF Datagrams!Types, Datagrams!At, Datagrams!To, Datagrams!More, Datagrams!wire
  <2>. QED
    BY <1>2, <1>3, <1>4, <2>1, GramSpeaks
<1>12. CASE Datagrams!Speaks(c)
  <2>1. /\ UNCHANGED <<program, box, received, echoer, port, asked>>
        /\ speaker[c] \in {"write", "sendto"}
        /\ \/ /\ err' = [err EXCEPT ![c] = "taken"] /\ speaker' = [speaker EXCEPT ![c] = "ended"]
              /\ inbox' = inbox
           \/ err' = err /\ speaker' = [speaker EXCEPT ![c] = "ended"] /\ inbox' = inbox
           \/ err' = err /\ speaker' = [speaker EXCEPT ![c] = "select"] /\ Datagrams!Sends(c, asked[c])
    BY <1>12 DEF Datagrams!Speaks, Datagrams!To, Datagrams!Hurts
  <2>2. Datagrams!Unix => \/ inbox' = inbox
                          \/ \E line \in Nat : inbox' = Append(inbox, <<c, 0, line>>)
    BY <1>2, <1>3, <2>1 DEF Datagrams!Sends
  <2>3. CASE err' = [err EXCEPT ![c] = "taken"] /\ speaker' = [speaker EXCEPT ![c] = "ended"]
    <3>1. err' \in [Askers -> {"none", "pending", "taken"}] /\ \A e \in Askers : e # c => err'[e] = err[e]
      BY <1>2, <2>3
    <3>. QED
      BY <1>2, <1>3, <2>1, <2>2, <2>3, <3>1, GramSpeaks
  <2>4. CASE err' = err /\ speaker' = [speaker EXCEPT ![c] = "ended"]
    BY <1>2, <1>3, <2>1, <2>2, <2>4, GramSpeaks
  <2>5. CASE err' = err /\ speaker' = [speaker EXCEPT ![c] = "select"]
    BY <1>2, <1>3, <2>1, <2>2, <2>5, GramSpeaks
  <2>. QED
    BY <2>1, <2>3, <2>4, <2>5
<1>13. CASE Datagrams!sig_int(c)
  <2>1. /\ ~ Datagrams!Unix /\ speaker' = speaker
        /\ UNCHANGED <<program, inbox, box, received, echoer, err, asked>>
    BY <1>13 DEF Datagrams!sig_int, Datagrams!Unix, Datagrams!wire
  <2>. QED
    BY <1>2, <1>5, <2>1, GramSpeaks
<1>14. CASE Datagrams!Unreachable(c)
  <2>1. /\ speaker' = speaker /\ (err' = err \/ err' = [err EXCEPT ![c] = "pending"])
        /\ UNCHANGED <<program, inbox, box, received, echoer, port, asked>>
    BY <1>14 DEF Datagrams!Unreachable
  <2>2. /\ err' \in [Askers -> {"none", "pending", "taken"}] /\ \A e \in Askers : e # c => err'[e] = err[e]
        /\ err'[c] = "taken" => err[c] = "taken"
    BY <1>2, <2>1
  <2>. QED
    BY <1>2, <1>3, <1>5, <2>1, <2>2, GramSpeaks
<1>. QED
  BY <1>6, <1>7, <1>8, <1>9, <1>10, <1>11, <1>12, <1>13, <1>14 DEF Datagrams!Client, Datagrams!str_cli

(* Every step of the datagram programs keeps the invariant.                *)
LEMMA GramNext == GramInv /\ [Datagrams!Next]_<<program, gramVars>> => GramInv'
<1> SUFFICES ASSUME GramInv, [Datagrams!Next]_<<program, gramVars>> PROVE GramInv'
  OBVIOUS
<1>1. CASE UNCHANGED <<program, gramVars>>
  <2>1. GramTypes' /\ (Datagrams!Unix => GramUnix)
    BY <1>1 DEF gramVars, GramInv, GramTypes
  <2>2. Datagrams!Unix => GramUnix'
    BY <1>1, <2>1 DEF gramVars, GramUnix, Awaits, Datagrams!Up
  <2>. QED
    BY <1>1, <2>1, <2>2 DEF gramVars, GramInv, Datagrams!FailsForTheGone, Datagrams!Unix
<1>2. CASE Datagrams!Server
  BY <1>2, GramServer
<1>3. CASE \E c \in Askers : Datagrams!Client(c)
  BY <1>3, GramClient
<1>. QED
  BY <1>1, <1>2, <1>3 DEF Datagrams!Next

(* A run of the composition is a run of the datagram program under way.    *)
LEMMA GramRuns ==
  /\ MCInit /\ program \in Datagrams!Programs => Datagrams!Init
  /\ [MCNext]_mcVars /\ program' \in Datagrams!Programs =>
       program \in Datagrams!Programs /\ [Datagrams!Next]_<<program, gramVars>>
<1>1. MCInit /\ program \in Datagrams!Programs => Datagrams!Init
  BY DEF MCInit
<1>2. ASSUME [MCNext]_mcVars, program' \in Datagrams!Programs
      PROVE  program \in Datagrams!Programs /\ [Datagrams!Next]_<<program, gramVars>>
  <2>1. program' = program
    BY <1>2, ProgramStays DEF MCNext, mcVars
  <2>2. Datagrams!Next \/ UNCHANGED gramVars
    <3>1. program \notin Pipeline!Programs /\ program \notin EchoClients!Programs
      BY <1>2, <2>1 DEF EchoClients!Programs, EchoClients!Events, Pipeline!Programs, Pipeline!Shape,
                        Datagrams!Programs, Datagrams!Selecting
    <3>. QED
      BY <1>2, <3>1 DEF MCNext, mcVars
  <2>. QED
    BY <1>2, <2>1, <2>2
<1>. QED
  BY <1>1, <1>2

GramRunning == program \in Datagrams!Programs => GramInv

(* The invariant holds throughout the runs of the datagram programs.       *)
LEMMA GramAlways == MCSpec => []GramRunning
<1>1. MCInit => GramRunning
  BY GramRuns, GramInit DEF GramRunning
<1>2. GramRunning /\ [MCNext]_mcVars => GramRunning'
  BY GramRuns, GramNext DEF GramRunning
<1>. QED
  BY <1>1, <1>2, PTL DEF MCSpec

(* A client waits for what is under way only.                              *)
LEMMA GramAnswers ==
  GramRunning => (program \in Datagrams!Programs => Datagrams!AnswerOrError /\ Datagrams!FailsForTheGone)
<1> SUFFICES ASSUME GramInv PROVE Datagrams!AnswerOrError /\ Datagrams!FailsForTheGone
  BY DEF GramRunning
<1>. QED
  BY DEF GramInv, GramUnix, Awaits, Datagrams!AnswerOrError

-----------------------------------------------------------------------------
(* Pipeline. Who runs has just the end it needs, and who waits has none.   *)
PipePlaces == {"none", "opening", "forking", "closing", "running", "waiting", "ended", "reaped"}

PipeTypes ==
  /\ program \in Pipeline!Programs
  /\ stage \in [Pipeline!Procs -> PipePlaces]
  /\ holds \in [Pipeline!Procs -> SUBSET {"r", "w"}]
  /\ pipe \in 0 .. PipeCap

PipeHolds(p) ==
  /\ stage[p] = "waiting" => p # "reader" /\ holds[p] = {}
  /\ stage[p] \in {"none", "ended", "reaped"} => holds[p] = {}
  /\ stage[p] = "running" =>
       p # "parent" /\ holds[p] = IF p = "other" THEN {"r"} ELSE Pipeline!Keeps(p)
  /\ p = "other" => stage[p] \in {"none", "running", "ended"}

PipeInv == PipeTypes /\ \A p \in Pipeline!Procs : PipeHolds(p)

(* Only the maker has the ends of a new pipe.                              *)
LEMMA PipeInit == Pipeline!Init => PipeInv
<1> SUFFICES ASSUME Pipeline!Init PROVE PipeInv
  OBVIOUS
<1>1. PipeCap \in Nat /\ pipe = 0
  BY SyncAssumption DEF Pipeline!Init
<1>2. Pipeline!Maker \in {"writer", "parent"} /\ program \in Pipeline!Programs
  BY DEF Pipeline!Init, Pipeline!Maker, Pipeline!Programs, Pipeline!Shape, Pipeline!pipe1, Pipeline!pipe5,
         Pipeline!pipe6, Pipeline!pipe8, Pipeline!fifo1
<1>3. /\ stage = [p \in Pipeline!Procs |->
             CASE p = Pipeline!Maker -> IF program = "fifo1" THEN "opening" ELSE "forking"
               [] p = "other" /\ program = "fifo1" -> "running"
               [] OTHER -> "none"]
      /\ holds = [p \in Pipeline!Procs |->
                CASE p = Pipeline!Maker /\ program # "fifo1" -> {"r", "w"}
                  [] p = "other" /\ program = "fifo1" -> {"r"}
                  [] OTHER -> {}]
  BY DEF Pipeline!Init
<1>4. ASSUME NEW p \in Pipeline!Procs
      PROVE  stage[p] \in PipePlaces /\ holds[p] \in SUBSET {"r", "w"} /\ PipeHolds(p)
  <2>1. CASE p = Pipeline!Maker
    <3>1. p # "other"
      BY <1>2, <2>1
    <3>2. stage[p] \in {"opening", "forking"}
      BY <1>3, <2>1, <3>1
    <3>3. holds[p] \in {{"r", "w"}, {}}
      <4>1. CASE program = "fifo1"
        <5>1. holds[p] = {}
          BY <1>3, <2>1, <3>1, <4>1
        <5>. QED
          BY <5>1
      <4>2. CASE program # "fifo1"
        <5>1. holds[p] = {"r", "w"}
          BY <1>3, <2>1, <3>1, <4>2
        <5>. QED
          BY <5>1
      <4>. QED
        BY <4>1, <4>2
    <3>. QED
      BY <3>1, <3>2, <3>3 DEF PipePlaces, PipeHolds
  <2>2. CASE p # Pipeline!Maker /\ p = "other" /\ program = "fifo1"
    <3>1. stage[p] = "running" /\ holds[p] = {"r"}
      BY <1>3, <2>2
    <3>. QED
      BY <2>2, <3>1 DEF PipePlaces, PipeHolds
  <2>3. CASE p # Pipeline!Maker /\ ~ (p = "other" /\ program = "fifo1")
    <3>1. stage[p] = "none" /\ holds[p] = {}
      BY <1>3, <2>3
    <3>. QED
      BY <2>3, <3>1 DEF PipePlaces, PipeHolds
  <2>. QED
    BY <2>1, <2>2, <2>3
<1>. QED
  BY <1>1, <1>2, <1>3, <1>4 DEF PipeInv, PipeTypes

(* One process moves on, with the ends that go with its place.             *)
LEMMA PipeMoves ==
  ASSUME PipeInv, NEW p \in Pipeline!Procs, NEW to \in PipePlaces, NEW h \in SUBSET {"r", "w"},
         program' = program, pipe' \in 0 .. PipeCap,
         stage' = [stage EXCEPT ![p] = to], holds' = [holds EXCEPT ![p] = h],
         to = "waiting" => p # "reader" /\ h = {},
         to \in {"none", "ended", "reaped"} => h = {},
         to = "running" => p # "parent" /\ h = IF p = "other" THEN {"r"} ELSE Pipeline!Keeps(p),
         p = "other" => to \in {"none", "running", "ended"}
  PROVE  PipeInv'
<1>1. PipeTypes'
  BY DEF PipeInv, PipeTypes
<1>2. /\ stage'[p] = to /\ holds'[p] = h
      /\ \A q \in Pipeline!Procs : q # p => stage'[q] = stage[q] /\ holds'[q] = holds[q]
  BY DEF PipeInv, PipeTypes
<1>3. ASSUME NEW q \in Pipeline!Procs
      PROVE  PipeHolds(q)'
  <2>1. CASE q = p
    BY <1>2, <2>1 DEF PipeHolds, Pipeline!Keeps
  <2>2. CASE q # p
    <3>1. PipeHolds(q)
      BY DEF PipeInv
    <3>. QED
      BY <1>2, <2>2, <3>1 DEF PipeHolds, Pipeline!Keeps
  <2>. QED
    BY <2>1, <2>2
<1>. QED
  BY <1>1, <1>3 DEF PipeInv

(* Every step of the pipes keeps the invariant.                            *)
LEMMA PipeNext == PipeInv /\ [Pipeline!Next]_<<program, pipeVars>> => PipeInv'
<1> SUFFICES ASSUME PipeInv, [Pipeline!Next]_<<program, pipeVars>> PROVE PipeInv'
  OBVIOUS
<1>1. CASE UNCHANGED <<program, pipeVars>>
  BY <1>1 DEF pipeVars, PipeInv, PipeTypes, PipeHolds, Pipeline!Keeps
<1>2. /\ Pipeline!Maker \in {"writer", "parent"} /\ Pipeline!Maker \in Pipeline!Procs
      /\ {"writer", "reader", "parent", "other"} = Pipeline!Procs
      /\ program \in Pipeline!Programs
  BY DEF PipeInv, PipeTypes, Pipeline!Maker, Pipeline!Programs, Pipeline!Shape, Pipeline!pipe1, Pipeline!pipe5,
         Pipeline!pipe6, Pipeline!pipe8, Pipeline!fifo1, Pipeline!Procs
<1>3. /\ stage \in [Pipeline!Procs -> PipePlaces] /\ holds \in [Pipeline!Procs -> SUBSET {"r", "w"}]
      /\ pipe \in 0 .. PipeCap /\ PipeCap \in Nat
      /\ \A p \in Pipeline!Procs : PipeHolds(p)
  BY SyncAssumption DEF PipeInv, PipeTypes
<1>4. \A p \in Pipeline!Procs : stage = [stage EXCEPT ![p] = stage[p]] /\ holds = [holds EXCEPT ![p] = holds[p]]
                                /\ stage[p] \in PipePlaces /\ holds[p] \in SUBSET {"r", "w"}
  BY <1>3
<1>5. ASSUME NEW p \in Pipeline!Procs, Pipeline!Ends(p), UNCHANGED <<program, pipe>>
      PROVE  PipeInv'
  <2>1. stage' = [stage EXCEPT ![p] = "ended"] /\ holds' = [holds EXCEPT ![p] = {}]
    BY <1>5 DEF Pipeline!Ends, Pipeline!To
  <2>. QED
    BY <1>3, <1>5, <2>1, PipeMoves DEF PipePlaces
<1>6. ASSUME UNCHANGED <<program, stage, holds>>, pipe' \in 0 .. PipeCap
      PROVE  PipeInv'
  BY <1>3, <1>6 DEF PipeInv, PipeTypes, PipeHolds, Pipeline!Keeps, Pipeline!Programs
<1>7. CASE Pipeline!Opens
  <2>1. stage["parent"] = "opening" /\ UNCHANGED <<program, pipe>>
    BY <1>7 DEF Pipeline!Opens, Pipeline!At
  <2>2. \/ Pipeline!Ends("parent")
        \/ holds' = [holds EXCEPT !["parent"] = {"w"}] /\ stage' = stage
        \/ holds' = [holds EXCEPT !["parent"] = {"r", "w"}] /\ stage' = [stage EXCEPT !["parent"] = "forking"]
    BY <1>7 DEF Pipeline!Opens, Pipeline!To
  <2>3. CASE holds' = [holds EXCEPT !["parent"] = {"w"}] /\ stage' = stage
    <3>1. stage' = [stage EXCEPT !["parent"] = "opening"]
      BY <1>2, <1>4, <2>1, <2>3
    <3>. QED
      BY <1>2, <1>3, <2>1, <2>3, <3>1, PipeMoves DEF PipePlaces
  <2>4. CASE holds' = [holds EXCEPT !["parent"] = {"r", "w"}] /\ stage' = [stage EXCEPT !["parent"] = "forking"]
    BY <1>2, <1>3, <2>1, <2>4, PipeMoves DEF PipePlaces
  <2>. QED
    BY <1>2, <1>5, <2>1, <2>2, <2>3, <2>4
<1>8. CASE Pipeline!Forks
  <2>1. PICK k \in {"writer", "reader"} :
          /\ stage[Pipeline!Maker] = "forking" /\ k # Pipeline!Maker /\ UNCHANGED <<program, pipe>>
          /\ holds' = [holds EXCEPT ![k] = holds[Pipeline!Maker]]
          /\ stage' = [stage EXCEPT ![k] = "closing",
                             ![Pipeline!Maker] = IF k = "reader" THEN "closing" ELSE @]
    <3>1. PICK k : k = IF "writer" \in Pipeline!Children /\ stage["writer"] = "none"
                       THEN "writer" ELSE "reader"
      OBVIOUS
    <3>2. k \in {"writer", "reader"} /\ k # Pipeline!Maker
      BY <1>2, <3>1 DEF Pipeline!Children
    <3>. QED
      BY <1>8, <3>1, <3>2 DEF Pipeline!Forks, Pipeline!At
  <2>2. PICK m \in {"writer", "parent"} : m = Pipeline!Maker
    BY <1>2
  <2>3. /\ stage'[k] = "closing" /\ stage'[m] \in {"closing", "forking"}
        /\ \A q \in Pipeline!Procs : q \notin {k, m} => stage'[q] = stage[q]
        /\ stage' \in [Pipeline!Procs -> PipePlaces]
    BY <1>2, <1>3, <2>1, <2>2 DEF PipePlaces
  <2>4. /\ \A q \in Pipeline!Procs : q # k => holds'[q] = holds[q]
        /\ holds' \in [Pipeline!Procs -> SUBSET {"r", "w"}]
    BY <1>2, <1>3, <2>1, <2>2
  <2>5. ASSUME NEW q \in Pipeline!Procs
        PROVE  PipeHolds(q)'
    <3>1. CASE q \in {k, m}
      <4>1. stage'[q] \in {"closing", "forking"} /\ q # "other"
        BY <2>1, <2>2, <2>3, <3>1
      <4>. QED
        BY <4>1 DEF PipeHolds
    <3>2. CASE q \notin {k, m}
      <4>1. PipeHolds(q) /\ stage'[q] = stage[q] /\ holds'[q] = holds[q]
        BY <1>3, <2>3, <2>4, <3>2
      <4>. QED
        BY <4>1 DEF PipeHolds, Pipeline!Keeps
    <3>. QED
      BY <3>1, <3>2
  <2>. QED
    BY <1>2, <1>3, <2>1, <2>3, <2>4, <2>5 DEF PipeInv, PipeTypes, Pipeline!Programs
<1>9. CASE Pipeline!ForkFails
  BY <1>2, <1>5, <1>9 DEF Pipeline!ForkFails, Pipeline!At
<1>10. CASE Pipeline!Writes
  <2>1. \/ Pipeline!Ends("writer") /\ pipe' = pipe
        \/ pipe < PipeCap /\ pipe' = pipe + 1 /\ UNCHANGED <<stage, holds>>
    BY <1>10 DEF Pipeline!Writes
  <2>2. program' = program
    BY <1>10 DEF Pipeline!Writes, Pipeline!At
  <2>3. pipe < PipeCap /\ pipe' = pipe + 1 => pipe' \in 0 .. PipeCap
    BY <1>3
  <2>. QED
    BY <1>2, <1>5, <1>6, <2>1, <2>2, <2>3
<1>11. CASE Pipeline!WriterEnds
  <2>1. /\ UNCHANGED <<program, pipe>>
        /\ Pipeline!Ends("writer")
           \/ (stage' = [stage EXCEPT !["writer"] = "waiting"] /\ holds' = [holds EXCEPT !["writer"] = {}])
    BY <1>11 DEF Pipeline!WriterEnds, Pipeline!At, Pipeline!To
  <2>2. CASE stage' = [stage EXCEPT !["writer"] = "waiting"] /\ holds' = [holds EXCEPT !["writer"] = {}]
    BY <1>2, <1>3, <2>1, <2>2, PipeMoves DEF PipePlaces
  <2>. QED
    BY <1>2, <1>5, <2>1, <2>2
<1>12. CASE Pipeline!ReadsEnd
  BY <1>2, <1>5, <1>12 DEF Pipeline!ReadsEnd, Pipeline!At
<1>13. CASE Pipeline!OtherLeaves
  BY <1>2, <1>5, <1>13 DEF Pipeline!OtherLeaves, Pipeline!At
<1>14. CASE Pipeline!Waits
  <2>1. UNCHANGED <<program, pipe>>
    BY <1>14 DEF Pipeline!Waits, Pipeline!At
  <2>2. ASSUME NEW p \in Pipeline!Children, stage[p] = "ended", stage' = [stage EXCEPT ![p] = "reaped"], holds' = holds
        PROVE  PipeInv'
    <3>1. p \in Pipeline!Procs /\ p # "other"
      BY <1>2, <2>2 DEF Pipeline!Children
    <3>2. holds[p] = {} /\ holds' = [holds EXCEPT ![p] = {}]
      BY <1>3, <1>4, <2>2, <3>1 DEF PipeHolds
    <3>. QED
      BY <1>3, <2>1, <2>2, <3>1, <3>2, PipeMoves DEF PipePlaces
  <2>. QED
    BY <1>2, <1>5, <1>14, <2>1, <2>2 DEF Pipeline!Waits, Pipeline!To
<1>15. ASSUME NEW p \in Pipeline!Procs, Pipeline!Closes(p)
       PROVE  PipeInv'
  <2>1. /\ stage[p] = "closing" /\ UNCHANGED <<program, pipe, stage>>
        /\ \E x \in {"r", "w"} : holds' = [holds EXCEPT ![p] = @ \ {x}]
    BY <1>15 DEF Pipeline!Closes, Pipeline!At
  <2>2. PICK h \in SUBSET {"r", "w"} : holds' = [holds EXCEPT ![p] = h]
    BY <1>4, <2>1
  <2>3. stage' = [stage EXCEPT ![p] = "closing"] /\ p # "other"
    BY <1>3, <1>4, <2>1 DEF PipeHolds
  <2>. QED
    BY <1>3, <2>1, <2>2, <2>3, PipeMoves DEF PipePlaces
<1>16. ASSUME NEW p \in Pipeline!Procs, Pipeline!Starts(p)
       PROVE  PipeInv'
  <2>1. /\ stage[p] = "closing" /\ UNCHANGED <<program, pipe>>
        /\ holds[p] = Pipeline!Keeps(p)
        /\ \/ stage' = [stage EXCEPT ![p] = IF p = "parent" THEN "waiting" ELSE "running"] /\ holds' = holds
           \/ Pipeline!Ends(p)
    BY <1>16 DEF Pipeline!Starts, Pipeline!At, Pipeline!To
  <2>2. p # "other"
    BY <1>3, <2>1 DEF PipeHolds
  <2>3. CASE stage' = [stage EXCEPT ![p] = IF p = "parent" THEN "waiting" ELSE "running"] /\ holds' = holds
    <3>1. PICK to \in {"waiting", "running"} : to = IF p = "parent" THEN "waiting" ELSE "running"
      OBVIOUS
    <3>2. PICK h \in SUBSET {"r", "w"} : h = holds[p] /\ holds' = [holds EXCEPT ![p] = h] /\ h = Pipeline!Keeps(p)
      BY <1>4, <2>1, <2>3
    <3>3. to = "waiting" => h = {} /\ p # "reader"
      BY <3>1, <3>2 DEF Pipeline!Keeps
    <3>. QED
      BY <1>3, <2>1, <2>2, <2>3, <3>1, <3>2, <3>3, PipeMoves DEF PipePlaces
  <2>. QED
    BY <1>5, <2>1, <2>3
<1>17. ASSUME NEW p \in Pipeline!Procs, Pipeline!Reads(p)
       PROVE  PipeInv'
  <2>1. UNCHANGED <<program, stage, holds>> /\ pipe' \in 0 .. PipeCap
    BY <1>3, <1>17 DEF Pipeline!Reads, Pipeline!At
  <2>. QED
    BY <1>6, <2>1
<1>. QED
  BY <1>1, <1>7, <1>8, <1>9, <1>10, <1>11, <1>12, <1>13, <1>14, <1>15, <1>16, <1>17 DEF Pipeline!Next

(* A run of the composition is a run of the pipes under way.               *)
LEMMA PipeRuns ==
  /\ MCInit /\ program \in Pipeline!Programs => Pipeline!Init
  /\ [MCNext]_mcVars /\ program' \in Pipeline!Programs =>
       program \in Pipeline!Programs /\ [Pipeline!Next]_<<program, pipeVars>>
<1>1. MCInit /\ program \in Pipeline!Programs => Pipeline!Init
  BY DEF MCInit
<1>2. ASSUME [MCNext]_mcVars, program' \in Pipeline!Programs
      PROVE  program \in Pipeline!Programs /\ [Pipeline!Next]_<<program, pipeVars>>
  <2>1. program' = program
    BY <1>2, ProgramStays DEF MCNext, mcVars
  <2>2. Pipeline!Next \/ UNCHANGED pipeVars
    <3>1. program \notin Datagrams!Programs /\ program \notin EchoClients!Programs
      BY <1>2, <2>1 DEF EchoClients!Programs, EchoClients!Events, Pipeline!Programs, Pipeline!Shape,
                        Datagrams!Programs, Datagrams!Selecting
    <3>. QED
      BY <1>2, <3>1 DEF MCNext, mcVars
  <2>. QED
    BY <1>2, <2>1, <2>2
<1>. QED
  BY <1>1, <1>2

PipeRunning == program \in Pipeline!Programs => PipeInv

(* The invariant holds throughout the runs of the pipes.                   *)
LEMMA PipeAlways == MCSpec => []PipeRunning
<1>1. MCInit => PipeRunning
  BY PipeRuns, PipeInit DEF PipeRunning
<1>2. PipeRunning /\ [MCNext]_mcVars => PipeRunning'
  BY PipeRuns, PipeNext DEF PipeRunning
<1>. QED
  BY <1>1, <1>2, PTL DEF MCSpec

(* Who waits keeps no end that another waits for.                          *)
LEMMA PipeEnds == PipeRunning => (program \in Pipeline!Programs => Pipeline!NobodyKeepsAnEnd)
<1> SUFFICES ASSUME PipeInv PROVE Pipeline!NobodyKeepsAnEnd
  BY DEF PipeRunning
<1>1. PipeCap > 0 /\ {"writer", "reader", "parent", "other"} = Pipeline!Procs /\ \A p \in Pipeline!Procs : PipeHolds(p)
  BY SyncAssumption DEF PipeInv, Pipeline!Procs
<1>2. ASSUME Pipeline!Stands("reader"), NEW p \in Pipeline!Holders("w"), Pipeline!Stands(p)
      PROVE  FALSE
  <2>1. p \in Pipeline!Procs /\ "w" \in holds[p] /\ PipeHolds(p) /\ PipeHolds("reader")
    BY <1>1, <1>2 DEF Pipeline!Holders
  <2>2. stage["reader"] = "running" /\ pipe = 0
    BY <1>2, <2>1 DEF Pipeline!Stands, PipeHolds
  <2>3. stage[p] # "waiting"
    BY <2>1 DEF PipeHolds
  <2>4. p = "reader"
    BY <1>1, <1>2, <2>2, <2>3 DEF Pipeline!Stands
  <2>. QED
    BY <2>1, <2>2, <2>4 DEF PipeHolds, Pipeline!Keeps
<1>3. ASSUME stage["writer"] = "running", Pipeline!Stands("writer"), NEW p \in Pipeline!Holders("r"), Pipeline!Stands(p)
      PROVE  FALSE
  <2>1. p \in Pipeline!Procs /\ "r" \in holds[p] /\ PipeHolds(p) /\ PipeHolds("writer")
    BY <1>1, <1>3 DEF Pipeline!Holders
  <2>2. pipe = PipeCap
    BY <1>3 DEF Pipeline!Stands
  <2>3. stage[p] # "waiting"
    BY <2>1 DEF PipeHolds
  <2>4. p = "writer"
    BY <1>1, <1>3, <2>2, <2>3 DEF Pipeline!Stands
  <2>. QED
    BY <1>3, <2>1, <2>4 DEF PipeHolds, Pipeline!Keeps
<1>. QED
  BY <1>2, <1>3 DEF Pipeline!NobodyKeepsAnEnd

-----------------------------------------------------------------------------
(* StructExchange. The units the server has not done with, in its tmp and  *)
(* under way, w, are those of the requests r, one after the other, up to   *)
(* the last that was sent, and start where the server goes on.             *)
Requests == Seq(StructExchange!Proto)
Top(r, i) == HeaderUnits + r[i].size

Known(w, r) ==
  \A k \in DOMAIN w : w[k] \in (DOMAIN r) \X Nat /\ w[k][2] >= 1 /\ w[k][2] <= Top(r, w[k][1])

Follows(w, r) ==
  \A k \in DOMAIN w, d \in Nat :
    k + d \in DOMAIN w =>
      /\ w[k][2] + d <= Top(r, w[k][1]) => w[k + d] = <<w[k][1], w[k][2] + d>>
      /\ w[k][2] + d = Top(r, w[k][1]) + 1 => w[k + d] = <<w[k][1] + 1, 1>>

LastSent(r, a) ==
  LET n == Len(r)
  IN  IF a = "header" THEN <<n - 1, Top(r, n - 1)>>
      ELSE IF a = "content" THEN <<n, HeaderUnits>> ELSE <<n, Top(r, n)>>

Starts(w, s, p) ==
  /\ s \in {"header", "answer"} => w[1][2] = 1
  /\ s = "content" => w[1] = <<p, HeaderUnits + 1>>

(* Where the server is when nothing is left for it.                        *)
Waiting(r, a, s, p) ==
  /\ a = "content" /\ r[Len(r)].size > 0 => s = "content" /\ p = Len(r)
  /\ a = "content" /\ r[Len(r)].size = 0 => s # "content"
  /\ a \in {"input", "header", "answer"} => s # "content"

(* o is what came back of the answer or will.                              *)
Owes(w, r, a, o) ==
  a = "answer" /\ StructExchange!Answer(r[Len(r)]) > 0 => w # <<>> \/ o > 0

StructKept(w, r, a, s, p, o) ==
  /\ Known(w, r) /\ Follows(w, r)
  /\ w # <<>> => w[Len(w)] = LastSent(r, a) /\ Starts(w, s, p)
  /\ w = <<>> => Waiting(r, a, s, p)
  /\ Owes(w, r, a, o)

StructTypes ==
  /\ requests \in Requests
  /\ askerPc \in {"input", "header", "content", "answer", "gone"}
  /\ actorPc \in {"header", "content", "answer", "ended", "failed"}
  /\ askerPc \in {"header", "content", "answer"} => requests # <<>>
  /\ toServer \in Seq(Nat \X Nat) /\ tmp \in Seq(Nat \X Nat)
  /\ toAsker \in Nat /\ out \in Nat
  /\ actorPc = "content" => pto \in DOMAIN requests /\ requests[pto].size > 0
  /\ actorPc = "ended" => askerPc = "gone"

StructInv ==
  /\ StructTypes
  /\ askerPc # "gone" =>
       StructKept(tmp \o toServer, requests, askerPc, actorPc, pto,
                  toAsker + (IF actorPc = "answer" THEN out ELSE 0))

(* The sizes that were typed.                                              *)
LEMMA SizesKnown ==
  ASSUME NEW r \in Requests
  PROVE  /\ DOMAIN r = 1 .. Len(r) /\ Len(r) \in Nat
         /\ \A j \in DOMAIN r : /\ j \in Nat \ {0} /\ r[j].size \in Nat /\ StructExchange!Answer(r[j]) \in Nat
                                /\ r[j].size = 0 => StructExchange!Answer(r[j]) = 0
                                /\ Top(r, j) \in Nat /\ Top(r, j) >= HeaderUnits
                                /\ Top(r, j) = HeaderUnits <=> r[j].size = 0
<1>1. DOMAIN r = 1 .. Len(r) /\ Len(r) \in Nat
  BY DEF Requests
<1>2. ASSUME NEW j \in DOMAIN r
      PROVE  j \in Nat \ {0} /\ r[j].size \in Nat /\ r[j].prints \in Nat
  <2>1. r[j] \in StructExchange!Proto
    BY DEF Requests
  <2>2. \A x \in StructExchange!Proto : x.size \in Nat /\ x.prints \in Nat
    BY DEF StructExchange!Proto
  <2>. QED
    BY <1>1, <2>1, <2>2
<1>3. ASSUME NEW j \in DOMAIN r
      PROVE  StructExchange!Answer(r[j]) \in Nat /\ (r[j].size = 0 => StructExchange!Answer(r[j]) = 0)
  BY <1>2 DEF StructExchange!Answer
<1>4. ASSUME NEW j \in DOMAIN r
      PROVE  Top(r, j) \in Nat /\ Top(r, j) >= HeaderUnits /\ (Top(r, j) = HeaderUnits <=> r[j].size = 0)
  BY <1>2, SyncAssumption DEF Top
<1>. QED
  BY <1>1, <1>2, <1>3, <1>4

(* u is what is left of w when its first n units are taken.                *)
RestOf(w, u, n) == Len(w) = n + Len(u) /\ \A k \in DOMAIN u : u[k] = w[n + k]

(* What is left of the stream is as good as it was.                        *)
LeftOver(w, u, r, n) ==
  /\ Known(u, r) /\ Follows(u, r)
  /\ u # <<>> => w # <<>> /\ u[Len(u)] = w[Len(w)] /\ n + 1 \in DOMAIN w /\ u[1] = w[n + 1]

(* What is left of a stream when its first n units are gone is as orderly  *)
(* as it was.                                                              *)
LEMMA RestFollows ==
  ASSUME NEW r \in Requests, NEW w \in Seq(Nat \X Nat), NEW u \in Seq(Nat \X Nat), NEW n \in Nat,
         RestOf(w, u, n), Known(w, r), Follows(w, r)
  PROVE  LeftOver(w, u, r, n)
<1>0. PICK m \in Nat : m = Len(u) /\ DOMAIN u = 1 .. m /\ DOMAIN w = 1 .. (n + m)
  BY LenProperties DEF RestOf
<1>1. \A k \in DOMAIN u : k \in Nat /\ n + k \in DOMAIN w /\ u[k] = w[n + k]
  <2>1. \A k \in 1 .. m : k \in Nat /\ n + k \in 1 .. (n + m)
    OBVIOUS
  <2>. QED
    BY <1>0, <2>1 DEF RestOf
<1>2. Known(u, r)
  BY <1>1 DEF Known
<1>3. ASSUME NEW k \in DOMAIN u, NEW d \in Nat, k + d \in DOMAIN u
      PROVE  /\ u[k][2] + d <= Top(r, u[k][1]) => u[k + d] = <<u[k][1], u[k][2] + d>>
             /\ u[k][2] + d = Top(r, u[k][1]) + 1 => u[k + d] = <<u[k][1] + 1, 1>>
  <2>1. PICK e \in Nat : e = n + k /\ e \in DOMAIN w /\ u[k] = w[e]
    BY <1>1
  <2>2. e + d = n + (k + d) /\ e + d \in DOMAIN w /\ u[k + d] = w[e + d]
    <3>1. PICK f \in Nat : f = k
      BY <1>1
    <3>2. e + d = n + (f + d)
      BY <2>1, <3>1
    <3>. QED
      BY <1>1, <1>3, <3>1, <3>2, Zenon
  <2>3. /\ w[e][2] + d <= Top(r, w[e][1]) => w[e + d] = <<w[e][1], w[e][2] + d>>
        /\ w[e][2] + d = Top(r, w[e][1]) + 1 => w[e + d] = <<w[e][1] + 1, 1>>
    BY <2>1, <2>2, Zenon DEF Follows
  <2>. QED
    BY <2>1, <2>2, <2>3, Zenon
<1>4. Follows(u, r)
  BY <1>3, Zenon DEF Follows
<1>5. ASSUME u # <<>>
      PROVE  w # <<>> /\ u[Len(u)] = w[Len(w)] /\ n + 1 \in DOMAIN w /\ u[1] = w[n + 1]
  <2>1. 1 \in DOMAIN u /\ Len(u) \in DOMAIN u
    BY <1>5
  <2>2. u[1] = w[n + 1] /\ u[Len(u)] = w[n + Len(u)] /\ n + 1 \in DOMAIN w
    BY <1>1, <2>1, Zenon
  <2>. QED
    BY <2>2 DEF RestOf
<1>. QED
  BY <1>2, <1>4, <1>5, Zenon DEF LeftOver

(* The units from one place of a request to another.                       *)
Run(u, i, a, m) == u \in Seq(Nat \X Nat) /\ Len(u) = m /\ \A k \in 1 .. m : u[k] = <<i, a + k - 1>>

(* Units i, a to b are those of record i from a, one after the other.      *)
LEMMA UnitsAre ==
  ASSUME NEW i \in Nat, NEW a \in Nat, NEW b \in Nat, a <= b + 1
  PROVE  Run(StructExchange!Units(i, a, b), i, a, b + 1 - a)
<1>1. PICK u : u = StructExchange!Units(i, a, b)
  BY Zenon
<1>2. PICK m \in Nat : m = b - a + 1 /\ m = b + 1 - a
  OBVIOUS
<1>3. u = [k \in 1 .. m |-> <<i, a + k - 1>>]
  BY <1>1, <1>2 DEF StructExchange!Units
<1>4. \A k \in 1 .. m : a + k - 1 \in Nat
  OBVIOUS
<1>5. u \in [1 .. m -> Nat \X Nat] /\ \A k \in 1 .. m : u[k] = <<i, a + k - 1>>
  BY <1>3, <1>4
<1>6. u \in Seq(Nat \X Nat) /\ Len(u) = m
  BY <1>5
<1>. QED
  BY <1>1, <1>2, <1>5, <1>6, Zenon DEF Run

(* The first of the units of request i from place a on is the next in w.   *)
IsNext(w, r, i, a) ==
  w # <<>> => \/ a = 1 /\ i - 1 \in DOMAIN r /\ w[Len(w)] = <<i - 1, Top(r, i - 1)>>
              \/ w[Len(w)] = <<i, a - 1>>

Part(r, i, a, b) == 1 <= a /\ a <= b + 1 /\ b <= Top(r, i)

Joined(x, w, i, a, b) == x = w \o StructExchange!Units(i, a, b)

(* One sequence behind another.                                            *)
Behind(w, u, x) ==
  /\ x \in Seq(Nat \X Nat) /\ Len(x) = Len(w) + Len(u) /\ DOMAIN x = 1 .. Len(w) + Len(u)
  /\ \A k \in 1 .. Len(w) : x[k] = w[k]
  /\ \A k \in 1 .. Len(u) : x[Len(w) + k] = u[k]

(* One sequence behind another.                                            *)
LEMMA JoinedAre ==
  ASSUME NEW w \in Seq(Nat \X Nat), NEW u \in Seq(Nat \X Nat)
  PROVE  Behind(w, u, w \o u)
<1>1. PICK x : x = w \o u
  OBVIOUS
<1>2. x \in Seq(Nat \X Nat) /\ Len(x) = Len(w) + Len(u)
  BY <1>1
<1>3. DOMAIN x = 1 .. Len(w) + Len(u)
  BY <1>2
<1>4. ASSUME NEW k \in 1 .. Len(w) PROVE x[k] = w[k]
  BY <1>1
<1>5. ASSUME NEW k \in 1 .. Len(u) PROVE x[Len(w) + k] = u[k]
  BY <1>1
<1>. QED
  BY <1>1, <1>2, <1>3, <1>4, <1>5, Zenon DEF Behind

(* One place of the stream and another, d further.                         *)
Further(y, z, d, r) ==
  /\ y[2] + d <= Top(r, y[1]) => z = <<y[1], y[2] + d>>
  /\ y[2] + d = Top(r, y[1]) + 1 => z = <<y[1] + 1, 1>>

(* Across the seam: a place j, c of a stream that ends f further with q,   *)
(* and the e-th unit that was added.                                       *)
LEMMA Across ==
  ASSUME NEW r, NEW i \in Nat, NEW j \in Nat, NEW c \in Nat, NEW f \in Nat, NEW e \in Nat, NEW a \in Nat,
         NEW b \in Nat, NEW q, NEW t \in Nat, NEW s \in Nat, s = Top(r, j), t = Top(r, i),
         e >= 1, a >= 1, a + e - 1 <= b, b <= t,
         Further(<<j, c>>, q, f, r),
         \/ a = 1 /\ q = <<i - 1, Top(r, i - 1)>>
         \/ q = <<i, a - 1>>
  PROVE  Further(<<j, c>>, <<i, a + e - 1>>, f + e, r)
<1>1. c + f <= s => q = <<j, c + f>>
  BY DEF Further
<1>2. PICK v \in Nat : v = a + e - 1
  <2>1. a + e - 1 \in Nat
    OBVIOUS
  <2>. QED
    BY <2>1
<1>3. c + (f + e) <= s + 1 => c + f <= s
  OBVIOUS
<1>4. CASE a = 1 /\ q = <<i - 1, Top(r, i - 1)>>
  <2>1. ASSUME c + f <= s
        PROVE  j = i - 1 /\ c + f = s
    <3>1. <<j, c + f>> = <<i - 1, Top(r, i - 1)>>
      BY <1>1, <1>4, <2>1, Zenon
    <3>2. j = i - 1 /\ c + f = Top(r, i - 1)
      BY <3>1, Zenon
    <3>. QED
      BY <3>2, Zenon
  <2>2. ~ (c + (f + e) <= s)
    BY <1>3, <2>1
  <2>3. c + (f + e) = s + 1 => v = 1 /\ j + 1 = i
    BY <1>2, <1>3, <1>4, <2>1
  <2>. QED
    BY <1>2, <2>2, <2>3, Zenon DEF Further
<1>5. CASE q = <<i, a - 1>>
  <2>1. ASSUME c + f <= s
        PROVE  j = i /\ c + f = a - 1 /\ s = t
    <3>1. <<j, c + f>> = <<i, a - 1>>
      BY <1>1, <1>5, <2>1, Zenon
    <3>2. j = i /\ c + f = a - 1
      BY <3>1, Zenon
    <3>. QED
      BY <3>2, Zenon
  <2>2. c + (f + e) <= s => j = i /\ c + (f + e) = v
    BY <1>2, <1>3, <2>1
  <2>3. c + (f + e) # s + 1
    BY <1>2, <1>3, <2>1
  <2>. QED
    BY <1>2, <2>2, <2>3, Zenon DEF Further
<1>. QED
  BY <1>4, <1>5

(* What has come to a stream.                                              *)
Added(w, x, r, i, a, b) ==
  /\ x \in Seq(Nat \X Nat) /\ Known(x, r) /\ Follows(x, r)
  /\ w # <<>> => x # <<>> /\ x[1] = w[1]
  /\ w = <<>> /\ a <= b => x[1] = <<i, a>>
  /\ a <= b => x # <<>> /\ x[Len(x)] = <<i, b>>
  /\ a = b + 1 => x = w

(* Units of a request that follow the last of the stream.                  *)
LEMMA MoreFollow ==
  ASSUME NEW r \in Requests, NEW w \in Seq(Nat \X Nat), Known(w, r), Follows(w, r),
         NEW i \in DOMAIN r, NEW a \in Nat, NEW b \in Nat, Part(r, i, a, b), IsNext(w, r, i, a)
  PROVE  Added(w, w \o StructExchange!Units(i, a, b), r, i, a, b)
<1>1. PICK u, x : u = StructExchange!Units(i, a, b) /\ x = w \o u
  BY Zenon
<1>3. i \in Nat /\ Top(r, i) \in Nat /\ \A j \in DOMAIN r : j \in Nat /\ Top(r, j) \in Nat
  BY SizesKnown
<1>t. PICK t \in Nat : t = Top(r, i)
  BY <1>3
<1>2. PICK m \in Nat : m = b + 1 - a /\ 1 <= a /\ a <= b + 1 /\ b <= t
  <2>1. 1 <= a /\ a <= b + 1 /\ b <= t
    BY <1>t DEF Part
  <2>2. b + 1 - a \in Nat
    BY <2>1
  <2>. QED
    BY <2>1, <2>2
<1>4. u \in Seq(Nat \X Nat) /\ Len(u) = m /\ \A k \in 1 .. m : u[k] = <<i, a + k - 1>>
  <2>1. a <= b + 1
    BY <1>2
  <2>2. Run(StructExchange!Units(i, a, b), i, a, b + 1 - a)
    BY <1>3, <2>1, UnitsAre
  <2>. QED
    BY <1>1, <1>2, <2>2, Zenon DEF Run
<1>5. PICK n \in Nat : n = Len(w) /\ DOMAIN w = 1 .. n
  BY LenProperties
<1>6. /\ x \in Seq(Nat \X Nat) /\ Len(x) = n + m
      /\ \A k \in 1 .. n : x[k] = w[k]
      /\ \A k \in 1 .. m : x[n + k] = u[k]
      /\ DOMAIN x = 1 .. n + m
  <2>1. Behind(w, u, x)
    BY <1>1, <1>4, JoinedAre, Zenon
  <2>. QED
    BY <1>4, <1>5, <2>1, Zenon DEF Behind
<1>7. \A k \in 1 .. m : x[n + k] = <<i, a + k - 1>>
  BY <1>4, <1>6, Zenon
<1>8. \A k \in 1 .. n + m : k \in Nat /\ (k \in 1 .. n \/ \E e \in Nat : e \in 1 .. m /\ k = n + e)
  <2>1. ASSUME NEW k \in 1 .. n + m, k \notin 1 .. n
        PROVE  \E e \in Nat : e \in 1 .. m /\ k = n + e
    <3>1. k - n \in Nat /\ k - n \in 1 .. m /\ k = n + (k - n)
      BY <2>1
    <3>. QED
      BY <3>1, Zenon
  <2>2. \A k \in 1 .. n + m : k \in Nat
    OBVIOUS
  <2>. QED
    BY <2>1, <2>2, Zenon
<1>k. \A k \in DOMAIN w : /\ w[k] \in (DOMAIN r) \X Nat
                          /\ w[k][2] >= 1 /\ w[k][2] <= Top(r, w[k][1])
  BY Zenon DEF Known
<1>9. Known(x, r)
  <2>1. ASSUME NEW k \in 1 .. n
        PROVE  x[k] \in (DOMAIN r) \X Nat /\ x[k][2] >= 1 /\ x[k][2] <= Top(r, x[k][1])
    BY <1>5, <1>6, <1>k, Zenon
  <2>2. ASSUME NEW e \in Nat, e \in 1 .. m
        PROVE  x[n + e] \in (DOMAIN r) \X Nat /\ x[n + e][2] >= 1 /\ x[n + e][2] <= Top(r, x[n + e][1])
    <3>1. PICK c \in Nat : c = a + e - 1 /\ c >= 1 /\ c <= t
      <4>1. a + e - 1 \in Nat /\ a + e - 1 >= 1 /\ a + e - 1 <= t
        BY <1>2, <2>2
      <4>. QED
        BY <4>1
    <3>2. x[n + e] = <<i, c>>
      BY <1>7, <2>2, <3>1, Zenon
    <3>3. <<i, c>>[1] = i /\ <<i, c>>[2] = c /\ <<i, c>> \in (DOMAIN r) \X Nat
      OBVIOUS
    <3>. QED
      BY <1>t, <3>1, <3>2, <3>3, Zenon
  <2>3. \A k \in 1 .. n + m : x[k] \in (DOMAIN r) \X Nat /\ x[k][2] >= 1 /\ x[k][2] <= Top(r, x[k][1])
    BY <1>8, <2>1, <2>2, Zenon
  <2>. QED
    BY <1>6, <2>3, Zenon DEF Known
<1>10. ASSUME NEW k \in Nat, NEW d \in Nat, k \in 1 .. n + m, k + d \in 1 .. n + m
       PROVE  Further(x[k], x[k + d], d, r)
  <2>f. \A l \in DOMAIN w, g \in Nat : l + g \in DOMAIN w => Further(w[l], w[l + g], g, r)
    BY Zenon DEF Follows, Further
  <2>1. CASE k + d \in 1 .. n
    <3>1. k \in 1 .. n
      BY <1>10, <2>1
    <3>2. k \in DOMAIN w /\ k + d \in DOMAIN w /\ x[k] = w[k] /\ x[k + d] = w[k + d]
      BY <1>5, <1>6, <2>1, <3>1, Zenon
    <3>. QED
      BY <2>f, <3>2, Zenon
  <2>2. CASE k \notin 1 .. n
    <3>1. PICK e \in Nat : e \in 1 .. m /\ k = n + e
      BY <1>8, <1>10, <2>2, Zenon
    <3>2. e + d \in 1 .. m /\ k + d = n + (e + d)
      BY <1>10, <3>1
    <3>3. PICK c \in Nat : c = a + e - 1 /\ c + d = a + (e + d) - 1 /\ c + d <= t
      <4>1. a + e - 1 \in Nat /\ (a + e - 1) + d = a + (e + d) - 1 /\ (a + e - 1) + d <= t
        BY <1>2, <3>1, <3>2
      <4>. QED
        BY <4>1
    <3>4. x[k] = <<i, c>> /\ x[k + d] = <<i, c + d>>
      BY <1>7, <3>1, <3>2, <3>3, Zenon
    <3>5. c + d # t + 1
      BY <3>3
    <3>6. <<i, c>>[1] = i /\ <<i, c>>[2] = c
      OBVIOUS
    <3>. QED
      BY <1>t, <3>4, <3>5, <3>6, Zenon DEF Further
  <2>3. CASE k \in 1 .. n /\ k + d \notin 1 .. n
    <3>1. PICK e \in Nat : e \in 1 .. m /\ k + d = n + e
      BY <1>8, <1>10, <2>3, Zenon
    <3>2. PICK f \in Nat : k + f = n /\ d = f + e
      <4>1. n - k \in Nat /\ k + (n - k) = n /\ d = (n - k) + e
        BY <2>3, <3>1
      <4>. QED
        BY <4>1
    <3>n. n \in 1 .. n
      BY <2>3
    <3>3. k \in DOMAIN w /\ k + f \in DOMAIN w /\ k + f = Len(w) /\ x[k] = w[k]
      BY <1>5, <1>6, <2>3, <3>2, <3>n, Zenon
    <3>w. w # <<>>
      BY <1>5, <3>n
    <3>4. PICK j \in DOMAIN r, c \in Nat : w[k] = <<j, c>>
      <4>1. w[k] \in (DOMAIN r) \X Nat
        BY <1>k, <3>3, Zenon
      <4>2. \A v \in (DOMAIN r) \X Nat : \E j \in DOMAIN r, c \in Nat : v = <<j, c>>
        OBVIOUS
      <4>. QED
        BY <4>1, <4>2, Zenon
    <3>5. Further(<<j, c>>, w[Len(w)], f, r)
      BY <2>f, <3>3, <3>4, Zenon
    <3>6. x[k + d] = <<i, a + e - 1>>
      BY <1>7, <3>1, Zenon
    <3>7. e >= 1 /\ a >= 1 /\ a + e - 1 <= b /\ j \in Nat /\ Top(r, j) \in Nat /\ i \in Nat /\ b <= t
      BY <1>2, <1>3, <3>1
    <3>8. PICK s \in Nat : s = Top(r, j)
      BY <3>7, Zenon
    <3>9. \/ a = 1 /\ w[Len(w)] = <<i - 1, Top(r, i - 1)>>
          \/ w[Len(w)] = <<i, a - 1>>
      BY <3>w, Zenon DEF IsNext
    <3>10. Further(<<j, c>>, <<i, a + e - 1>>, f + e, r)
      BY <1>t, <3>5, <3>7, <3>8, <3>9, Across, Zenon
    <3>. QED
      BY <3>2, <3>3, <3>4, <3>6, <3>10, Zenon
  <2>4. k \in 1 .. n \/ k \notin 1 .. n
    OBVIOUS
  <2>. QED
    BY <2>1, <2>2, <2>3, <2>4, Zenon
<1>11. Follows(x, r)
  <2>1. \A k \in DOMAIN x, d \in Nat : k + d \in DOMAIN x => Further(x[k], x[k + d], d, r)
    BY <1>6, <1>8, <1>10, Zenon
  <2>. QED
    BY <2>1, Zenon DEF Follows, Further
<1>12. w # <<>> => x # <<>> /\ x[1] = w[1]
  <2>1. ASSUME w # <<>>
        PROVE  1 \in 1 .. n /\ n + m > 0
    BY <1>5, <2>1
  <2>2. x = <<>> => Len(x) = 0
    OBVIOUS
  <2>3. n + m > 0 => n + m # 0
    OBVIOUS
  <2>. QED
    BY <1>6, <2>1, <2>2, <2>3, Zenon
<1>13. ASSUME a <= b
       PROVE  x # <<>> /\ x[Len(x)] = <<i, b>> /\ (w = <<>> => x[1] = <<i, a>>)
  <2>1. m >= 1 /\ 1 \in 1 .. m /\ m \in 1 .. m /\ a + m - 1 = b /\ a + 1 - 1 = a /\ n + m # 0
    BY <1>2, <1>13
  <2>2. x[n + m] = <<i, b>>
    BY <1>7, <2>1, Zenon
  <2>3. x[n + 1] = <<i, a>>
    BY <1>7, <2>1, Zenon
  <2>4. w = <<>> => n + 1 = 1
    BY <1>5
  <2>5. x = <<>> => Len(x) = 0
    OBVIOUS
  <2>. QED
    BY <1>6, <2>1, <2>2, <2>3, <2>4, <2>5, Zenon
<1>14. ASSUME a = b + 1
       PROVE  x = w
  <2>1. m = 0
    BY <1>2, <1>14
  <2>2. u = <<>>
    BY <1>4, <2>1
  <2>. QED
    BY <1>1, <2>2
<1>. QED
  BY <1>1, <1>6, <1>9, <1>11, <1>12, <1>13, <1>14, Zenon DEF Added

(* The client has sent a header.                                           *)
LEMMA SentHeader ==
  ASSUME NEW r \in Requests, r # <<>>, NEW w \in Seq(Nat \X Nat), NEW s, NEW p, NEW o, NEW o2,
         StructKept(w, r, "header", s, p, o)
  PROVE  StructKept(w \o StructExchange!Units(Len(r), 1, HeaderUnits), r, "content", s, p, o2)
<1>0. PICK x : x = w \o StructExchange!Units(Len(r), 1, HeaderUnits)
  OBVIOUS
<1>1. PICK n \in Nat : x = w \o StructExchange!Units(Len(r), 1, HeaderUnits) /\ n = Len(r)
  BY <1>0, LenProperties DEF Requests
<1>2. n \in DOMAIN r
  BY <1>1 DEF Requests
<1>3. Top(r, n) \in Nat /\ Top(r, n) >= HeaderUnits
  BY <1>2, SizesKnown
<1>4. HeaderUnits \in Nat /\ HeaderUnits >= 1 /\ 1 <= HeaderUnits + 1
  BY SyncAssumption
<1>5. Known(w, r) /\ Follows(w, r) /\ (w # <<>> => w[Len(w)] = <<n - 1, Top(r, n - 1)>>)
  BY <1>1, Zenon DEF StructKept, LastSent
<1>6. IsNext(w, r, n, 1)
  <2>1. ASSUME w # <<>>
        PROVE  n - 1 \in DOMAIN r
    <3>1. Len(w) \in DOMAIN w
      BY <2>1
    <3>2. <<n - 1, Top(r, n - 1)>> \in (DOMAIN r) \X Nat
      BY <1>5, <2>1, <3>1, Zenon DEF Known
    <3>. QED
      BY <3>2
  <2>. QED
    BY <1>5, <2>1, Zenon DEF IsNext
<1>7. Part(r, n, 1, HeaderUnits)
  BY <1>3, <1>4 DEF Part
<1>8. Added(w, x, r, n, 1, HeaderUnits)
  BY <1>1, <1>2, <1>4, <1>5, <1>6, <1>7, MoreFollow
<1>9. /\ Known(x, r) /\ Follows(x, r) /\ x # <<>> /\ x[Len(x)] = <<n, HeaderUnits>>
      /\ w # <<>> => x[1] = w[1]
      /\ w = <<>> => x[1] = <<n, 1>>
  BY <1>4, <1>8, Zenon DEF Added
<1>10. Starts(x, s, p)
  <2>1. CASE w # <<>>
    BY <1>9, <2>1, Zenon DEF StructKept, Starts
  <2>2. CASE w = <<>>
    <3>1. s # "content"
      BY <2>2, Zenon DEF StructKept, Waiting
    <3>2. <<n, 1>>[2] = 1
      OBVIOUS
    <3>. QED
      BY <1>9, <2>2, <3>1, <3>2, Zenon DEF Starts
  <2>. QED
    BY <2>1, <2>2, Zenon
<1>11. "content" # "header" /\ "content" # "answer"
  OBVIOUS
<1>. QED
  BY <1>1, <1>9, <1>10, <1>11, Zenon DEF StructKept, LastSent, Owes

(* And a content, which may be empty.                                      *)
LEMMA SentContent ==
  ASSUME NEW r \in Requests, r # <<>>, NEW w \in Seq(Nat \X Nat), NEW s, NEW p, NEW o, NEW o2,
         StructKept(w, r, "content", s, p, o)
  PROVE  StructKept(w \o StructExchange!Units(Len(r), HeaderUnits + 1, HeaderUnits + r[Len(r)].size),
                    r, "answer", s, p, o2)
<1>0. PICK x : x = w \o StructExchange!Units(Len(r), HeaderUnits + 1, HeaderUnits + r[Len(r)].size)
  OBVIOUS
<1>1. PICK n \in Nat, a \in Nat, b \in Nat :
        /\ n = Len(r) /\ a = HeaderUnits + 1 /\ b = HeaderUnits + r[n].size
        /\ x = w \o StructExchange!Units(Len(r), HeaderUnits + 1, HeaderUnits + r[Len(r)].size)
  <2>1. Len(r) \in DOMAIN r /\ Len(r) \in Nat
    BY DEF Requests
  <2>2. HeaderUnits + 1 \in Nat /\ HeaderUnits + r[Len(r)].size \in Nat
    BY <2>1, SizesKnown, SyncAssumption
  <2>. QED
    BY <1>0, <2>1, <2>2, Zenon
<1>2. n \in DOMAIN r
  BY <1>1 DEF Requests
<1>3. Top(r, n) = b /\ r[n].size \in Nat /\ HeaderUnits \in Nat
  BY <1>1, <1>2, SizesKnown, SyncAssumption DEF Top
<1>4. /\ a >= 1 /\ a <= b + 1 /\ b <= Top(r, n) /\ a - 1 = HeaderUnits
      /\ r[n].size = 0 => a = b + 1 /\ Top(r, n) = HeaderUnits
      /\ r[n].size # 0 => a <= b /\ r[n].size > 0
  <2>1. PICK h \in Nat, z \in Nat : h = HeaderUnits /\ z = r[n].size /\ a = h + 1 /\ b = h + z
    BY <1>1, <1>3, Zenon
  <2>2. /\ a >= 1 /\ a <= b + 1 /\ b <= b /\ a - 1 = h
        /\ z = 0 => a = b + 1 /\ b = h
        /\ z # 0 => a <= b /\ z > 0
    BY <2>1
  <2>. QED
    BY <1>3, <2>1, <2>2, Zenon
<1>5. Known(w, r) /\ Follows(w, r) /\ (w # <<>> => w[Len(w)] = <<n, HeaderUnits>>)
  <2>1. "content" # "header"
    OBVIOUS
  <2>. QED
    BY <1>1, <2>1, Zenon DEF StructKept, LastSent
<1>6. IsNext(w, r, n, a)
  BY <1>4, <1>5, Zenon DEF IsNext
<1>7. Part(r, n, a, b)
  BY <1>4 DEF Part
<1>8. Added(w, x, r, n, a, b)
  BY <1>1, <1>2, <1>5, <1>6, <1>7, MoreFollow
<1>9. Known(x, r) /\ Follows(x, r)
  BY <1>8, Zenon DEF Added
<1>10. LastSent(r, "answer") = <<n, Top(r, n)>>
  BY <1>1 DEF LastSent
<1>11. CASE r[n].size = 0
  <2>1. x = w
    BY <1>4, <1>8, <1>11, Zenon DEF Added
  <2>2. w # <<>> => w[Len(w)] = LastSent(r, "answer") /\ Starts(w, s, p)
    BY <1>4, <1>5, <1>10, <1>11, Zenon DEF StructKept
  <2>3. w = <<>> => Waiting(r, "answer", s, p)
    BY <1>1, <1>11, Zenon DEF StructKept, Waiting
  <2>4. Owes(w, r, "answer", o2)
    <3>1. StructExchange!Answer(r[n]) = 0
      BY <1>2, <1>11, SizesKnown
    <3>. QED
      BY <1>1, <3>1 DEF Owes
  <2>. QED
    BY <1>1, <1>9, <2>1, <2>2, <2>3, <2>4, Zenon DEF StructKept
<1>12. CASE r[n].size # 0
  <2>1. /\ x # <<>> /\ x[Len(x)] = <<n, b>>
        /\ w # <<>> => x[1] = w[1]
        /\ w = <<>> => x[1] = <<n, a>>
    BY <1>4, <1>8, <1>12, Zenon DEF Added
  <2>2. Starts(x, s, p)
    <3>1. CASE w # <<>>
      BY <2>1, <3>1, Zenon DEF StructKept, Starts
    <3>2. CASE w = <<>>
      <4>1. s = "content" /\ p = n
        BY <1>1, <1>4, <1>12, <3>2, Zenon DEF StructKept, Waiting
      <4>2. "content" \notin {"header", "answer"}
        OBVIOUS
      <4>. QED
        BY <1>1, <2>1, <3>2, <4>1, <4>2, Zenon DEF Starts
    <3>. QED
      BY <3>1, <3>2, Zenon
  <2>3. Owes(x, r, "answer", o2)
    BY <2>1, Zenon DEF Owes
  <2>. QED
    BY <1>1, <1>3, <1>9, <1>10, <2>1, <2>2, <2>3, Zenon DEF StructKept
<1>. QED
  BY <1>11, <1>12, Zenon

(* The client has its answer and asks again.                               *)
LEMMA Asks ==
  ASSUME NEW r \in Requests, NEW w \in Seq(Nat \X Nat), NEW s, NEW p, NEW o, NEW o2,
         StructKept(w, r, "answer", s, p, o)
  PROVE  StructKept(w, r, "input", s, p, o2)
<1>1. LastSent(r, "input") = LastSent(r, "answer") /\ "input" # "answer" /\ "input" # "content"
  BY DEF LastSent
<1>2. Waiting(r, "answer", s, p) => Waiting(r, "input", s, p)
  BY <1>1 DEF Waiting
<1>. QED
  BY <1>1, <1>2, Zenon DEF StructKept, Owes

(* Another request.                                                        *)
LEMMA OneMoreRequest ==
  ASSUME NEW r \in Requests, NEW q \in StructExchange!Proto, NEW w \in Seq(Nat \X Nat),
         NEW s, NEW p, NEW o, StructKept(w, r, "input", s, p, o)
  PROVE  /\ Append(r, q) \in Requests /\ Append(r, q) # <<>>
         /\ \A j \in DOMAIN r : j \in DOMAIN Append(r, q) /\ Append(r, q)[j] = r[j]
         /\ StructKept(w, Append(r, q), "header", s, p, o)
<1>1. PICK x : x = Append(r, q)
  OBVIOUS
<1>2. PICK n \in Nat : n = Len(r)
  BY LenProperties DEF Requests
<1>3. x \in Requests /\ x # <<>> /\ Len(x) = n + 1 /\ Len(x) - 1 = n
  BY <1>1, <1>2 DEF Requests
<1>4. \A j \in DOMAIN r : j \in DOMAIN x /\ x[j] = r[j]
  BY <1>1 DEF Requests
<1>5. \A j \in DOMAIN r : Top(x, j) = Top(r, j)
  BY <1>4, Zenon DEF Top
<1>7. \A k \in DOMAIN w : w[k][1] \in DOMAIN r /\ w[k] \in (DOMAIN x) \X Nat
  <2>1. \A v \in (DOMAIN r) \X Nat : v[1] \in DOMAIN r /\ v \in (DOMAIN x) \X Nat
    BY <1>4
  <2>. QED
    BY <2>1, Zenon DEF StructKept, Known
<1>8. Known(w, x)
  BY <1>5, <1>7, Zenon DEF StructKept, Known
<1>9. Follows(w, x)
  BY <1>5, <1>7, Zenon DEF StructKept, Follows
<1>10. ASSUME w # <<>>
       PROVE  w[Len(w)] = LastSent(x, "header") /\ Starts(w, s, p)
  <2>1. Len(w) \in DOMAIN w
    BY <1>10
  <2>2. w[Len(w)] = <<n, Top(r, n)>>
    BY <1>2, <1>10 DEF StructKept, LastSent
  <2>3. n \in DOMAIN r
    <3>1. <<n, Top(r, n)>>[1] = n
      OBVIOUS
    <3>. QED
      BY <1>7, <2>1, <2>2, <3>1, Zenon
  <2>4. LastSent(x, "header") = <<n, Top(x, n)>>
    BY <1>3, Zenon DEF LastSent
  <2>. QED
    BY <1>5, <1>10, <2>2, <2>3, <2>4, Zenon DEF StructKept
<1>11. ASSUME w = <<>>
       PROVE  Waiting(x, "header", s, p)
  <2>1. s # "content"
    BY <1>11, Zenon DEF StructKept, Waiting
  <2>2. "header" # "content"
    OBVIOUS
  <2>. QED
    BY <2>1, <2>2, Zenon DEF Waiting
<1>12. Owes(w, x, "header", o)
  BY DEF Owes
<1>. QED
  BY <1>1, <1>3, <1>4, <1>8, <1>9, <1>10, <1>11, <1>12, Zenon DEF StructKept

(* The server has the header of request i, which stood first.              *)
LEMMA HeaderTaken ==
  ASSUME NEW r \in Requests, NEW w \in Seq(Nat \X Nat), NEW u \in Seq(Nat \X Nat),
         NEW c, NEW p, NEW o, c \in {"header", "content", "answer"} => r # <<>>,
         StructKept(w, r, c, "header", p, o), RestOf(w, u, HeaderUnits),
         NEW i \in DOMAIN r, w[HeaderUnits] = <<i, HeaderUnits>>
  PROVE  StructKept(u, r, c, IF r[i].size = 0 THEN "header" ELSE "content", i, o)
<1>1. PICK h \in Nat, t \in Nat : h = HeaderUnits /\ t = Top(r, i) /\ h >= 1 /\ t >= h /\ (t = h <=> r[i].size = 0)
  <2>1. HeaderUnits \in Nat /\ HeaderUnits >= 1
    BY SyncAssumption
  <2>2. Top(r, i) \in Nat /\ Top(r, i) >= HeaderUnits /\ (Top(r, i) = HeaderUnits <=> r[i].size = 0)
    BY SizesKnown, Zenon
  <2>. QED
    BY <2>1, <2>2, Zenon
<1>2. PICK s : s = IF r[i].size = 0 THEN "header" ELSE "content"
  OBVIOUS
<1>3. LeftOver(w, u, r, h)
  BY <1>1, RestFollows, Zenon DEF StructKept
<1>4. Len(w) = h + Len(u) /\ Len(u) \in Nat /\ w # <<>> /\ h \in DOMAIN w
  BY <1>1 DEF RestOf
<1>5. w[Len(w)] = LastSent(r, c)
  BY <1>4, Zenon DEF StructKept
<1>6. u # <<>> => u[Len(u)] = LastSent(r, c)
  BY <1>3, <1>5, Zenon DEF LeftOver
<1>7. ASSUME u # <<>>
      PROVE  Starts(u, s, i)
  <2>1. h + 1 \in DOMAIN w /\ u[1] = w[h + 1]
    BY <1>3, <1>7, Zenon DEF LeftOver
  <2>2. Further(w[h], w[h + 1], 1, r)
    <3>1. 1 \in Nat
      OBVIOUS
    <3>. QED
      BY <1>4, <2>1, <3>1, Zenon DEF StructKept, Follows, Further
  <2>3. /\ h + 1 <= t => u[1] = <<i, h + 1>>
        /\ h + 1 = t + 1 => u[1] = <<i + 1, 1>>
    <3>1. <<i, h>>[1] = i /\ <<i, h>>[2] = h
      OBVIOUS
    <3>. QED
      BY <1>1, <2>1, <2>2, <3>1, Zenon DEF Further
  <2>4. CASE r[i].size = 0
    <3>1. u[1] = <<i + 1, 1>> /\ s = "header"
      BY <1>1, <1>2, <2>3, <2>4
    <3>. QED
      BY <3>1 DEF Starts
  <2>5. CASE r[i].size # 0
    <3>1. h + 1 <= t
      BY <1>1, <2>5
    <3>2. u[1] = <<i, h + 1>> /\ s = "content"
      BY <1>2, <2>3, <2>5, <3>1
    <3>3. "content" \notin {"header", "answer"}
      OBVIOUS
    <3>. QED
      BY <1>1, <3>2, <3>3, Zenon DEF Starts
  <2>. QED
    BY <2>4, <2>5, Zenon
<1>8. PICK n \in Nat : n = Len(r)
  BY LenProperties DEF Requests
<1>9. ASSUME u = <<>>
      PROVE  <<i, h>> = LastSent(r, c)
  <2>1. Len(w) = h
    BY <1>4, <1>9
  <2>. QED
    BY <1>1, <1>5, <2>1, Zenon
<1>10. ASSUME u = <<>>
       PROVE  Waiting(r, c, s, i) /\ Owes(u, r, c, o)
  <2>1. CASE c = "header"
    <3>1. <<i, h>> = <<n - 1, Top(r, n - 1)>>
      BY <1>8, <1>9, <1>10, <2>1, Zenon DEF LastSent
    <3>2. i = n - 1 /\ h = Top(r, n - 1)
      BY <3>1, Zenon
    <3>3. s = "header"
      BY <1>1, <1>2, <3>2, Zenon
    <3>. QED
      BY <2>1, <3>3 DEF Waiting, Owes
  <2>2. CASE c = "content"
    <3>1. <<i, h>> = <<n, HeaderUnits>>
      BY <1>8, <1>9, <1>10, <2>2 DEF LastSent
    <3>2. i = n
      BY <3>1, Zenon
    <3>3. r[n].size \in Nat
      BY <3>2, SizesKnown
    <3>. QED
      BY <1>2, <1>8, <2>2, <3>2, <3>3 DEF Waiting, Owes
  <2>3. CASE c # "header" /\ c # "content"
    <3>1. <<i, h>> = <<n, Top(r, n)>>
      BY <1>8, <1>9, <1>10, <2>3, Zenon DEF LastSent
    <3>2. i = n /\ h = Top(r, n)
      BY <3>1, Zenon
    <3>3. s = "header" /\ r[n].size = 0
      BY <1>1, <1>2, <3>2, Zenon
    <3>4. StructExchange!Answer(r[n]) = 0
      BY <3>2, <3>3, SizesKnown
    <3>. QED
      BY <1>8, <2>3, <3>3, <3>4 DEF Waiting, Owes
  <2>. QED
    BY <2>1, <2>2, <2>3, Zenon
<1>11. u # <<>> => Owes(u, r, c, o)
  BY DEF Owes
<1>. QED
  BY <1>2, <1>3, <1>6, <1>7, <1>10, <1>11, Zenon DEF StructKept, LeftOver

(* While the client is there a header is whole and of a request.           *)
IsHeader(v, r) == \E i \in DOMAIN r : v = StructExchange!Header(i)

(* Where the server waits for a header, HeaderUnits units are the header   *)
(* of one request, whole.                                                  *)
LEMMA HeaderWhole ==
  ASSUME NEW r \in Requests, NEW w \in Seq(Nat \X Nat), NEW u \in Seq(Nat \X Nat), NEW v \in Seq(Nat \X Nat),
         NEW c, NEW p, NEW o, StructKept(w, r, c, "header", p, o),
         Behind(v, u, w), Len(v) = HeaderUnits
  PROVE  IsHeader(v, r)
<1>1. PICK h \in Nat : h = HeaderUnits /\ h >= 1
  BY SyncAssumption
<1>2. /\ DOMAIN v = 1 .. h /\ \A k \in 1 .. h : w[k] = v[k] /\ k \in DOMAIN w
      /\ w # <<>> /\ 1 \in 1 .. h
  <2>1. DOMAIN v = 1 .. h /\ 1 \in 1 .. h
    BY <1>1
  <2>2. \A k \in 1 .. h : k \in 1 .. h + Len(u)
    BY <1>1
  <2>3. \A k \in 1 .. h : w[k] = v[k] /\ k \in DOMAIN w
    BY <1>1, <2>2, Zenon DEF Behind
  <2>4. w # <<>>
    BY <2>1, <2>3
  <2>. QED
    BY <2>1, <2>3, <2>4, Zenon
<1>3. PICK i \in DOMAIN r : w[1] = <<i, 1>>
  <2>1. w[1] \in (DOMAIN r) \X Nat
    BY <1>2, Zenon DEF StructKept, Known
  <2>2. w[1][2] = 1
    BY <1>2, Zenon DEF StructKept, Starts
  <2>. QED
    BY <2>1, <2>2
<1>4. Top(r, i) \in Nat /\ Top(r, i) >= h
  BY <1>1, SizesKnown
<1>5. ASSUME NEW k \in 1 .. h
      PROVE  v[k] = <<i, k>>
  <2>1. PICK d \in Nat : k = 1 + d /\ 1 + d <= Top(r, i)
    <3>1. k - 1 \in Nat /\ k = 1 + (k - 1) /\ 1 + (k - 1) <= Top(r, i)
      BY <1>4
    <3>. QED
      BY <3>1
  <2>2. Further(w[1], w[1 + d], d, r)
    BY <1>2, <2>1, Zenon DEF StructKept, Follows, Further
  <2>3. <<i, 1>>[1] = i /\ <<i, 1>>[2] = 1
    OBVIOUS
  <2>4. w[1 + d] = <<i, 1 + d>>
    BY <1>3, <2>1, <2>2, <2>3, Zenon DEF Further
  <2>. QED
    BY <1>2, <2>1, <2>4, Zenon
<1>6. \A k \in 1 .. h : 1 + k - 1 = k
  OBVIOUS
<1>7. HeaderUnits - 1 + 1 = h
  BY <1>1
<1>8. StructExchange!Header(i) = [k \in 1 .. h |-> <<i, 1 + k - 1>>]
  BY <1>7, Zenon DEF StructExchange!Header, StructExchange!Units
<1>9. [k \in 1 .. h |-> <<i, 1 + k - 1>>] = [k \in 1 .. h |-> <<i, k>>]
  BY <1>6
<1>10. v = [k \in 1 .. h |-> <<i, k>>]
  BY <1>2, <1>5
<1>. QED
  BY <1>8, <1>9, <1>10, Zenon DEF IsHeader

(* The server has a content.                                               *)
LEMMA ContentTaken ==
  ASSUME NEW r \in Requests, NEW w \in Seq(Nat \X Nat), NEW u \in Seq(Nat \X Nat),
         NEW c, NEW p \in DOMAIN r, NEW o \in Nat, r[p].size > 0,
         StructKept(w, r, c, "content", p, o), RestOf(w, u, r[p].size)
  PROVE  StructKept(u, r, c, "answer", p, o + StructExchange!Answer(r[p]))
<1>1. PICK h \in Nat, z \in Nat, t \in Nat : h = HeaderUnits /\ z = r[p].size /\ t = Top(r, p) /\ z >= 1 /\ t = h + z
  <2>1. HeaderUnits \in Nat
    BY SyncAssumption
  <2>2. r[p].size \in Nat /\ Top(r, p) \in Nat
    BY SizesKnown, Zenon
  <2>3. r[p].size >= 1
    BY <2>2
  <2>. QED
    BY <2>1, <2>2, <2>3, Zenon DEF Top
<1>2. LeftOver(w, u, r, z)
  <2>1. RestOf(w, u, z) /\ Known(w, r) /\ Follows(w, r)
    BY <1>1, Zenon DEF StructKept
  <2>. QED
    BY <2>1, RestFollows
<1>3. Len(w) = z + Len(u) /\ Len(u) \in Nat /\ w # <<>> /\ z \in DOMAIN w /\ 1 \in DOMAIN w
  <2>1. Len(w) = z + Len(u)
    BY <1>1, Zenon DEF RestOf
  <2>2. PICK m \in Nat, n \in Nat : m = Len(u) /\ n = Len(w) /\ DOMAIN w = 1 .. n
    BY LenProperties
  <2>z. z >= 1 /\ n = z + m
    BY <1>1, <2>1, <2>2, Zenon
  <2>3. z \in 1 .. n /\ 1 \in 1 .. n
    BY <2>z
  <2>4. w # <<>>
    BY <2>2, <2>3
  <2>. QED
    BY <2>1, <2>2, <2>3, <2>4, Zenon
<1>4. w[Len(w)] = LastSent(r, c) /\ w[1] = <<p, h + 1>>
  BY <1>1, <1>3, Zenon DEF StructKept, Starts
<1>5. \A l \in DOMAIN w, g \in Nat : l + g \in DOMAIN w => Further(w[l], w[l + g], g, r)
  BY Zenon DEF StructKept, Follows, Further
<1>6. <<p, h + 1>>[1] = p /\ <<p, h + 1>>[2] = h + 1
  OBVIOUS
<1>7. w[z] = <<p, t>>
  <2>1. PICK d \in Nat : z = 1 + d /\ (h + 1) + d = t
    <3>1. z - 1 \in Nat /\ z = 1 + (z - 1) /\ (h + 1) + (z - 1) = t
      BY <1>1
    <3>. QED
      BY <3>1
  <2>2. Further(w[1], w[1 + d], d, r)
    BY <1>3, <1>5, <2>1, Zenon
  <2>3. t <= t
    OBVIOUS
  <2>. QED
    BY <1>1, <1>4, <1>6, <2>1, <2>2, <2>3, Zenon DEF Further
<1>8. ASSUME u # <<>>
      PROVE  Starts(u, "answer", p)
  <2>1. z + 1 \in DOMAIN w /\ u[1] = w[z + 1]
    BY <1>2, <1>8, Zenon DEF LeftOver
  <2>2. Further(<<p, t>>, w[z + 1], 1, r)
    BY <1>3, <1>5, <1>7, <2>1
  <2>3. <<p, t>>[1] = p /\ <<p, t>>[2] = t
    OBVIOUS
  <2>4. u[1] = <<p + 1, 1>>
    BY <1>1, <2>1, <2>2, <2>3, Zenon DEF Further
  <2>. QED
    BY <2>4 DEF Starts
<1>9. u # <<>> => u[Len(u)] = LastSent(r, c)
  BY <1>2, <1>4, Zenon DEF LeftOver
<1>10. PICK n \in Nat : n = Len(r)
  BY LenProperties DEF Requests
<1>11. ASSUME u = <<>>
       PROVE  Waiting(r, c, "answer", p) /\ Owes(u, r, c, o + StructExchange!Answer(r[p]))
  <2>1. Len(w) = z
    BY <1>3, <1>11
  <2>2. <<p, t>> = LastSent(r, c)
    BY <1>4, <1>7, <2>1, Zenon
  <2>3. CASE c = "content"
    <3>1. <<p, t>> = <<n, HeaderUnits>>
      BY <1>10, <2>2, <2>3 DEF LastSent
    <3>2. t = h
      BY <1>1, <3>1, Zenon
    <3>. QED
      BY <1>1, <3>2
  <2>4. CASE c = "answer"
    <3>1. <<p, t>> = <<n, Top(r, n)>>
      BY <1>10, <2>2, <2>4 DEF LastSent
    <3>2. p = n
      BY <3>1, Zenon
    <3>3. StructExchange!Answer(r[p]) \in Nat
      BY SizesKnown
    <3>4. o + StructExchange!Answer(r[p]) \in Nat /\ (StructExchange!Answer(r[p]) > 0 => o + StructExchange!Answer(r[p]) > 0)
      BY <3>3
    <3>5. "answer" # "content"
      OBVIOUS
    <3>. QED
      BY <1>10, <2>4, <3>2, <3>4, <3>5, Zenon DEF Waiting, Owes
  <2>5. CASE c # "content" /\ c # "answer"
    <3>1. "answer" # "content"
      OBVIOUS
    <3>. QED
      BY <2>5, <3>1, Zenon DEF Waiting, Owes
  <2>. QED
    BY <2>3, <2>4, <2>5, Zenon
<1>12. u # <<>> => Owes(u, r, c, o + StructExchange!Answer(r[p]))
  BY DEF Owes
<1>. QED
  BY <1>2, <1>8, <1>9, <1>11, <1>12, Zenon DEF StructKept, LeftOver

(* The server is done with a request.                                      *)
LEMMA Answered ==
  ASSUME NEW r \in Requests, NEW w \in Seq(Nat \X Nat), NEW c, NEW p, NEW o,
         StructKept(w, r, c, "answer", p, o)
  PROVE  StructKept(w, r, c, "header", p, o)
<1>1. "answer" # "content" /\ "header" # "content"
  OBVIOUS
<1>2. Starts(w, "answer", p) => Starts(w, "header", p)
  BY DEF Starts
<1>3. Waiting(r, c, "answer", p) => Waiting(r, c, "header", p)
  BY <1>1, Zenon DEF Waiting
<1>. QED
  BY <1>2, <1>3, Zenon DEF StructKept

-----------------------------------------------------------------------------
(* Initially nothing was typed.                                            *)
LEMMA StructInit == MCInit => StructInv
<1> SUFFICES ASSUME MCInit PROVE StructInv
  OBVIOUS
<1>1. /\ requests = <<>> /\ askerPc = "input" /\ toServer = <<>> /\ toAsker = 0
      /\ tmp = <<>> /\ out = 0 /\ actorPc = "header"
  BY DEF MCInit, StructExchange!Init
<1>2. <<>> \in Requests /\ <<>> \in Seq(Nat \X Nat) /\ <<>> \o <<>> = <<>>
  BY DEF Requests
<1>3. StructTypes
  BY <1>1, <1>2 DEF StructTypes
<1>4. Known(<<>>, <<>>) /\ Follows(<<>>, <<>>)
  BY DEF Known, Follows
<1>5. Waiting(<<>>, "input", "header", pto) /\ Owes(<<>>, <<>>, "input", 0)
  BY DEF Waiting, Owes
<1>6. StructKept(<<>>, <<>>, "input", "header", pto, 0)
  BY <1>4, <1>5, Zenon DEF StructKept
<1>7. toAsker + (IF actorPc = "answer" THEN out ELSE 0) = 0
  BY <1>1
<1>8. tmp \o toServer = <<>>
  BY <1>1, <1>2, Zenon
<1>. QED
  BY <1>1, <1>3, <1>6, <1>7, <1>8, Zenon DEF StructInv

Back == toAsker + (IF actorPc = "answer" THEN out ELSE 0)

(* Streams put together and cut.                                           *)
OneStream(v, u, x) == v \o u \in Seq(Nat \X Nat) /\ v \o (u \o x) = (v \o u) \o x

Associative(v, u, x) == (v \o u) \o x = v \o (u \o x)

(* Concatenation is associative.                                           *)
LEMMA Associates ==
  ASSUME NEW T, NEW v \in Seq(T), NEW u \in Seq(T), NEW x \in Seq(T)
  PROVE  Associative(v, u, x)
BY ConcatAssociative, SMT DEF Associative

(* What the server has joined to what is under way is one stream, wherever *)
(* it is cut.                                                              *)
LEMMA Together ==
  ASSUME NEW v \in Seq(Nat \X Nat), NEW u \in Seq(Nat \X Nat), NEW x \in Seq(Nat \X Nat)
  PROVE  OneStream(v, u, x)
<1>1. v \o u \in Seq(Nat \X Nat)
  OBVIOUS
<1>2. Associative(v, u, x)
  BY Associates, Zenon
<1>. QED
  BY <1>1, <1>2, Zenon DEF OneStream, Associative

CutInTwo(u, n) ==
  /\ SubSeq(u, 1, n) \in Seq(Nat \X Nat) /\ SubSeq(u, n + 1, Len(u)) \in Seq(Nat \X Nat)
  /\ SubSeq(u, 1, n) \o SubSeq(u, n + 1, Len(u)) = u

(* A sequence is its first n elements and the rest.                        *)
LEMMA Cuts ==
  ASSUME NEW u \in Seq(Nat \X Nat), NEW n \in Nat, n <= Len(u)
  PROVE  CutInTwo(u, n)
<1>1. Len(u) \in Nat /\ 1 \in 1 .. Len(u) + 1 /\ n \in 1 - 1 .. Len(u) /\ Len(u) \in n .. Len(u)
  OBVIOUS
<1>2. SubSeq(u, 1, n) \o SubSeq(u, n + 1, Len(u)) = SubSeq(u, 1, Len(u))
  BY <1>1, ConcatAdjacentSubSeq
<1>3. SubSeq(u, 1, Len(u)) = u
  BY SubSeqFull
<1>4. SubSeq(u, 1, n) \in Seq(Nat \X Nat) /\ SubSeq(u, n + 1, Len(u)) \in Seq(Nat \X Nat)
  BY <1>1
<1>. QED
  BY <1>2, <1>3, <1>4, Zenon DEF CutInTwo

(* What the invariant says of the streams.                                 *)
LEMMA StructKnown ==
  ASSUME StructInv
  PROVE  /\ requests \in Requests /\ toServer \in Seq(Nat \X Nat) /\ tmp \in Seq(Nat \X Nat)
         /\ tmp \o toServer \in Seq(Nat \X Nat) /\ Back \in Nat
         /\ askerPc # "gone" => StructKept(tmp \o toServer, requests, askerPc, actorPc, pto, Back)
<1>1. toServer \in Seq(Nat \X Nat) /\ tmp \in Seq(Nat \X Nat) /\ toAsker \in Nat /\ out \in Nat
  BY DEF StructInv, StructTypes
<1>2. tmp \o toServer \in Seq(Nat \X Nat) /\ Back \in Nat
  BY <1>1 DEF Back
<1>. QED
  BY <1>1, <1>2, Zenon DEF StructInv, StructTypes, Back

(* The client.                                                             *)
LEMMA StructInput ==
  ASSUME StructInv, StructExchange!DoInput
  PROVE  StructInv'
<1>1. PICK q \in StructExchange!Proto : requests' = Append(requests, q)
  BY DEF StructExchange!DoInput
<1>2. /\ askerPc = "input" /\ askerPc' = "header" /\ toServer' = toServer /\ toAsker' = toAsker
      /\ pto' = pto /\ tmp' = tmp /\ out' = out /\ actorPc' = actorPc
  BY DEF StructExchange!DoInput, StructExchange!server
<1>3. Back' = Back
  BY <1>2 DEF Back
<1>4. "input" # "gone" /\ "header" # "gone"
  OBVIOUS
<1>5. StructKept(tmp \o toServer, requests, "input", actorPc, pto, Back)
  BY <1>2, <1>4, StructKnown
<1>6. /\ requests' \in Requests /\ requests' # <<>>
      /\ \A j \in DOMAIN requests : j \in DOMAIN requests' /\ requests'[j] = requests[j]
      /\ StructKept(tmp \o toServer, requests', "header", actorPc, pto, Back)
  BY <1>1, <1>5, StructKnown, OneMoreRequest
<1>7. StructTypes'
  BY <1>2, <1>6 DEF StructInv, StructTypes
<1>. QED
  BY <1>2, <1>3, <1>6, <1>7, Zenon DEF StructInv, Back

(* write_count puts the units of the last request behind those under way.  *)
LEMMA StructSends ==
  ASSUME StructInv, StructExchange!Sends
  PROVE  StructInv'
<1>1. /\ requests' = requests /\ toAsker' = toAsker
      /\ pto' = pto /\ tmp' = tmp /\ out' = out /\ actorPc' = actorPc
  BY DEF StructExchange!Sends, StructExchange!WriteCount, StructExchange!server
<1>2. Back' = Back
  BY <1>1 DEF Back
<1>3. PICK n \in Nat : n = Len(requests) /\ (requests # <<>> => n \in DOMAIN requests)
  BY StructKnown DEF Requests
<1>4. CASE StructExchange!WriteCount("header", StructExchange!Header(Len(requests)), "content")
  <2>1. askerPc = "header" /\ askerPc' = "content" /\ toServer' = toServer \o StructExchange!Units(n, 1, HeaderUnits)
    BY <1>3, <1>4 DEF StructExchange!WriteCount, StructExchange!Header
  <2>2. requests # <<>>
    BY <2>1 DEF StructInv, StructTypes
  <2>3. Run(StructExchange!Units(n, 1, HeaderUnits), n, 1, HeaderUnits + 1 - 1)
    BY UnitsAre, SyncAssumption
  <2>4. StructExchange!Units(n, 1, HeaderUnits) \in Seq(Nat \X Nat)
    BY <2>3 DEF Run
  <2>5. /\ toServer' \in Seq(Nat \X Nat)
        /\ tmp \o toServer' = (tmp \o toServer) \o StructExchange!Units(n, 1, HeaderUnits)
    <3>1. tmp \in Seq(Nat \X Nat) /\ toServer \in Seq(Nat \X Nat)
      BY StructKnown
    <3>2. /\ OneStream(tmp, toServer, StructExchange!Units(n, 1, HeaderUnits))
          /\ OneStream(toServer, StructExchange!Units(n, 1, HeaderUnits), <<>>)
      <4>1. <<>> \in Seq(Nat \X Nat)
        OBVIOUS
      <4>. QED
        BY <2>4, <3>1, <4>1, Together, Zenon
    <3>. QED
      BY <2>1, <3>2, Zenon DEF OneStream
  <2>6. StructKept(tmp \o toServer, requests, "header", actorPc, pto, Back)
    BY <2>1, StructKnown
  <2>7. StructKept((tmp \o toServer) \o StructExchange!Units(n, 1, HeaderUnits), requests, "content", actorPc, pto, Back)
    BY <1>3, <2>2, <2>6, StructKnown, SentHeader
  <2>8. StructTypes'
    BY <1>1, <2>1, <2>2, <2>5 DEF StructInv, StructTypes
  <2>. QED
    BY <1>1, <1>2, <2>1, <2>5, <2>7, <2>8, Zenon DEF StructInv, Back
<1>5. CASE StructExchange!WriteCount("content", StructExchange!Content(Len(requests)), "answer")
  <2>0. PICK u : u = StructExchange!Units(n, HeaderUnits + 1, HeaderUnits + requests[n].size)
    OBVIOUS
  <2>1. askerPc = "content" /\ askerPc' = "answer" /\ toServer' = toServer \o u
    BY <1>3, <1>5, <2>0 DEF StructExchange!WriteCount, StructExchange!Content
  <2>2. requests # <<>>
    BY <2>1 DEF StructInv, StructTypes
  <2>3. requests[n].size \in Nat
    BY <1>3, <2>2, StructKnown, SizesKnown
  <2>4. u \in Seq(Nat \X Nat)
    <3>1. /\ HeaderUnits + 1 \in Nat /\ HeaderUnits + requests[n].size \in Nat
          /\ HeaderUnits + 1 <= HeaderUnits + requests[n].size + 1
      BY <2>3, SyncAssumption
    <3>2. \A m : Run(u, n, HeaderUnits + 1, m) => u \in Seq(Nat \X Nat)
      BY Zenon DEF Run
    <3>. QED
      BY <2>0, <3>1, <3>2, UnitsAre
  <2>5. toServer' \in Seq(Nat \X Nat) /\ tmp \o toServer' = (tmp \o toServer) \o u
    <3>1. tmp \in Seq(Nat \X Nat) /\ toServer \in Seq(Nat \X Nat)
      BY StructKnown
    <3>2. /\ OneStream(tmp, toServer, u)
          /\ OneStream(toServer, u, <<>>)
      <4>1. <<>> \in Seq(Nat \X Nat)
        OBVIOUS
      <4>. QED
        BY <2>4, <3>1, <4>1, Together, Zenon
    <3>. QED
      BY <2>1, <3>2, Zenon DEF OneStream
  <2>6. StructKept(tmp \o toServer, requests, "content", actorPc, pto, Back)
    BY <2>1, StructKnown
  <2>7. StructKept((tmp \o toServer) \o u, requests, "answer", actorPc, pto, Back)
    BY <1>3, <2>0, <2>2, <2>6, StructKnown, SentContent
  <2>8. StructTypes'
    BY <1>1, <2>1, <2>2, <2>5 DEF StructInv, StructTypes
  <2>. QED
    BY <1>1, <1>2, <2>1, <2>5, <2>7, <2>8, Zenon DEF StructInv, Back
<1>. QED
  BY <1>4, <1>5 DEF StructExchange!Sends

(* The client takes its answer, and asks again or has done.                *)
LEMMA StructAsks ==
  ASSUME StructInv, StructExchange!Takes
  PROVE  StructInv'
<1>1. /\ askerPc = "answer" /\ askerPc' \in {"input", "gone"} /\ toAsker' \in Nat
      /\ requests' = requests /\ toServer' = toServer
      /\ pto' = pto /\ tmp' = tmp /\ out' = out /\ actorPc' = actorPc
  <2>1. toAsker \in Nat
    BY DEF StructInv, StructTypes
  <2>2. \A n \in 1 .. toAsker : toAsker - n \in Nat
    BY <2>1
  <2>. QED
    BY <2>1, <2>2 DEF StructExchange!Takes, StructExchange!server
<1>2. StructKept(tmp \o toServer, requests, "answer", actorPc, pto, Back)
  BY <1>1, StructKnown
<1>3. \A o2 : StructKept(tmp \o toServer, requests, "input", actorPc, pto, o2)
  BY <1>2, StructKnown, Asks
<1>4. StructTypes'
  BY <1>1 DEF StructInv, StructTypes
<1>. QED
  BY <1>1, <1>3, <1>4, Zenon DEF StructInv

(* Once the client has gone nothing is owed to it.                         *)
LEMMA StructGoes ==
  ASSUME StructInv, askerPc' = "gone", toAsker' \in Nat, toServer' \in Seq(Nat \X Nat),
         tmp' \in Seq(Nat \X Nat), requests' = requests, out' \in Nat,
         actorPc' \in {"header", "content", "answer", "ended", "failed"},
         actorPc' = "content" => pto' \in DOMAIN requests /\ requests[pto'].size > 0
  PROVE  StructInv'
<1>1. StructTypes'
  BY DEF StructInv, StructTypes
<1>. QED
  BY <1>1 DEF StructInv

(* Every step of the client keeps the stream in order.                     *)
LEMMA StructClient ==
  ASSUME StructInv, StructExchange!Client
  PROVE  StructInv'
<1>1. CASE StructExchange!Goes
  <2>1. /\ askerPc' = "gone" /\ toAsker' = 0 /\ requests' = requests
        /\ pto' = pto /\ tmp' = tmp /\ out' = out /\ actorPc' = actorPc
    BY <1>1 DEF StructExchange!Goes, StructExchange!server
  <2>2. PICK n \in 0 .. Len(toServer) : toServer' = SubSeq(toServer, 1, n)
    BY <1>1 DEF StructExchange!Goes
  <2>3. toServer' \in Seq(Nat \X Nat)
    BY <2>2, StructKnown
  <2>. QED
    BY <2>1, <2>3, StructGoes DEF StructInv, StructTypes
<1>. QED
  BY <1>1, StructInput, StructSends, StructAsks DEF StructExchange!Client

-----------------------------------------------------------------------------
(* The server.                                                             *)
LEMMA StructReads ==
  ASSUME StructInv, StructExchange!ReadsPiece
  PROVE  StructInv'
<1>1. /\ requests' = requests /\ askerPc' = askerPc /\ toAsker' = toAsker /\ pto' = pto
      /\ out' = out /\ actorPc' = actorPc
  BY DEF StructExchange!ReadsPiece, StructExchange!client
<1>2. PICK n \in Nat :
        /\ 1 <= n /\ n <= Len(toServer)
        /\ tmp' = tmp \o SubSeq(toServer, 1, n) /\ toServer' = SubSeq(toServer, n + 1, Len(toServer))
  <2>1. \A k : \A n \in 1 .. k : n \in Nat /\ 1 <= n
    OBVIOUS
  <2>. QED
    BY <2>1, Zenon DEF StructExchange!ReadsPiece
<1>3. tmp \in Seq(Nat \X Nat) /\ toServer \in Seq(Nat \X Nat)
  BY StructKnown
<1>4. CutInTwo(toServer, n)
  BY <1>2, <1>3, Cuts
<1>5. tmp' \in Seq(Nat \X Nat) /\ toServer' \in Seq(Nat \X Nat) /\ tmp' \o toServer' = tmp \o toServer
  <2>0. PICK v : v = SubSeq(toServer, 1, n)
    OBVIOUS
  <2>1. PICK u : u = SubSeq(toServer, n + 1, Len(toServer))
    OBVIOUS
  <2>2. v \in Seq(Nat \X Nat) /\ u \in Seq(Nat \X Nat) /\ v \o u = toServer
    BY <1>4, <2>0, <2>1, Zenon DEF CutInTwo
  <2>3. tmp' = tmp \o v /\ toServer' = u
    BY <1>2, <2>0, <2>1, Zenon
  <2>4. tmp \o v \in Seq(Nat \X Nat) /\ tmp \o (v \o u) = (tmp \o v) \o u
    <3>1. OneStream(tmp, v, u)
      BY <1>3, <2>2, Together, Zenon
    <3>. QED
      BY <3>1, Zenon DEF OneStream
  <2>. QED
    BY <2>2, <2>3, <2>4, Zenon
<1>6. StructTypes'
  BY <1>1, <1>5 DEF StructInv, StructTypes
<1>. QED
  BY <1>1, <1>5, <1>6, Zenon DEF StructInv

(* It takes what it has read.                                              *)
LEMMA TakenAre ==
  ASSUME NEW v \in Seq(Nat \X Nat), NEW u \in Seq(Nat \X Nat), NEW n, n = Len(v)
  PROVE  RestOf(v \o u, u, n) /\ Behind(v, u, v \o u) /\ (n \in Nat \ {0} => (v \o u)[n] = v[n])
<1>1. PICK x : x = v \o u
  OBVIOUS
<1>2. Behind(v, u, x)
  BY <1>1, JoinedAre
<1>3. PICK m \in Nat, l \in Nat : m = Len(v) /\ l = Len(u) /\ DOMAIN u = 1 .. l
  BY LenProperties
<1>4. Len(x) = m + l /\ \A k \in 1 .. l : x[m + k] = u[k]
  BY <1>2, <1>3, Zenon DEF Behind
<1>5. RestOf(x, u, m)
  BY <1>3, <1>4, Zenon DEF RestOf
<1>6. m # 0 => m \in 1 .. m
  BY <1>3
<1>7. m # 0 => x[m] = v[m]
  BY <1>2, <1>3, <1>6, Zenon DEF Behind
<1>. QED
  BY <1>1, <1>2, <1>3, <1>5, <1>7

(* The server takes a header, or as much of it as has come, and knows the  *)
(* request by it.                                                          *)
LEMMA StructHeader ==
  ASSUME StructInv, StructExchange!TakesHeader
  PROVE  StructInv'
<1>1. /\ actorPc = "header" /\ StructExchange!ReadCount
      /\ requests' = requests /\ askerPc' = askerPc /\ toServer' = toServer /\ toAsker' = toAsker /\ out' = out
  BY DEF StructExchange!TakesHeader, StructExchange!client
<1>2. tmp \in Seq(Nat \X Nat) /\ toServer \in Seq(Nat \X Nat) /\ requests \in Requests
  BY StructKnown
<1>3. <<>> \in Seq(Nat \X Nat) /\ <<>> \o toServer = toServer
  BY <1>2
<1>4. askerPc # "gone" =>
        /\ StructKept(tmp \o toServer, requests, askerPc, "header", pto, toAsker)
        /\ Len(tmp) = HeaderUnits /\ tmp # <<>>
        /\ \E i \in DOMAIN requests : tmp = StructExchange!Header(i)
  <2> SUFFICES ASSUME askerPc # "gone"
      PROVE  /\ StructKept(tmp \o toServer, requests, askerPc, "header", pto, toAsker)
             /\ Len(tmp) = HeaderUnits /\ tmp # <<>>
             /\ \E i \in DOMAIN requests : tmp = StructExchange!Header(i)
    OBVIOUS
  <2>1. Back = toAsker
    BY <1>1 DEF Back, StructInv, StructTypes
  <2>2. StructKept(tmp \o toServer, requests, askerPc, "header", pto, toAsker)
    BY <1>1, <2>1, StructKnown
  <2>3. Len(tmp) = HeaderUnits
    BY <1>1 DEF StructExchange!ReadCount, StructExchange!Wanted
  <2>4. tmp # <<>>
    BY <2>3, SyncAssumption
  <2>5. Behind(tmp, toServer, tmp \o toServer) /\ tmp \o toServer \in Seq(Nat \X Nat)
    BY <1>2, JoinedAre, StructKnown, Zenon
  <2>6. \E i \in DOMAIN requests : tmp = StructExchange!Header(i)
    <3>1. IsHeader(tmp, requests)
      BY <1>2, <2>2, <2>3, <2>5, HeaderWhole, Zenon
    <3>. QED
      BY <3>1, Zenon DEF IsHeader
  <2>. QED
    BY <2>2, <2>3, <2>4, <2>6, Zenon
<1>5. ASSUME NEW i \in DOMAIN requests, tmp = StructExchange!Header(i), pto' = i, tmp' = <<>>,
             actorPc' = IF requests[i].size = 0 THEN "header" ELSE "content"
      PROVE  StructInv'
  <2>1. /\ actorPc' \in {"header", "content"}
        /\ actorPc' = "content" => requests[i].size > 0
    <3>1. requests[i].size \in Nat
      BY <1>2, SizesKnown
    <3>. QED
      BY <1>5, <3>1
  <2>2. CASE askerPc = "gone"
    BY <1>1, <1>3, <1>5, <2>1, <2>2, StructGoes DEF StructInv, StructTypes
  <2>3. CASE askerPc # "gone"
    <3>1. StructTypes'
      BY <1>1, <1>3, <1>5, <2>1 DEF StructInv, StructTypes
    <3>2. /\ StructKept(tmp \o toServer, requests, askerPc, "header", pto, toAsker) /\ Len(tmp) = HeaderUnits
          /\ askerPc \in {"header", "content", "answer"} => requests # <<>>
      BY <1>4, <2>3 DEF StructInv, StructTypes
    <3>3. HeaderUnits \in Nat \ {0}
      BY SyncAssumption
    <3>4. /\ RestOf(tmp \o toServer, toServer, HeaderUnits)
          /\ (tmp \o toServer)[HeaderUnits] = tmp[HeaderUnits]
      BY <1>2, <3>2, <3>3, TakenAre
    <3>5. tmp[HeaderUnits] = <<i, HeaderUnits>>
      <4>1. i \in Nat
        BY <1>2, SizesKnown
      <4>2. PICK h \in Nat : h = HeaderUnits /\ h >= 1
        BY <3>3
      <4>3. 1 \in Nat /\ 1 <= h + 1 /\ h + 1 - 1 = h /\ h \in 1 .. h /\ 1 + h - 1 = h
        BY <4>2
      <4>4. Run(StructExchange!Units(i, 1, h), i, 1, h)
        <5>1. Run(StructExchange!Units(i, 1, h), i, 1, h + 1 - 1)
          BY <4>1, <4>3, UnitsAre
        <5>. QED
          BY <4>3, <5>1, Zenon
      <4>5. StructExchange!Header(i) = StructExchange!Units(i, 1, h)
        BY <4>2, Zenon DEF StructExchange!Header
      <4>6. StructExchange!Units(i, 1, h)[h] = <<i, 1 + h - 1>>
        BY <4>3, <4>4, Zenon DEF Run
      <4>. QED
        BY <1>5, <4>2, <4>3, <4>5, <4>6, Zenon
    <3>6. tmp \o toServer \in Seq(Nat \X Nat)
      BY StructKnown
    <3>7. StructKept(toServer, requests, askerPc, IF requests[i].size = 0 THEN "header" ELSE "content", i, toAsker)
      BY <1>2, <3>2, <3>4, <3>5, <3>6, HeaderTaken
    <3>8. toAsker' + (IF actorPc' = "answer" THEN out' ELSE 0) = toAsker
      <4>1. toAsker + 0 = toAsker
        BY DEF StructInv, StructTypes
      <4>2. actorPc' # "answer"
        BY <2>1
      <4>. QED
        BY <1>1, <4>1, <4>2
    <3>9. StructKept(tmp' \o toServer', requests', askerPc', actorPc', pto', toAsker' + (IF actorPc' = "answer" THEN out' ELSE 0))
      BY <1>1, <1>3, <1>5, <3>7, <3>8, Zenon
    <3>. QED
      BY <3>1, <3>9, Zenon DEF StructInv
  <2>. QED
    BY <2>2, <2>3
<1>6. ASSUME actorPc' \in {"ended", "failed"}, tmp' = tmp, askerPc = "gone"
      PROVE  StructInv'
  BY <1>1, <1>2, <1>6, StructGoes DEF StructInv, StructTypes
<1>7. \/ \E i \in DOMAIN requests :
           /\ tmp = StructExchange!Header(i) /\ pto' = i /\ tmp' = <<>>
           /\ actorPc' = IF requests[i].size = 0 THEN "header" ELSE "content"
      \/ tmp = <<>> /\ actorPc' = "ended" /\ tmp' = tmp
      \/ (\A i \in DOMAIN requests : tmp # StructExchange!Header(i)) /\ actorPc' = "failed" /\ tmp' = tmp
  BY DEF StructExchange!TakesHeader
<1>8. CASE tmp = <<>> /\ actorPc' = "ended" /\ tmp' = tmp
  BY <1>4, <1>6, <1>8
<1>9. CASE (\A i \in DOMAIN requests : tmp # StructExchange!Header(i)) /\ actorPc' = "failed" /\ tmp' = tmp
  BY <1>4, <1>6, <1>9
<1>. QED
  BY <1>5, <1>7, <1>8, <1>9

(* The server takes the content that the header announced, and no unit of  *)
(* the next request.                                                       *)
LEMMA StructContent ==
  ASSUME StructInv, StructExchange!TakesContent
  PROVE  StructInv'
<1>1. /\ actorPc = "content" /\ StructExchange!ReadCount /\ tmp' = <<>> /\ pto' = pto
      /\ requests' = requests /\ askerPc' = askerPc /\ toServer' = toServer /\ toAsker' = toAsker
  BY DEF StructExchange!TakesContent, StructExchange!client
<1>2. /\ tmp \in Seq(Nat \X Nat) /\ toServer \in Seq(Nat \X Nat) /\ requests \in Requests
      /\ tmp \o toServer \in Seq(Nat \X Nat)
  BY StructKnown
<1>3. <<>> \in Seq(Nat \X Nat) /\ <<>> \o toServer = toServer
  BY <1>2
<1>4. pto \in DOMAIN requests /\ requests[pto].size > 0 /\ toAsker \in Nat /\ out \in Nat
  BY <1>1 DEF StructInv, StructTypes
<1>5. requests[pto].size \in Nat \ {0} /\ StructExchange!Answer(requests[pto]) \in Nat
  BY <1>2, <1>4, SizesKnown
<1>6. StructExchange!Wanted = requests[pto].size
  BY <1>1 DEF StructExchange!Wanted
<1>7. /\ actorPc' \in {"header", "answer"} /\ out' \in Nat
      /\ Len(tmp) = requests[pto].size => actorPc' = "answer" /\ out' = StructExchange!Answer(requests[pto])
  <2>1. CASE Len(tmp) < requests[pto].size
    BY <1>4, <1>5, <1>6, <2>1 DEF StructExchange!TakesContent
  <2>2. CASE ~ (Len(tmp) < requests[pto].size)
    BY <1>5, <1>6, <2>2 DEF StructExchange!TakesContent
  <2>. QED
    BY <2>1, <2>2
<1>8. CASE askerPc = "gone"
  BY <1>1, <1>2, <1>3, <1>4, <1>7, <1>8, StructGoes
<1>9. CASE askerPc # "gone"
  <2>1. Len(tmp) = requests[pto].size
    BY <1>1, <1>6, <1>9 DEF StructExchange!ReadCount
  <2>2. actorPc' = "answer" /\ out' = StructExchange!Answer(requests[pto])
    BY <1>7, <2>1
  <2>3. StructTypes'
    BY <1>1, <1>3, <1>7, <2>2 DEF StructInv, StructTypes
  <2>4. Back = toAsker
    BY <1>1, <1>4 DEF Back
  <2>5. StructKept(tmp \o toServer, requests, askerPc, "content", pto, toAsker)
    BY <1>1, <1>9, <2>4, StructKnown
  <2>6. RestOf(tmp \o toServer, toServer, requests[pto].size)
    BY <1>2, <2>1, TakenAre
  <2>7. StructKept(toServer, requests, askerPc, "answer", pto, toAsker + StructExchange!Answer(requests[pto]))
    BY <1>2, <1>4, <2>5, <2>6, ContentTaken
  <2>8. toAsker' + (IF actorPc' = "answer" THEN out' ELSE 0) = toAsker + StructExchange!Answer(requests[pto])
    BY <1>1, <2>2
  <2>9. StructKept(tmp' \o toServer', requests', askerPc', actorPc', pto', toAsker' + (IF actorPc' = "answer" THEN out' ELSE 0))
    BY <1>1, <1>3, <2>2, <2>7, <2>8, Zenon
  <2>. QED
    BY <2>3, <2>9, Zenon DEF StructInv
<1>. QED
  BY <1>8, <1>9

(* The server answers what it has taken whole.                             *)
LEMMA StructAnswers ==
  ASSUME StructInv, StructExchange!Answers
  PROVE  StructInv'
<1>1. /\ actorPc = "answer" /\ pto' = pto /\ tmp' = tmp
      /\ requests' = requests /\ askerPc' = askerPc /\ toServer' = toServer
  BY DEF StructExchange!Answers, StructExchange!client
<1>2. toAsker \in Nat /\ out \in Nat /\ requests \in Requests /\ tmp \o toServer \in Seq(Nat \X Nat)
  BY StructKnown DEF StructInv, StructTypes
<1>3. \/ askerPc # "gone" /\ \E n \in 1 .. out : toAsker' = toAsker + n /\ out' = out - n /\ actorPc' = actorPc
      \/ askerPc = "gone" /\ actorPc' \in {"header", "failed"} /\ out' = 0 /\ toAsker' = toAsker
      \/ out = 0 /\ actorPc' = "header" /\ toAsker' = toAsker /\ out' = out
  BY DEF StructExchange!Answers
<1>4. askerPc # "gone" => StructKept(tmp \o toServer, requests, askerPc, "answer", pto, toAsker + out)
  <2>1. Back = toAsker + out
    BY <1>1 DEF Back
  <2>. QED
    BY <1>1, <2>1, StructKnown
<1>5. CASE askerPc # "gone" /\ \E n \in 1 .. out : toAsker' = toAsker + n /\ out' = out - n /\ actorPc' = actorPc
  <2>1. toAsker' \in Nat /\ out' \in Nat /\ toAsker' + out' = toAsker + out /\ actorPc' = "answer"
    BY <1>1, <1>2, <1>5
  <2>2. StructTypes'
    BY <1>1, <2>1 DEF StructInv, StructTypes
  <2>3. toAsker' + (IF actorPc' = "answer" THEN out' ELSE 0) = toAsker + out
    BY <2>1
  <2>4. StructKept(tmp' \o toServer', requests', askerPc', actorPc', pto', toAsker' + (IF actorPc' = "answer" THEN out' ELSE 0))
    BY <1>1, <1>4, <1>5, <2>1, <2>3, Zenon
  <2>. QED
    BY <2>2, <2>4, Zenon DEF StructInv
<1>6. CASE askerPc = "gone"
  <2>1. toAsker' \in Nat /\ out' \in Nat /\ actorPc' \in {"header", "failed"}
    BY <1>2, <1>3, <1>6
  <2>. QED
    BY <1>1, <1>6, <2>1, StructGoes DEF StructInv, StructTypes
<1>7. CASE askerPc # "gone" /\ out = 0 /\ actorPc' = "header" /\ toAsker' = toAsker /\ out' = out
  <2>1. StructTypes'
    BY <1>1, <1>2, <1>7 DEF StructInv, StructTypes
  <2>2. toAsker' + (IF actorPc' = "answer" THEN out' ELSE 0) = toAsker + out
    BY <1>2, <1>7
  <2>3. StructKept(tmp \o toServer, requests, askerPc, "header", pto, toAsker + out)
    BY <1>2, <1>4, <1>7, Answered
  <2>4. StructKept(tmp' \o toServer', requests', askerPc', actorPc', pto', toAsker' + (IF actorPc' = "answer" THEN out' ELSE 0))
    BY <1>1, <1>7, <2>2, <2>3, Zenon
  <2>. QED
    BY <2>1, <2>4, Zenon DEF StructInv
<1>. QED
  BY <1>3, <1>5, <1>6, <1>7

(* Every step of the server keeps the stream in order.                     *)
LEMMA StructServer ==
  ASSUME StructInv, StructExchange!DoReadWrite
  PROVE  StructInv'
<1>1. CASE StructExchange!ReadFails
  <2>1. /\ askerPc = "gone" /\ actorPc' = "failed"
        /\ pto' = pto /\ tmp' = tmp /\ out' = out
        /\ requests' = requests /\ askerPc' = askerPc /\ toServer' = toServer /\ toAsker' = toAsker
    BY <1>1 DEF StructExchange!ReadFails, StructExchange!client
  <2>. QED
    BY <2>1, StructGoes DEF StructInv, StructTypes
<1>. QED
  BY <1>1, StructReads, StructHeader, StructContent, StructAnswers DEF StructExchange!DoReadWrite

(* Every step of client and server keeps the invariant.                    *)
LEMMA StructNext == StructInv /\ [StructExchange!Next]_structVars => StructInv'
<1> SUFFICES ASSUME StructInv, [StructExchange!Next]_structVars PROVE StructInv'
  OBVIOUS
<1>1. CASE UNCHANGED structVars
  <2>1. /\ requests' = requests /\ askerPc' = askerPc /\ toServer' = toServer /\ toAsker' = toAsker
        /\ pto' = pto /\ tmp' = tmp /\ out' = out /\ actorPc' = actorPc
    BY <1>1 DEF structVars
  <2>2. StructTypes'
    BY <2>1 DEF StructInv, StructTypes
  <2>. QED
    BY <2>1, <2>2, Zenon DEF StructInv
<1>. QED
  BY <1>1, StructClient, StructServer DEF StructExchange!Next

(* A run of the composition is a run of client and server, which stand     *)
(* still in those of the other programs.                                   *)
LEMMA StructAlways == MCSpec => []StructInv
<1>1. [MCNext]_mcVars => [StructExchange!Next]_structVars
  BY DEF MCNext, mcVars, structVars, vars
<1>. QED
  BY <1>1, StructInit, StructNext, PTL DEF MCSpec

(* Client and server wait for each other after a silent request only.      *)
LEMMA StructWaits == StructInv => StructExchange!WaitsForSilence
<1> SUFFICES ASSUME StructInv, askerPc = "answer", toAsker = 0, actorPc = "header", tmp = <<>>, toServer = <<>>
    PROVE  StructExchange!Answer(StructExchange!Last(requests)) = 0
  BY DEF StructExchange!WaitsForSilence
<1>1. tmp \o toServer = <<>> /\ Back = 0
  BY DEF Back
<1>2. Owes(<<>>, requests, "answer", 0)
  <2>1. StructKept(tmp \o toServer, requests, askerPc, actorPc, pto, Back)
    BY StructKnown
  <2>. QED
    BY <1>1, <2>1, Zenon DEF StructKept
<1>3. ~ (StructExchange!Answer(requests[Len(requests)]) > 0)
  BY <1>2 DEF Owes
<1>4. Len(requests) \in DOMAIN requests
  BY DEF StructInv, StructTypes, Requests
<1>5. StructExchange!Answer(requests[Len(requests)]) \in Nat
  BY <1>4, StructKnown, SizesKnown
<1>. QED
  BY <1>3, <1>5 DEF StructExchange!Last

(***************************************************************************)
(* Client and server, writer and reader, those who ask by datagram: they   *)
(* wait for each other only where there is something under way, or for an  *)
(* answer that is none.                                                    *)
(***************************************************************************)
THEOREM SomebodyMoves == MCSpec => []NeverBothWait
<1>1. EchoRunning /\ StructInv /\ PipeRunning /\ GramRunning => NeverBothWait
  BY ClientsNeverWait, StructWaits, PipeEnds, GramAnswers DEF NeverBothWait
<1>. QED
  BY <1>1, EchoAlways, StructAlways, PipeAlways, GramAlways, PTL

-----------------------------------------------------------------------------
(* Those of Q that f has in X, and how many more or fewer there are of     *)
(* them when f changes for p.                                              *)
Among(f, Q, X) == {q \in Q : f[q] \in X}
Counted(f, Q, X) == Cardinality(Among(f, Q, X))
Is(p, f, Q, X) == IF p \in Q /\ f[p] \in X THEN 1 ELSE 0

Shifts(p, f, g, Q, X) ==
  /\ Counted(f, Q, X) \in Nat /\ Counted(g, Q, X) \in Nat
  /\ Counted(g, Q, X) + Is(p, f, Q, X) = Counted(f, Q, X) + Is(p, g, Q, X)
  /\ Is(p, f, Q, X) = 1 => Counted(f, Q, X) >= 1

ButFor(p, f, g, Q) == \A q \in Q : q # p => g[q] = f[q]

(* A change of f for p alone shifts the count by what it does to p.        *)
LEMMA CountShifts ==
  ASSUME NEW Q, IsFiniteSet(Q), NEW f, NEW g, NEW p, ButFor(p, f, g, Q), NEW X
  PROVE  Shifts(p, f, g, Q, X)
<1>1. PICK a, b : a = Among(f, Q, X) /\ b = Among(g, Q, X)
  OBVIOUS
<1>2. IsFiniteSet(a) /\ IsFiniteSet(b) /\ Cardinality(a) \in Nat /\ Cardinality(b) \in Nat
  <2>1. a \subseteq Q /\ b \subseteq Q
    BY <1>1, Zenon DEF Among
  <2>. QED
    BY <2>1, FS_Subset, FS_CardinalityType
<1>3. CASE p \in Q /\ f[p] \in X /\ g[p] \in X
  <2>1. a = b /\ p \in a
    BY <1>1, <1>3, Zenon DEF Among, ButFor
  <2>2. Cardinality(a) >= 1
    <3>1. Cardinality(a) # 0
      BY <1>2, <2>1, FS_EmptySet
    <3>. QED
      BY <1>2, <3>1
  <2>3. Is(p, f, Q, X) = 1 /\ Is(p, g, Q, X) = 1
    BY <1>3 DEF Is
  <2>. QED
    BY <1>1, <1>2, <2>1, <2>2, <2>3, Zenon DEF Shifts, Counted
<1>4. CASE p \in Q /\ f[p] \in X /\ g[p] \notin X
  <2>1. b = a \ {p} /\ p \in a
    BY <1>1, <1>4, Zenon DEF Among, ButFor
  <2>2. Cardinality(b) = Cardinality(a) - 1
    BY <1>2, <2>1, OneLess
  <2>3. Is(p, f, Q, X) = 1 /\ Is(p, g, Q, X) = 0
    BY <1>4 DEF Is
  <2>4. Cardinality(b) + 1 = Cardinality(a) + 0 /\ Cardinality(a) >= 1
    BY <1>2, <2>2
  <2>. QED
    BY <1>1, <1>2, <2>3, <2>4, Zenon DEF Shifts, Counted
<1>5. CASE p \in Q /\ f[p] \notin X /\ g[p] \in X
  <2>1. b = a \union {p} /\ p \notin a
    BY <1>1, <1>5, Zenon DEF Among, ButFor
  <2>2. Cardinality(b) = Cardinality(a) + 1
    BY <1>2, <2>1, OneMore
  <2>3. Is(p, f, Q, X) = 0 /\ Is(p, g, Q, X) = 1
    BY <1>5 DEF Is
  <2>4. Cardinality(b) + 0 = Cardinality(a) + 1 /\ 0 # 1
    BY <1>2, <2>2
  <2>. QED
    BY <1>1, <1>2, <2>3, <2>4, Zenon DEF Shifts, Counted
<1>6. CASE ~ (p \in Q) \/ (f[p] \notin X /\ g[p] \notin X)
  <2>1. a = b
    BY <1>1, <1>6, Zenon DEF Among, ButFor
  <2>3. Is(p, f, Q, X) = 0 /\ Is(p, g, Q, X) = 0 /\ 0 # 1
    BY <1>6 DEF Is
  <2>. QED
    BY <1>1, <1>2, <2>1, <2>3, Zenon DEF Shifts, Counted
<1>. QED
  BY <1>3, <1>4, <1>5, <1>6

(* Nobody is counted where nobody is.                                      *)
LEMMA CountsNobody ==
  ASSUME NEW Q, NEW f, NEW X, \A q \in Q : f[q] \notin X
  PROVE  Counted(f, Q, X) = 0
<1>1. Among(f, Q, X) = {}
  BY DEF Among
<1>. QED
  BY <1>1, FS_EmptySet DEF Counted

-----------------------------------------------------------------------------
(* anonymous_semaphore.c. With updates of size that do not get lost, there *)
(* is room for those who add, and an element for each of those who pop,    *)
(* wherever others were ended.                                             *)
Serving == {"check", "copy", "advance", "count"}
Leaving == {"print", "post"}

Adding == Counted(ringPc, RingProducers, Serving)
Placed == Counted(ringPc, RingProducers, Leaving)
Popping == Counted(ringPc, RingConsumers, Serving)
Popped == Counted(ringPc, RingConsumers, Leaving)

Vacant == size + Adding + space + Popped <= RingSize
Supply == product + Popping + Placed <= size

RingServes ==
  build = "whole" =>
    /\ size \in Nat /\ ~ refused
    /\ \A p \in SharedRing!Procs : ringPc[p] # "store" /\ (p \in RingProducers => ringPc[p] # "print")
    /\ ~ exists \/ (\E p \in SharedRing!Procs : ringPc[p] \in {"create"} \union RingSetUp) => size = 0
    /\ Vacant /\ Supply

(* What a step of one process does to the counts.                          *)
LEMMA RingShifts ==
  ASSUME NEW p \in SharedRing!Procs, RingTypes, NEW to, ringPc' = [ringPc EXCEPT ![p] = to]
  PROVE  /\ ringPc'[p] = to /\ \A q \in SharedRing!Procs : q # p => ringPc'[q] = ringPc[q]
         /\ \A X : Shifts(p, ringPc, ringPc', RingProducers, X) /\ Shifts(p, ringPc, ringPc', RingConsumers, X)
<1>1. ringPc'[p] = to /\ \A q \in SharedRing!Procs : q # p => ringPc'[q] = ringPc[q]
  BY DEF RingTypes
<1>2. ButFor(p, ringPc, ringPc', RingProducers) /\ ButFor(p, ringPc, ringPc', RingConsumers)
  BY <1>1, Zenon DEF ButFor, SharedRing!Procs
<1>3. IsFiniteSet(RingProducers) /\ IsFiniteSet(RingConsumers)
  BY SyncAssumption
<1>. QED
  BY <1>1, <1>2, <1>3, CountShifts, Zenon

(* The counts and the rest of the ring as they are after a step.           *)
Counts(a, b, c, d) == Adding' = a /\ Placed' = b /\ Popping' = c /\ Popped' = d

(* The four counts of the ring are numbers.                                *)
LEMMA RingCountTypes == RingTypes => Adding \in Nat /\ Placed \in Nat /\ Popping \in Nat /\ Popped \in Nat
<1> SUFFICES ASSUME RingTypes PROVE Adding \in Nat /\ Placed \in Nat /\ Popping \in Nat /\ Popped \in Nat
  OBVIOUS
<1>1. IsFiniteSet(RingProducers) /\ IsFiniteSet(RingConsumers)
  BY SyncAssumption
<1>2. \A X : /\ IsFiniteSet(Among(ringPc, RingProducers, X)) /\ IsFiniteSet(Among(ringPc, RingConsumers, X))
  <2>1. \A X : Among(ringPc, RingProducers, X) \subseteq RingProducers /\ Among(ringPc, RingConsumers, X) \subseteq RingConsumers
    BY DEF Among
  <2>. QED
    BY <1>1, <2>1, FS_Subset, Zenon
<1>. QED
  BY <1>2, FS_CardinalityType, Zenon DEF Adding, Placed, Popping, Popped, Counted

(* A producer's step.                                                      *)
LEMMA ProducerCounts ==
  ASSUME NEW p \in RingProducers, RingTypes, NEW to, ringPc' = [ringPc EXCEPT ![p] = to]
  PROVE  /\ ringPc[p] \in Serving /\ to \in Serving => Counts(Adding, Placed, Popping, Popped)
         /\ ringPc[p] = "loop" /\ to \in Serving => Counts(Adding + 1, Placed, Popping, Popped)
         /\ ringPc[p] \in Serving /\ to = "post" => Counts(Adding - 1, Placed + 1, Popping, Popped)
         /\ ringPc[p] = "post" /\ to = "loop" => Counts(Adding, Placed - 1, Popping, Popped)
         /\ ringPc[p] \in Serving => Adding >= 1
<1>0. p \in SharedRing!Procs /\ p \notin RingConsumers
  BY SyncAssumption DEF SharedRing!Procs
<1>1. ringPc'[p] = to
  BY <1>0, RingShifts
<1>2. \A X : Shifts(p, ringPc, ringPc', RingProducers, X) /\ Shifts(p, ringPc, ringPc', RingConsumers, X)
  BY <1>0, RingShifts, Zenon
<1>3. \A X : /\ Is(p, ringPc, RingConsumers, X) = 0 /\ Is(p, ringPc', RingConsumers, X) = 0
             /\ Is(p, ringPc, RingProducers, X) = IF ringPc[p] \in X THEN 1 ELSE 0
             /\ Is(p, ringPc', RingProducers, X) = IF to \in X THEN 1 ELSE 0
  BY <1>0, <1>1 DEF Is
<1>4. /\ Adding' + (IF ringPc[p] \in Serving THEN 1 ELSE 0) = Adding + (IF to \in Serving THEN 1 ELSE 0)
      /\ Placed' + (IF ringPc[p] \in Leaving THEN 1 ELSE 0) = Placed + (IF to \in Leaving THEN 1 ELSE 0)
      /\ Popping' + 0 = Popping + 0 /\ Popped' + 0 = Popped + 0
      /\ ringPc[p] \in Serving => Adding >= 1
  <2>1. /\ Shifts(p, ringPc, ringPc', RingProducers, Serving) /\ Shifts(p, ringPc, ringPc', RingProducers, Leaving)
        /\ Shifts(p, ringPc, ringPc', RingConsumers, Serving) /\ Shifts(p, ringPc, ringPc', RingConsumers, Leaving)
    BY <1>2, Zenon
  <2>2. Serving' = Serving /\ Leaving' = Leaving
    OBVIOUS
  <2>. QED
    BY <1>3, <2>1, <2>2, Zenon DEF Shifts, Adding, Placed, Popping, Popped
<1>5. Adding \in Nat /\ Placed \in Nat /\ Popping \in Nat /\ Popped \in Nat
  BY RingCountTypes
<1>6. Adding' \in Nat /\ Placed' \in Nat /\ Popping' \in Nat /\ Popped' \in Nat
  <2>1. /\ Shifts(p, ringPc, ringPc', RingProducers, Serving) /\ Shifts(p, ringPc, ringPc', RingProducers, Leaving)
        /\ Shifts(p, ringPc, ringPc', RingConsumers, Serving) /\ Shifts(p, ringPc, ringPc', RingConsumers, Leaving)
    BY <1>2, Zenon
  <2>. QED
    BY <2>1, Zenon DEF Shifts, Adding, Placed, Popping, Popped
<1>7. /\ "loop" \notin Serving /\ "loop" \notin Leaving /\ "post" \notin Serving /\ "post" \in Leaving
      /\ \A x \in Serving : x \notin Leaving
  BY DEF Serving, Leaving
<1>s. PICK a, b, c, d \in Nat : a = Adding /\ b = Placed /\ c = Popping /\ d = Popped
  BY <1>5, Zenon
<1>t. PICK k, l, m, n \in Nat : k = Adding' /\ l = Placed' /\ m = Popping' /\ n = Popped'
  BY <1>6, Zenon
<1>u. a \in Nat /\ b \in Nat /\ c \in Nat /\ d \in Nat /\ k \in Nat /\ l \in Nat /\ m \in Nat /\ n \in Nat
  BY <1>s, <1>t, Zenon
<1>8. /\ ringPc[p] \in Serving /\ to \in Serving => Counts(Adding, Placed, Popping, Popped)
      /\ ringPc[p] = "loop" /\ to \in Serving => Counts(Adding + 1, Placed, Popping, Popped)
      /\ ringPc[p] \in Serving /\ to = "post" => Counts(Adding - 1, Placed + 1, Popping, Popped)
      /\ ringPc[p] = "post" /\ to = "loop" => Counts(Adding, Placed - 1, Popping, Popped)
  <2>1. ASSUME ringPc[p] \in Serving, to \in Serving
        PROVE  Counts(Adding, Placed, Popping, Popped)
    <3>1. k + 1 = a + 1 /\ l + 0 = b + 0 /\ m + 0 = c + 0 /\ n + 0 = d + 0
      BY <1>4, <1>7, <1>s, <1>t, <2>1, Zenon
    <3>2. k = a /\ l = b /\ m = c /\ n = d
      BY <1>u, <3>1
    <3>. QED
      BY <1>s, <1>t, <3>2, Zenon DEF Counts
  <2>2. ASSUME ringPc[p] = "loop", to \in Serving
        PROVE  Counts(Adding + 1, Placed, Popping, Popped)
    <3>1. k + 0 = a + 1 /\ l + 0 = b + 0 /\ m + 0 = c + 0 /\ n + 0 = d + 0
      BY <1>4, <1>7, <1>s, <1>t, <2>2, Zenon
    <3>2. k = a + 1 /\ l = b /\ m = c /\ n = d
      BY <1>u, <3>1
    <3>. QED
      BY <1>s, <1>t, <3>2, Zenon DEF Counts
  <2>3. ASSUME ringPc[p] \in Serving, to = "post"
        PROVE  Counts(Adding - 1, Placed + 1, Popping, Popped)
    <3>1. k + 1 = a + 0 /\ l + 0 = b + 1 /\ m + 0 = c + 0 /\ n + 0 = d + 0
      BY <1>4, <1>7, <1>s, <1>t, <2>3, Zenon
    <3>2. k = a - 1 /\ l = b + 1 /\ m = c /\ n = d
      BY <1>u, <3>1
    <3>. QED
      BY <1>s, <1>t, <3>2, Zenon DEF Counts
  <2>4. ASSUME ringPc[p] = "post", to = "loop"
        PROVE  Counts(Adding, Placed - 1, Popping, Popped)
    <3>1. k + 0 = a + 0 /\ l + 1 = b + 0 /\ m + 0 = c + 0 /\ n + 0 = d + 0
      BY <1>4, <1>7, <1>s, <1>t, <2>4, Zenon
    <3>2. k = a /\ l = b - 1 /\ m = c /\ n = d
      BY <1>u, <3>1
    <3>. QED
      BY <1>s, <1>t, <3>2, Zenon DEF Counts
  <2>. QED
    BY <2>1, <2>2, <2>3, <2>4, Zenon
<1>. QED
  BY <1>4, <1>8, Zenon

(* A consumer's step.                                                      *)
LEMMA ConsumerCounts ==
  ASSUME NEW p \in RingConsumers, RingTypes, NEW to, ringPc' = [ringPc EXCEPT ![p] = to]
  PROVE  /\ ringPc[p] \in Serving /\ to \in Serving => Counts(Adding, Placed, Popping, Popped)
         /\ ringPc[p] = "loop" /\ to \in Serving => Counts(Adding, Placed, Popping + 1, Popped)
         /\ ringPc[p] \in Serving /\ to = "print" => Counts(Adding, Placed, Popping - 1, Popped + 1)
         /\ ringPc[p] = "print" /\ to = "post" => Counts(Adding, Placed, Popping, Popped)
         /\ ringPc[p] = "post" /\ to = "loop" => Counts(Adding, Placed, Popping, Popped - 1)
         /\ ringPc[p] \in Serving => Popping >= 1
<1>0. p \in SharedRing!Procs /\ p \notin RingProducers
  BY SyncAssumption DEF SharedRing!Procs
<1>1. ringPc'[p] = to
  BY <1>0, RingShifts
<1>2. \A X : Shifts(p, ringPc, ringPc', RingProducers, X) /\ Shifts(p, ringPc, ringPc', RingConsumers, X)
  BY <1>0, RingShifts, Zenon
<1>3. \A X : /\ Is(p, ringPc, RingProducers, X) = 0 /\ Is(p, ringPc', RingProducers, X) = 0
             /\ Is(p, ringPc, RingConsumers, X) = IF ringPc[p] \in X THEN 1 ELSE 0
             /\ Is(p, ringPc', RingConsumers, X) = IF to \in X THEN 1 ELSE 0
  BY <1>0, <1>1 DEF Is
<1>d. /\ Shifts(p, ringPc, ringPc', RingProducers, Serving) /\ Shifts(p, ringPc, ringPc', RingProducers, Leaving)
      /\ Shifts(p, ringPc, ringPc', RingConsumers, Serving) /\ Shifts(p, ringPc, ringPc', RingConsumers, Leaving)
  BY <1>2, Zenon
<1>4. /\ Popping' + (IF ringPc[p] \in Serving THEN 1 ELSE 0) = Popping + (IF to \in Serving THEN 1 ELSE 0)
      /\ Popped' + (IF ringPc[p] \in Leaving THEN 1 ELSE 0) = Popped + (IF to \in Leaving THEN 1 ELSE 0)
      /\ Adding' + 0 = Adding + 0 /\ Placed' + 0 = Placed + 0
      /\ ringPc[p] \in Serving => Popping >= 1
  BY <1>3, <1>d, Zenon DEF Shifts, Adding, Placed, Popping, Popped
<1>5. Adding \in Nat /\ Placed \in Nat /\ Popping \in Nat /\ Popped \in Nat
  BY RingCountTypes
<1>6. Adding' \in Nat /\ Placed' \in Nat /\ Popping' \in Nat /\ Popped' \in Nat
  BY <1>d, Zenon DEF Shifts, Adding, Placed, Popping, Popped
<1>7. /\ "loop" \notin Serving /\ "loop" \notin Leaving /\ "post" \notin Serving /\ "post" \in Leaving
      /\ "print" \notin Serving /\ "print" \in Leaving /\ \A x \in Serving : x \notin Leaving
  BY DEF Serving, Leaving
<1>s. PICK a, b, c, d \in Nat : a = Adding /\ b = Placed /\ c = Popping /\ d = Popped
  BY <1>5, Zenon
<1>t. PICK k, l, m, n \in Nat : k = Adding' /\ l = Placed' /\ m = Popping' /\ n = Popped'
  BY <1>6, Zenon
<1>u. a \in Nat /\ b \in Nat /\ c \in Nat /\ d \in Nat /\ k \in Nat /\ l \in Nat /\ m \in Nat /\ n \in Nat
  BY <1>s, <1>t, Zenon
<1>8. /\ ringPc[p] \in Serving /\ to \in Serving => Counts(Adding, Placed, Popping, Popped)
      /\ ringPc[p] = "loop" /\ to \in Serving => Counts(Adding, Placed, Popping + 1, Popped)
      /\ ringPc[p] \in Serving /\ to = "print" => Counts(Adding, Placed, Popping - 1, Popped + 1)
      /\ ringPc[p] = "print" /\ to = "post" => Counts(Adding, Placed, Popping, Popped)
      /\ ringPc[p] = "post" /\ to = "loop" => Counts(Adding, Placed, Popping, Popped - 1)
  <2>1. ASSUME ringPc[p] \in Serving, to \in Serving
        PROVE  Counts(Adding, Placed, Popping, Popped)
    <3>1. m + 1 = c + 1 /\ n + 0 = d + 0 /\ k + 0 = a + 0 /\ l + 0 = b + 0
      BY <1>4, <1>7, <1>s, <1>t, <2>1, Zenon
    <3>2. k = a /\ l = b /\ m = c /\ n = d
      BY <1>u, <3>1
    <3>. QED
      BY <1>s, <1>t, <3>2, Zenon DEF Counts
  <2>2. ASSUME ringPc[p] = "loop", to \in Serving
        PROVE  Counts(Adding, Placed, Popping + 1, Popped)
    <3>1. m + 0 = c + 1 /\ n + 0 = d + 0 /\ k + 0 = a + 0 /\ l + 0 = b + 0
      BY <1>4, <1>7, <1>s, <1>t, <2>2, Zenon
    <3>2. k = a /\ l = b /\ m = c + 1 /\ n = d
      BY <1>u, <3>1
    <3>. QED
      BY <1>s, <1>t, <3>2, Zenon DEF Counts
  <2>3. ASSUME ringPc[p] \in Serving, to = "print"
        PROVE  Counts(Adding, Placed, Popping - 1, Popped + 1)
    <3>1. m + 1 = c + 0 /\ n + 0 = d + 1 /\ k + 0 = a + 0 /\ l + 0 = b + 0
      BY <1>4, <1>7, <1>s, <1>t, <2>3, Zenon
    <3>2. k = a /\ l = b /\ m = c - 1 /\ n = d + 1
      BY <1>u, <3>1
    <3>. QED
      BY <1>s, <1>t, <3>2, Zenon DEF Counts
  <2>4. ASSUME ringPc[p] = "print", to = "post"
        PROVE  Counts(Adding, Placed, Popping, Popped)
    <3>1. m + 0 = c + 0 /\ n + 1 = d + 1 /\ k + 0 = a + 0 /\ l + 0 = b + 0
      BY <1>4, <1>7, <1>s, <1>t, <2>4, Zenon
    <3>2. k = a /\ l = b /\ m = c /\ n = d
      BY <1>u, <3>1
    <3>. QED
      BY <1>s, <1>t, <3>2, Zenon DEF Counts
  <2>5. ASSUME ringPc[p] = "post", to = "loop"
        PROVE  Counts(Adding, Placed, Popping, Popped - 1)
    <3>1. m + 0 = c + 0 /\ n + 1 = d + 0 /\ k + 0 = a + 0 /\ l + 0 = b + 0
      BY <1>4, <1>7, <1>s, <1>t, <2>5, Zenon
    <3>2. k = a /\ l = b /\ m = c /\ n = d - 1
      BY <1>u, <3>1
    <3>. QED
      BY <1>s, <1>t, <3>2, Zenon DEF Counts
  <2>. QED
    BY <2>1, <2>2, <2>3, <2>4, <2>5, Zenon
<1>. QED
  BY <1>4, <1>8, Zenon

(* A place where nobody is counted, before and after.                      *)
LEMMA IdleCounts ==
  ASSUME NEW p \in SharedRing!Procs, RingTypes, NEW to, ringPc' = [ringPc EXCEPT ![p] = to],
         ringPc[p] \notin Serving \union Leaving, to \notin Serving \union Leaving
  PROVE  Counts(Adding, Placed, Popping, Popped)
<1>1. ringPc'[p] = to /\ \A q \in SharedRing!Procs : q # p => ringPc'[q] = ringPc[q]
  BY RingShifts
<1>2. \A X : \A Q \in {RingProducers, RingConsumers} :
        X \in {Serving, Leaving} => Among(ringPc', Q, X) = Among(ringPc, Q, X)
  BY <1>1 DEF Among, SharedRing!Procs
<1>3. /\ Among(ringPc', RingProducers, Serving) = Among(ringPc, RingProducers, Serving)
      /\ Among(ringPc', RingProducers, Leaving) = Among(ringPc, RingProducers, Leaving)
      /\ Among(ringPc', RingConsumers, Serving) = Among(ringPc, RingConsumers, Serving)
      /\ Among(ringPc', RingConsumers, Leaving) = Among(ringPc, RingConsumers, Leaving)
  BY <1>2
<1>. QED
  BY <1>3, Zenon DEF Counts, Adding, Placed, Popping, Popped, Counted

(* Initially nothing is there.                                             *)
LEMMA ServesInit == SharedRing!Init => RingServes
<1> SUFFICES ASSUME SharedRing!Init PROVE RingServes
  OBVIOUS
<1>1. /\ size = 0 /\ space = 0 /\ product = 0 /\ refused = FALSE
      /\ \A p \in SharedRing!Procs : ringPc[p] = "start"
  BY DEF SharedRing!Init
<1>2. "start" \notin Serving /\ "start" \notin Leaving /\ "start" # "store" /\ "start" # "print"
  BY DEF Serving, Leaving
<1>3. \A Q, X : Q \subseteq SharedRing!Procs /\ "start" \notin X => Counted(ringPc, Q, X) = 0
  <2>1. ASSUME NEW Q, NEW X, Q \subseteq SharedRing!Procs, "start" \notin X
        PROVE  Counted(ringPc, Q, X) = 0
    <3>1. \A q \in Q : ringPc[q] \notin X
      BY <1>1, <2>1
    <3>. QED
      BY <3>1, CountsNobody
  <2>. QED
    BY <2>1, Zenon
<1>4. Adding = 0 /\ Placed = 0 /\ Popping = 0 /\ Popped = 0
  <2>1. RingProducers \subseteq SharedRing!Procs /\ RingConsumers \subseteq SharedRing!Procs
    BY DEF SharedRing!Procs
  <2>. QED
    BY <1>2, <1>3, <2>1, Zenon DEF Adding, Placed, Popping, Popped
<1>5. Vacant /\ Supply
  BY <1>1, <1>4, SyncAssumption DEF Vacant, Supply
<1>. QED
  BY <1>1, <1>2, <1>5 DEF RingServes

(* Who works on the ring: nobody sets it up, and it keeps serving if there *)
(* are still room and supply.                                              *)
LEMMA StillServes ==
  ASSUME RingInv, RingServes, NEW p \in SharedRing!Procs,
         ringPc[p] \in {"loop"} \union RingHeld,
         NEW to \in {"loop", "check", "copy", "advance", "count", "print", "post"},
         p \in RingProducers => to # "print",
         ringPc' = [ringPc EXCEPT ![p] = to], exists' = exists, build' = build,
         build = "whole" => size' \in Nat /\ ~ refused' /\ Vacant' /\ Supply'
  PROVE  RingServes'
<1>1. exists /\ \A q \in SharedRing!Procs : ringPc[q] \notin {"create"} \union RingSetUp
  BY DEF RingInv, RingTypes, RingSetsUp, RingSetUp, RingHeld
<1>2. ringPc'[p] = to /\ \A q \in SharedRing!Procs : q # p => ringPc'[q] = ringPc[q]
  BY RingShifts DEF RingInv
<1>3. \A q \in SharedRing!Procs : ringPc'[q] \notin {"create"} \union RingSetUp
  BY <1>1, <1>2 DEF RingSetUp
<1>4. build = "whole" =>
        \A q \in SharedRing!Procs : ringPc'[q] # "store" /\ (q \in RingProducers => ringPc'[q] # "print")
  BY <1>2 DEF RingServes
<1>. QED
  BY <1>1, <1>3, <1>4, Zenon DEF RingServes

(* A producer or consumer that has attached.                               *)
LEMMA ProducerServes ==
  ASSUME RingInv, RingServes, NEW p \in RingProducers, SharedRing!Producer(p)
  PROVE  RingServes'
<1>1. RingTypes /\ p \in SharedRing!Procs /\ space \in Nat /\ product \in Nat /\ RingSize \in Nat
  BY SyncAssumption DEF RingInv, RingTypes, SharedRing!Procs
<1>2. Adding \in Nat /\ Placed \in Nat /\ Popping \in Nat /\ Popped \in Nat
  BY <1>1, RingCountTypes
<1>3. build = "whole" => size \in Nat /\ ~ refused /\ Vacant /\ Supply /\ ringPc[p] # "store"
  BY <1>1, Zenon DEF RingServes
<1>4. \A x \in Serving : x \in RingHeld /\ x \in {"check", "copy", "advance", "count"}
  BY DEF Serving, RingHeld
<1>5. {"check", "copy", "advance", "count"} \subseteq Serving
  BY DEF Serving
<1> USE DEF SharedRing!Goes
<1>6. CASE SharedRing!WaitsForSpace(p)
  <2>1. /\ ringPc[p] = "loop" /\ ringPc' = [ringPc EXCEPT ![p] = "check"] /\ exists' = exists /\ build' = build
        /\ space > 0 /\ space' = space - 1 /\ size' = size /\ product' = product /\ refused' = refused
    BY <1>6 DEF SharedRing!WaitsForSpace
  <2>2. Counts(Adding + 1, Placed, Popping, Popped)
    BY <1>1, <1>5, <2>1, ProducerCounts
  <2>3. build = "whole" => Vacant' /\ Supply'
    BY <1>1, <1>2, <1>3, <2>1, <2>2 DEF Vacant, Supply, Counts
  <2>. QED
    BY <1>1, <1>3, <2>1, <2>3, StillServes
<1>7. CASE SharedRing!AddChecks(p)
  <2>1. PICK to \in {"copy", "post"} :
          /\ ringPc[p] = "check" /\ ringPc' = [ringPc EXCEPT ![p] = to] /\ exists' = exists /\ build' = build
          /\ space' = space /\ size' = size /\ product' = product
          /\ to = "copy" => refused' = refused
          /\ to = "post" => size = RingSize
    BY <1>7 DEF SharedRing!AddChecks, SharedRing!shared
  <2>2. ringPc[p] \in Serving /\ Adding >= 1
    BY <1>1, <1>5, <2>1, ProducerCounts
  <2>3. build = "whole" => size # RingSize
    BY <1>1, <1>2, <1>3, <2>2 DEF Vacant
  <2>4. CASE to = "copy"
    <3>1. Counts(Adding, Placed, Popping, Popped)
      BY <1>1, <1>5, <2>1, <2>2, <2>4, ProducerCounts
    <3>2. build = "whole" => Vacant' /\ Supply'
      BY <1>1, <1>2, <1>3, <2>1, <3>1 DEF Vacant, Supply, Counts
    <3>3. /\ ringPc[p] \in {"loop"} \union RingHeld /\ ringPc' = [ringPc EXCEPT ![p] = "copy"]
          /\ exists' = exists /\ build' = build
      BY <2>1, <2>4 DEF RingHeld
    <3>4. build = "whole" => size' \in Nat /\ ~ refused'
      BY <1>3, <2>1, <2>4
    <3>. QED
      BY <1>1, <3>2, <3>3, <3>4, StillServes
  <2>5. CASE to = "post"
    <3>1. build # "whole" /\ build' = build
      BY <2>1, <2>3, <2>5
    <3>. QED
      BY <3>1 DEF RingServes
  <2>. QED
    BY <2>4, <2>5
<1>8. CASE SharedRing!AddCopies(p) \/ SharedRing!AddAdvances(p)
  <2>1. PICK from \in {"copy", "advance"}, to \in {"advance", "count"} :
          /\ ringPc[p] = from /\ ringPc' = [ringPc EXCEPT ![p] = to] /\ exists' = exists /\ build' = build
          /\ space' = space /\ size' = size /\ product' = product /\ refused' = refused
    BY <1>8 DEF SharedRing!AddCopies, SharedRing!AddAdvances, SharedRing!history
  <2>2. Counts(Adding, Placed, Popping, Popped)
    BY <1>1, <1>5, <2>1, ProducerCounts
  <2>3. build = "whole" => Vacant' /\ Supply'
    BY <1>1, <1>2, <1>3, <2>1, <2>2 DEF Vacant, Supply, Counts
  <2>. QED
    BY <1>1, <1>3, <2>1, <2>3, StillServes DEF RingHeld
<1>9. CASE SharedRing!CountsWhole(p, 1)
  <2>1. /\ ringPc[p] = "count" /\ ringPc' = [ringPc EXCEPT ![p] = "post"] /\ exists' = exists /\ build' = build
        /\ space' = space /\ size' = size + 1 /\ product' = product /\ refused' = refused
    BY <1>9 DEF SharedRing!CountsWhole, SharedRing!Returned, SharedRing!history
  <2>2. Counts(Adding - 1, Placed + 1, Popping, Popped)
    BY <1>1, <1>5, <2>1, ProducerCounts
  <2>3. build = "whole" => Vacant' /\ Supply' /\ size' \in Nat
    BY <1>1, <1>2, <1>3, <2>1, <2>2 DEF Vacant, Supply, Counts
  <2>. QED
    BY <1>1, <1>3, <2>1, <2>3, StillServes DEF RingHeld
<1>10. CASE SharedRing!LoadsSize(p, 1)
  BY <1>10 DEF SharedRing!LoadsSize, RingServes
<1>11. CASE SharedRing!StoresSize(p)
  <2>1. build # "whole" /\ build' = build
    BY <1>3, <1>11 DEF SharedRing!StoresSize
  <2>. QED
    BY <2>1 DEF RingServes
<1>12. CASE SharedRing!PostsProduct(p)
  <2>1. /\ ringPc[p] = "post" /\ ringPc' = [ringPc EXCEPT ![p] = "loop"] /\ exists' = exists /\ build' = build
        /\ space' = space /\ size' = size /\ product' = product + 1 /\ refused' = refused
    BY <1>12 DEF SharedRing!PostsProduct, SharedRing!history
  <2>2. Counts(Adding, Placed - 1, Popping, Popped)
    BY <1>1, <2>1, ProducerCounts
  <2>3. build = "whole" => Vacant' /\ Supply'
    BY <1>1, <1>2, <1>3, <2>1, <2>2 DEF Vacant, Supply, Counts
  <2>. QED
    BY <1>1, <1>3, <2>1, <2>3, StillServes DEF RingHeld
<1>. QED
  BY <1>6, <1>7, <1>8, <1>9, <1>10, <1>11, <1>12 DEF SharedRing!Producer

(* A consumer that was let in pops the element counted for it, and the     *)
(* slot it frees is counted until it is posted.                            *)
LEMMA ConsumerServes ==
  ASSUME RingInv, RingServes, NEW p \in RingConsumers, SharedRing!Consumer(p)
  PROVE  RingServes'
<1>1. /\ RingTypes /\ p \in SharedRing!Procs /\ p \notin RingProducers
      /\ space \in Nat /\ product \in Nat /\ RingSize \in Nat
  BY SyncAssumption DEF RingInv, RingTypes, SharedRing!Procs
<1>2. Adding \in Nat /\ Placed \in Nat /\ Popping \in Nat /\ Popped \in Nat
  BY <1>1, RingCountTypes
<1>3. build = "whole" => size \in Nat /\ ~ refused /\ Vacant /\ Supply /\ ringPc[p] # "store"
  BY <1>1, Zenon DEF RingServes
<1>5. {"check", "copy", "advance", "count"} \subseteq Serving
  BY DEF Serving
<1> USE DEF SharedRing!Goes
<1>6. CASE SharedRing!WaitsForProduct(p)
  <2>1. /\ ringPc[p] = "loop" /\ ringPc' = [ringPc EXCEPT ![p] = "check"] /\ exists' = exists /\ build' = build
        /\ product > 0 /\ product' = product - 1 /\ size' = size /\ space' = space /\ refused' = refused
    BY <1>6 DEF SharedRing!WaitsForProduct, SharedRing!history
  <2>2. Counts(Adding, Placed, Popping + 1, Popped)
    BY <1>1, <1>5, <2>1, ConsumerCounts
  <2>3. build = "whole" => Vacant' /\ Supply'
    BY <1>1, <1>2, <1>3, <2>1, <2>2 DEF Vacant, Supply, Counts
  <2>. QED
    BY <1>1, <1>3, <2>1, <2>3, StillServes
<1>7. CASE SharedRing!PopChecks(p)
  <2>1. PICK to \in {"copy", "print"} :
          /\ ringPc[p] = "check" /\ ringPc' = [ringPc EXCEPT ![p] = to] /\ exists' = exists /\ build' = build
          /\ space' = space /\ size' = size /\ product' = product
          /\ to = "copy" => refused' = refused
          /\ to = "print" => size <= 0
    BY <1>7 DEF SharedRing!PopChecks, SharedRing!shared
  <2>2. ringPc[p] \in Serving /\ Popping >= 1
    BY <1>1, <1>5, <2>1, ConsumerCounts
  <2>3. build = "whole" => ~ (size <= 0)
    BY <1>1, <1>2, <1>3, <2>2 DEF Supply
  <2>4. CASE to = "copy"
    <3>1. Counts(Adding, Placed, Popping, Popped)
      BY <1>1, <1>5, <2>1, <2>2, <2>4, ConsumerCounts
    <3>2. build = "whole" => Vacant' /\ Supply'
      BY <1>1, <1>2, <1>3, <2>1, <3>1 DEF Vacant, Supply, Counts
    <3>3. /\ ringPc[p] \in {"loop"} \union RingHeld /\ ringPc' = [ringPc EXCEPT ![p] = "copy"]
          /\ exists' = exists /\ build' = build
      BY <2>1, <2>4 DEF RingHeld
    <3>4. build = "whole" => size' \in Nat /\ ~ refused'
      BY <1>3, <2>1, <2>4
    <3>. QED
      BY <1>1, <3>2, <3>3, <3>4, StillServes
  <2>5. CASE to = "print"
    <3>1. build # "whole" /\ build' = build
      BY <2>1, <2>3, <2>5
    <3>. QED
      BY <3>1 DEF RingServes
  <2>. QED
    BY <2>4, <2>5
<1>8. CASE SharedRing!PopCopies(p) \/ SharedRing!PopAdvances(p)
  <2>1. PICK from \in {"copy", "advance"}, to \in {"advance", "count"} :
          /\ ringPc[p] = from /\ ringPc' = [ringPc EXCEPT ![p] = to] /\ exists' = exists /\ build' = build
          /\ space' = space /\ size' = size /\ product' = product /\ refused' = refused
    BY <1>8 DEF SharedRing!PopCopies, SharedRing!PopAdvances, SharedRing!shared, SharedRing!history
  <2>2. Counts(Adding, Placed, Popping, Popped)
    BY <1>1, <1>5, <2>1, ConsumerCounts
  <2>3. build = "whole" => Vacant' /\ Supply'
    BY <1>1, <1>2, <1>3, <2>1, <2>2 DEF Vacant, Supply, Counts
  <2>. QED
    BY <1>1, <1>3, <2>1, <2>3, StillServes DEF RingHeld
<1>9. CASE SharedRing!CountsWhole(p, -1)
  <2>1. /\ ringPc[p] = "count" /\ ringPc' = [ringPc EXCEPT ![p] = "print"] /\ exists' = exists /\ build' = build
        /\ space' = space /\ size' = size + (-1) /\ product' = product /\ refused' = refused
    BY <1>1, <1>9 DEF SharedRing!CountsWhole, SharedRing!Returned, SharedRing!history
  <2>2. Counts(Adding, Placed, Popping - 1, Popped + 1) /\ Popping >= 1
    BY <1>1, <1>5, <2>1, ConsumerCounts
  <2>3. build = "whole" => Vacant' /\ Supply' /\ size' \in Nat
    BY <1>1, <1>2, <1>3, <2>1, <2>2 DEF Vacant, Supply, Counts
  <2>. QED
    BY <1>1, <1>3, <2>1, <2>3, StillServes DEF RingHeld
<1>10. CASE SharedRing!LoadsSize(p, -1)
  BY <1>10 DEF SharedRing!LoadsSize, RingServes
<1>11. CASE SharedRing!StoresSize(p)
  <2>1. build # "whole" /\ build' = build
    BY <1>3, <1>11 DEF SharedRing!StoresSize
  <2>. QED
    BY <2>1 DEF RingServes
<1>12. CASE SharedRing!Prints(p)
  <2>1. /\ ringPc[p] = "print" /\ ringPc' = [ringPc EXCEPT ![p] = "post"] /\ exists' = exists /\ build' = build
        /\ space' = space /\ size' = size /\ product' = product /\ refused' = refused
    BY <1>12 DEF SharedRing!Prints, SharedRing!shared
  <2>2. Counts(Adding, Placed, Popping, Popped)
    BY <1>1, <2>1, ConsumerCounts
  <2>3. build = "whole" => Vacant' /\ Supply'
    BY <1>1, <1>2, <1>3, <2>1, <2>2 DEF Vacant, Supply, Counts
  <2>. QED
    BY <1>1, <1>3, <2>1, <2>3, StillServes DEF RingHeld
<1>13. CASE SharedRing!PostsSpace(p)
  <2>1. /\ ringPc[p] = "post" /\ ringPc' = [ringPc EXCEPT ![p] = "loop"] /\ exists' = exists /\ build' = build
        /\ space' = space + 1 /\ size' = size /\ product' = product /\ refused' = refused
    BY <1>13 DEF SharedRing!PostsSpace, SharedRing!history
  <2>2. Counts(Adding, Placed, Popping, Popped - 1)
    BY <1>1, <2>1, ConsumerCounts
  <2>3. build = "whole" => Vacant' /\ Supply'
    BY <1>1, <1>2, <1>3, <2>1, <2>2 DEF Vacant, Supply, Counts
  <2>. QED
    BY <1>1, <1>3, <2>1, <2>3, StillServes DEF RingHeld
<1>. QED
  BY <1>6, <1>7, <1>8, <1>9, <1>10, <1>11, <1>12, <1>13 DEF SharedRing!Consumer

(* Who starts, and sets the segment up, finds an empty ring or makes one.  *)
LEMMA SetUpServes ==
  ASSUME RingInv, RingServes, NEW p \in SharedRing!Procs, SharedRing!GetShmId(p)
  PROVE  RingServes'
<1>1. /\ RingTypes /\ RingSetsUp /\ space \in Nat /\ product \in Nat /\ RingSize \in Nat
      /\ RingTypes'
  <2>1. RingInv'
    BY RingStarts, RingCreates DEF SharedRing!GetShmId
  <2>. QED
    BY <2>1, SyncAssumption DEF RingInv, RingTypes
<1>2. Adding \in Nat /\ Placed \in Nat /\ Popping \in Nat /\ Popped \in Nat
  BY <1>1, RingCountTypes
<1>3. PICK to \in {"loop", "create"} \union RingSetUp :
        /\ ringPc[p] \in {"start", "create"} \union RingSetUp /\ ringPc' = [ringPc EXCEPT ![p] = to]
        /\ build' = build /\ refused' = refused
        /\ \/ ringPc[p] = "start" /\ exists' = exists /\ space' = space /\ product' = product /\ size' = size
              /\ SharedRing!Creating = {} /\ ((to = "create" /\ ~ exists) \/ (to = "loop" /\ exists))
           \/ ringPc[p] = "create" /\ to # "loop" /\ exists' = TRUE /\ space' = space /\ product' = product /\ size' = size
           \/ ringPc[p] = "init space" /\ to # "loop" /\ exists' = exists /\ space' = RingSize /\ product' = product /\ size' = size
           \/ ringPc[p] = "init product" /\ to # "loop" /\ exists' = exists /\ space' = space /\ product' = 0 /\ size' = size
           \/ ringPc[p] = "init queue" /\ exists' = exists /\ space' = space /\ product' = product /\ size' = 0
  BY DEF SharedRing!GetShmId, SharedRing!FindsSegment, SharedRing!FindsNone, SharedRing!Creates,
         SharedRing!InitSpace, SharedRing!InitProduct, SharedRing!InitQueue, SharedRing!Goes,
         SharedRing!MayStart, SharedRing!shared, SharedRing!history, RingSetUp
<1>4. ringPc'[p] = to /\ \A q \in SharedRing!Procs : q # p => ringPc'[q] = ringPc[q]
  BY <1>1, <1>3, RingShifts
<1>5. Counts(Adding, Placed, Popping, Popped)
  <2>1. ringPc[p] \notin Serving \union Leaving /\ to \notin Serving \union Leaving
    BY <1>3 DEF Serving, Leaving, RingSetUp
  <2>. QED
    BY <1>1, <1>3, <2>1, IdleCounts
<1>6. SUFFICES ASSUME build = "whole" PROVE RingServes'
  BY <1>3 DEF RingServes
<1>7. size \in Nat /\ ~ refused /\ Vacant /\ Supply
  BY <1>6, Zenon DEF RingServes
<1>8. \A q \in SharedRing!Procs : ringPc'[q] # "store" /\ (q \in RingProducers => ringPc'[q] # "print")
  <2>1. to # "store" /\ to # "print"
    BY DEF RingSetUp
  <2>2. \A q \in SharedRing!Procs : ringPc[q] # "store" /\ (q \in RingProducers => ringPc[q] # "print")
    BY <1>6, Zenon DEF RingServes
  <2>. QED
    BY <1>4, <2>1, <2>2, Zenon
<1>9. ringPc[p] \in {"create"} \union RingSetUp => size = 0
  BY <1>6 DEF RingServes
<1>10. /\ size' = size
       /\ ~ exists' \/ (\E q \in SharedRing!Procs : ringPc'[q] \in {"create"} \union RingSetUp) => size' = 0
  <2>1. CASE ringPc[p] = "start"
    <3>1. ~ exists => size = 0
      BY <1>6 DEF RingServes
    <3>2. \A q \in SharedRing!Procs : ringPc[q] \notin {"create"} \union RingSetUp
      BY <1>3, <2>1 DEF SharedRing!Creating, RingSetUp
    <3>3. exists' = exists /\ size' = size /\ ((to = "create" /\ ~ exists) \/ (to = "loop" /\ exists))
      BY <1>3, <2>1 DEF RingSetUp
    <3>4. "loop" \notin {"create"} \union RingSetUp
      BY DEF RingSetUp
    <3>. QED
      BY <1>4, <3>1, <3>2, <3>3, <3>4
  <2>2. CASE ringPc[p] \in {"create"} \union RingSetUp
    <3>1. size' = size
      BY <1>3, <1>9, <2>2 DEF RingSetUp
    <3>. QED
      BY <1>9, <2>2, <3>1
  <2>. QED
    BY <1>3, <2>1, <2>2
<1>11. Supply'
  <2>1. product' = product \/ product' = 0
    BY <1>3
  <2>. QED
    BY <1>1, <1>2, <1>5, <1>7, <1>10, <2>1 DEF Supply, Counts
<1>12. Vacant'
  <2>1. CASE space' = space
    BY <1>1, <1>2, <1>5, <1>7, <1>10, <2>1 DEF Vacant, Counts
  <2>2. CASE ringPc[p] = "init space"
    <3>1. \A q \in SharedRing!Procs : q # p => ringPc[q] = "start"
      BY <1>1, <2>2 DEF RingSetsUp, RingSetUp
    <3>2. \A q \in SharedRing!Procs : ringPc[q] \notin Serving /\ ringPc[q] \notin Leaving
      BY <2>2, <3>1 DEF Serving, Leaving
    <3>3. Adding = 0 /\ Popped = 0
      <4>1. \A q \in RingProducers : ringPc[q] \notin Serving
        BY <3>2 DEF SharedRing!Procs
      <4>2. \A q \in RingConsumers : ringPc[q] \notin Leaving
        BY <3>2 DEF SharedRing!Procs
      <4>. QED
        BY <4>1, <4>2, CountsNobody DEF Adding, Popped
    <3>4. size = 0 /\ space' = RingSize
      BY <1>3, <1>9, <2>2 DEF RingSetUp
    <3>. QED
      BY <1>1, <1>5, <1>10, <3>3, <3>4 DEF Vacant, Counts
  <2>. QED
    BY <1>3, <2>1, <2>2
<1>. QED
  BY <1>3, <1>7, <1>8, <1>10, <1>11, <1>12, Zenon DEF RingServes

(* Smaller counts fit where larger ones did.                               *)
LEMMA FewerFit ==
  ASSUME NEW z \in Nat, NEW s \in Nat, NEW t \in Nat, NEW r \in Nat,
         NEW a \in Nat, NEW b \in Nat, NEW c \in Nat, NEW d \in Nat,
         NEW k \in Nat, NEW l \in Nat, NEW m \in Nat, NEW n \in Nat,
         k <= a, l <= b, m <= c, n <= d, z + a + s + d <= r, t + c + b <= z
  PROVE  z + k + s + n <= r /\ t + m + l <= z
OBVIOUS

(* Who is ended leaves the counts.                                         *)
LEMMA EndedServes ==
  ASSUME RingInv, RingServes, NEW p \in SharedRing!Procs, SharedRing!Interrupted(p)
  PROVE  RingServes'
<1>1. RingTypes /\ space \in Nat /\ product \in Nat /\ RingSize \in Nat
  BY SyncAssumption DEF RingInv, RingTypes
<1>2. /\ ringPc' = [ringPc EXCEPT ![p] = "start"] /\ build' = build /\ exists' = exists
      /\ space' = space /\ product' = product /\ size' = size /\ refused' = refused
  BY DEF SharedRing!Interrupted, SharedRing!shared
<1>3. ringPc'[p] = "start" /\ \A q \in SharedRing!Procs : q # p => ringPc'[q] = ringPc[q]
  BY <1>1, <1>2, RingShifts
<1>4. Adding \in Nat /\ Placed \in Nat /\ Popping \in Nat /\ Popped \in Nat
  BY <1>1, RingCountTypes
<1>5. "start" \notin Serving /\ "start" \notin Leaving /\ "start" \notin {"store", "print", "create"} \union RingSetUp
  BY DEF Serving, Leaving, RingSetUp
<1>6. \A X : "start" \notin X =>
        \A Q \in {RingProducers, RingConsumers} : /\ Counted(ringPc', Q, X) \in Nat
                                                  /\ Counted(ringPc', Q, X) <= Counted(ringPc, Q, X)
  <2>1. ASSUME NEW X, "start" \notin X, NEW Q \in {RingProducers, RingConsumers}
        PROVE  Counted(ringPc', Q, X) \in Nat /\ Counted(ringPc', Q, X) <= Counted(ringPc, Q, X)
    <3>1. Shifts(p, ringPc, ringPc', Q, X)
      <4>1. \A Y : Shifts(p, ringPc, ringPc', RingProducers, Y) /\ Shifts(p, ringPc, ringPc', RingConsumers, Y)
        BY <1>1, <1>2, RingShifts, Zenon
      <4>2. CASE Q = RingProducers
        BY <4>1, <4>2, Zenon
      <4>3. CASE Q = RingConsumers
        BY <4>1, <4>3, Zenon
      <4>. QED
        BY <4>2, <4>3
    <3>2. Is(p, ringPc', Q, X) = 0 /\ Is(p, ringPc, Q, X) \in {0, 1}
      BY <1>3, <2>1 DEF Is
    <3>. QED
      BY <3>1, <3>2 DEF Shifts
  <2>. QED
    BY <2>1, Zenon
<1>7. /\ Adding' \in Nat /\ Placed' \in Nat /\ Popping' \in Nat /\ Popped' \in Nat
      /\ Adding' <= Adding /\ Placed' <= Placed /\ Popping' <= Popping /\ Popped' <= Popped
  <2>1. RingProducers \in {RingProducers, RingConsumers} /\ RingConsumers \in {RingProducers, RingConsumers}
    OBVIOUS
  <2>. QED
    BY <1>5, <1>6, <2>1, Zenon DEF Adding, Placed, Popping, Popped
<1>8. Vacant /\ Supply /\ size \in Nat => Vacant' /\ Supply'
  <2>1. PICK a, b, c, d \in Nat : a = Adding /\ b = Placed /\ c = Popping /\ d = Popped
    BY <1>4, Zenon
  <2>2. PICK k, l, m, n \in Nat : k = Adding' /\ l = Placed' /\ m = Popping' /\ n = Popped'
    BY <1>7, Zenon
  <2>3. k <= a /\ l <= b /\ m <= c /\ n <= d
    BY <1>7, <2>1, <2>2, Zenon
  <2>4. ASSUME size \in Nat, size + a + space + d <= RingSize, product + c + b <= size
        PROVE  size + k + space + n <= RingSize /\ product + m + l <= size
    <3>1. space \in Nat /\ product \in Nat /\ RingSize \in Nat
      BY <1>1
    <3>2. /\ a \in Nat /\ b \in Nat /\ c \in Nat /\ d \in Nat
          /\ k \in Nat /\ l \in Nat /\ m \in Nat /\ n \in Nat
      BY <2>1, <2>2, Zenon
    <3>. QED
      BY <2>3, <2>4, <3>1, <3>2, FewerFit, SMT
  <2>5. RingSize' = RingSize
    OBVIOUS
  <2>. QED
    BY <1>2, <2>1, <2>2, <2>4, <2>5, Zenon DEF Vacant, Supply
<1>9. SUFFICES ASSUME build = "whole" PROVE RingServes'
  BY <1>2 DEF RingServes
<1>10. \A q \in SharedRing!Procs : ringPc'[q] # "store" /\ (q \in RingProducers => ringPc'[q] # "print")
  <2>1. \A q \in SharedRing!Procs : ringPc[q] # "store" /\ (q \in RingProducers => ringPc[q] # "print")
    BY <1>9, Zenon DEF RingServes
  <2>. QED
    BY <1>3, <1>5, <2>1
<1>11. ~ exists' \/ (\E q \in SharedRing!Procs : ringPc'[q] \in {"create"} \union RingSetUp) => size' = 0
  <2>1. ~ exists \/ (\E q \in SharedRing!Procs : ringPc[q] \in {"create"} \union RingSetUp) => size = 0
    BY <1>9, Zenon DEF RingServes
  <2>. QED
    BY <1>2, <1>3, <1>5, <2>1
<1>. QED
  BY <1>2, <1>8, <1>9, <1>10, <1>11, Zenon DEF RingServes

(* Every step of the shared ring.                                          *)
LEMMA ServesNext == RingInv /\ RingServes /\ [SharedRing!Next]_ringVars => RingServes'
<1> SUFFICES ASSUME RingInv, RingServes, [SharedRing!Next]_ringVars PROVE RingServes'
  OBVIOUS
<1>1. CASE UNCHANGED ringVars
  BY <1>1 DEF ringVars, RingServes, Vacant, Supply, Adding, Placed, Popping, Popped, Counted, Among
<1>. QED
  BY <1>1, ProducerServes, ConsumerServes, SetUpServes, EndedServes DEF SharedRing!Next

(* Neither error line of anonymous_semaphore.c is ever printed.            *)
LEMMA ServesAlways == MCSpec => []SharedRing!NeverRefused
<1>1. RingServes => SharedRing!NeverRefused
  BY DEF RingServes, SharedRing!NeverRefused
<1>. QED
  BY <1>1, RingRuns, RingAlways, ServesInit, ServesNext, PTL

-----------------------------------------------------------------------------
(* named_semaphore.c. Segments and semaphores are made in step: semaphores *)
(* s are those of segment s, and seats says who works where.               *)
NamedPlaces == {"none", "created", "opens space", "opens product", "loop", "inside", "served"}
Working == {"loop", "inside", "served"}
Quits == {<<"segment", "space", "product">>, <<"space", "product">>, <<"product">>, <<>>}
Newest == ringMade["segment"]

NamedTypes ==
  /\ ringKey \in SlotSegments \union {NULL}
  /\ named \in [NamedRing!Names -> SlotSegments \union {NULL}]
  /\ ring \in [SlotSegments -> Seq(Nat)]
  /\ value \in [NamedRing!Names -> [SlotSegments -> Nat]]
  /\ ringMade \in [NamedRing!Names \union {"segment"} -> Nat]
  /\ namedPc \in [NamedRing!Procs -> NamedPlaces]
  /\ shmid \in [NamedRing!Procs -> SlotSegments \union {NULL}]
  /\ semId \in [NamedRing!Procs -> [NamedRing!Names -> SlotSegments \union {NULL}]]
  /\ quitting \in [NamedRing!Procs -> Quits]
  /\ elems \in Nat

Quiet == \A p \in NamedRing!Procs : quitting[p] = <<>>

(* The names are those of the newest segment, or behind it.                *)
InStep ==
  /\ ringKey # NULL => ringKey = Newest
  /\ ringKey = NULL /\ Quiet => \A n \in NamedRing!Names : named[n] = NULL
  /\ \A n \in NamedRing!Names :
       /\ named[n] # NULL => named[n] = Newest /\ ringMade[n] = Newest
       /\ ringMade[n] = Newest \/ (ringMade[n] + 1 = Newest /\ named[n] = NULL /\ ringKey # NULL)
       /\ ringMade[n] = Newest /\ ringKey # NULL /\ Quiet => named[n] # NULL

(* One process at a time starts, or removes segment and names in turn.     *)
OneByOne ==
  /\ \A p \in NamedRing!Starting :
       /\ Quiet /\ \A q \in NamedRing!Starting : q = p
       /\ ringKey # NULL /\ shmid[p] = ringKey
       /\ namedPc[p] = "created" => ringMade["space"] + 1 = Newest
       /\ namedPc[p] = "opens product" => semId[p]["space"] = Newest /\ ringMade["space"] = Newest
  /\ \A p \in NamedRing!Procs : quitting[p] # <<>> =>
       /\ \A q \in NamedRing!Procs : q # p => quitting[q] = <<>>
       /\ \A n \in NamedRing!Names : ringMade[n] = Newest
       /\ quitting[p] # NamedRing!Things => ringKey = NULL
       /\ quitting[p] = <<"product">> => named["space"] = NULL

(* Who works on a ring has its semaphores, and no other.                   *)
OwnSems ==
  \A p \in NamedRing!Procs : namedPc[p] \in Working =>
    /\ shmid[p] # NULL
    /\ \A n \in NamedRing!Names : semId[p][n] = shmid[p] /\ shmid[p] <= ringMade[n]

Ahead ==
  \A s \in SlotSegments :
    /\ \A n \in NamedRing!Names : ringMade[n] < s => value[n][s] = 0
    /\ ringMade["space"] < s => ring[s] = <<>>

Seats == [p \in NamedRing!Procs |-> <<namedPc[p], shmid[p]>>]
Inside(Q, s) == Counted(Seats, Q, {<<"inside", s>>})
Served(Q, s) == Counted(Seats, Q, {<<"served", s>>})

NamedVacant(s) ==
  Len(ring[s]) + Inside(RingProducers, s) + value["space"][s] + Served(RingConsumers, s) <= NamedSize
NamedSupply(s) ==
  value["product"][s] + Inside(RingConsumers, s) + Served(RingProducers, s) <= Len(ring[s])

NamedInv ==
  /\ NamedTypes /\ InStep /\ OneByOne /\ OwnSems /\ Ahead
  /\ \A s \in SlotSegments : NamedVacant(s) /\ NamedSupply(s)
  /\ ~ ringRefused

(* A run of the composition is a run of this ring.                         *)
LEMMA NamedRuns == MCSpec => NamedRing!Init /\ [][NamedRing!Next]_namedVars
<1>1. MCInit => NamedRing!Init
  BY DEF MCInit
<1>2. [MCNext]_mcVars => [NamedRing!Next]_namedVars
  BY DEF MCNext, mcVars, namedVars, vars
<1>. QED
  BY <1>1, <1>2, PTL DEF MCSpec

(* What the four counts of a segment are, and that its ring has room for   *)
(* those who have been let in.                                             *)
Tally(s, i, j, k, l) ==
  /\ Inside(RingProducers, s) = i /\ Served(RingProducers, s) = j
  /\ Inside(RingConsumers, s) = k /\ Served(RingConsumers, s) = l

Fits(n, v, w, i, j, k, l) == n + i + v + l <= NamedSize /\ w + k + j <= n

(* The four counts of a segment are numbers.                               *)
LEMMA NamedCounts ==
  ASSUME NamedTypes, NEW s
  PROVE  \E i, j, k, l \in Nat : Tally(s, i, j, k, l)
<1>1. IsFiniteSet(RingProducers) /\ IsFiniteSet(RingConsumers)
  BY SyncAssumption
<1>2. ASSUME NEW X
      PROVE  Counted(Seats, RingProducers, X) \in Nat /\ Counted(Seats, RingConsumers, X) \in Nat
  <2>1. Among(Seats, RingProducers, X) \subseteq RingProducers /\ Among(Seats, RingConsumers, X) \subseteq RingConsumers
    BY Zenon DEF Among
  <2>2. IsFiniteSet(Among(Seats, RingProducers, X)) /\ IsFiniteSet(Among(Seats, RingConsumers, X))
    BY <1>1, <2>1, FS_Subset, Zenon
  <2>. QED
    BY <2>2, FS_CardinalityType, Zenon DEF Counted
<1>. QED
  BY <1>2, Zenon DEF Tally, Inside, Served

(* That the ring has room, in these numbers.                               *)
LEMMA FitsIs ==
  ASSUME NEW s, NEW i, NEW j, NEW k, NEW l, Tally(s, i, j, k, l)
  PROVE  (NamedVacant(s) /\ NamedSupply(s))
           <=> Fits(Len(ring[s]), value["space"][s], value["product"][s], i, j, k, l)
BY Zenon DEF Tally, Fits, NamedVacant, NamedSupply

(* A step of one process moves one seat.                                   *)
SeatGoes(p, to, at) == namedPc' = [namedPc EXCEPT ![p] = to] /\ shmid' = [shmid EXCEPT ![p] = at]

(* The counts shift by what the step does to the one process.              *)
LEMMA SeatMoves ==
  ASSUME NamedTypes, NEW p \in NamedRing!Procs, NEW to, NEW at,
         SeatGoes(p, to, at)
  PROVE  /\ namedPc'[p] = to /\ shmid'[p] = at /\ Seats[p] = <<namedPc[p], shmid[p]>> /\ Seats'[p] = <<to, at>>
         /\ \A X : Shifts(p, Seats, Seats', RingProducers, X) /\ Shifts(p, Seats, Seats', RingConsumers, X)
<1>1. /\ namedPc'[p] = to /\ shmid'[p] = at
      /\ \A q \in NamedRing!Procs : q # p => namedPc'[q] = namedPc[q] /\ shmid'[q] = shmid[q]
  BY DEF NamedTypes, SeatGoes
<1>2. /\ \A q \in NamedRing!Procs : Seats[q] = <<namedPc[q], shmid[q]>>
      /\ \A q \in NamedRing!Procs : Seats'[q] = <<namedPc'[q], shmid'[q]>>
  BY Zenon DEF Seats
<1>3. ButFor(p, Seats, Seats', RingProducers) /\ ButFor(p, Seats, Seats', RingConsumers)
  <2>1. ASSUME NEW q \in NamedRing!Procs, q # p PROVE Seats'[q] = Seats[q]
    <3>1. Seats[q] = <<namedPc[q], shmid[q]>> /\ Seats'[q] = <<namedPc'[q], shmid'[q]>>
      BY <1>2, Zenon
    <3>2. namedPc'[q] = namedPc[q] /\ shmid'[q] = shmid[q]
      BY <1>1, <2>1, Zenon
    <3>. QED
      BY <3>1, <3>2, Zenon
  <2>. QED
    BY <2>1, Zenon DEF ButFor, NamedRing!Procs
<1>4. IsFiniteSet(RingProducers) /\ IsFiniteSet(RingConsumers)
  BY SyncAssumption
<1>. QED
  BY <1>1, <1>2, <1>3, <1>4, CountShifts, Zenon

(* Nobody counts where nobody is, before and after.                        *)
LEMMA SeatsIdle ==
  ASSUME NamedTypes, NEW p \in NamedRing!Procs, NEW to \in NamedPlaces, NEW at,
         SeatGoes(p, to, at),
         namedPc[p] \notin {"inside", "served"}, to \notin {"inside", "served"},
         NEW s, NEW i \in Nat, NEW j \in Nat, NEW k \in Nat, NEW l \in Nat, Tally(s, i, j, k, l)
  PROVE  Tally(s, i, j, k, l)'
<1>1. ASSUME NEW x \in {"inside", "served"}, NEW Q \in {RingProducers, RingConsumers}
      PROVE  Counted(Seats', Q, {<<x, s>>}) = Counted(Seats, Q, {<<x, s>>})
  <2>1. Shifts(p, Seats, Seats', Q, {<<x, s>>})
    <3>1. \A X : Shifts(p, Seats, Seats', RingProducers, X) /\ Shifts(p, Seats, Seats', RingConsumers, X)
      BY SeatMoves, Zenon
    <3>2. CASE Q = RingProducers
      BY <3>1, <3>2, Zenon
    <3>3. CASE Q = RingConsumers
      BY <3>1, <3>3, Zenon
    <3>. QED
      BY <3>2, <3>3
  <2>2. Is(p, Seats, Q, {<<x, s>>}) = 0 /\ Is(p, Seats', Q, {<<x, s>>}) = 0
    <3>1. Seats[p] = <<namedPc[p], shmid[p]>> /\ Seats'[p] = <<to, at>> /\ x # namedPc[p] /\ x # to
      BY SeatMoves
    <3>2. Seats[p] \notin {<<x, s>>} /\ Seats'[p] \notin {<<x, s>>}
      BY <3>1
    <3>. QED
      BY <3>2, Zenon DEF Is
  <2>3. PICK m \in Nat, n \in Nat : m = Counted(Seats', Q, {<<x, s>>}) /\ n = Counted(Seats, Q, {<<x, s>>})
    BY <2>1, Zenon DEF Shifts
  <2>4. m + 0 = n + 0
    BY <2>1, <2>2, <2>3, Zenon DEF Shifts
  <2>5. m \in Nat /\ n \in Nat
    BY <2>3, Zenon
  <2>6. m = n
    BY <2>4, <2>5
  <2>. QED
    BY <2>3, <2>6, Zenon
<1>3. \A x \in {"inside", "served"} :
        /\ Counted(Seats', RingProducers, {<<x, s>>}) = Counted(Seats, RingProducers, {<<x, s>>})
        /\ Counted(Seats', RingConsumers, {<<x, s>>}) = Counted(Seats, RingConsumers, {<<x, s>>})
  BY <1>1
<1>4. "inside" \in {"inside", "served"} /\ "served" \in {"inside", "served"}
  OBVIOUS
<1>. QED
  BY <1>3, <1>4, Zenon DEF Tally, Inside, Served

(* Who works moves on its own segment, a producer or a consumer.           *)
Marks(p, Q, x, s) == Is(p, Seats, Q, {<<x, s>>})

(* The counts of one segment before and after the step of one process.     *)
LEMMA SeatShifts ==
  ASSUME NamedTypes, NEW p \in NamedRing!Procs, NEW to, NEW at,
         SeatGoes(p, to, at),
         NEW s, NEW i \in Nat, NEW j \in Nat, NEW k \in Nat, NEW l \in Nat, Tally(s, i, j, k, l),
         NEW a \in Nat, NEW b \in Nat, NEW c \in Nat, NEW d \in Nat, Tally(s, a, b, c, d)'
  PROVE  /\ a + Marks(p, RingProducers, "inside", s) = i + Marks(p, RingProducers, "inside", s)'
         /\ b + Marks(p, RingProducers, "served", s) = j + Marks(p, RingProducers, "served", s)'
         /\ c + Marks(p, RingConsumers, "inside", s) = k + Marks(p, RingConsumers, "inside", s)'
         /\ d + Marks(p, RingConsumers, "served", s) = l + Marks(p, RingConsumers, "served", s)'
         /\ Marks(p, RingProducers, "inside", s) = 1 => i >= 1
         /\ Marks(p, RingProducers, "served", s) = 1 => j >= 1
         /\ Marks(p, RingConsumers, "inside", s) = 1 => k >= 1
         /\ Marks(p, RingConsumers, "served", s) = 1 => l >= 1
<1>1. \A X : Shifts(p, Seats, Seats', RingProducers, X) /\ Shifts(p, Seats, Seats', RingConsumers, X)
  BY SeatMoves, Zenon
<1>2. \A x : Shifts(p, Seats, Seats', RingProducers, {<<x, s>>}) /\ Shifts(p, Seats, Seats', RingConsumers, {<<x, s>>})
  BY <1>1, Zenon
<1>. QED
  BY <1>2, Zenon DEF Shifts, Tally, Inside, Served, Marks

(* What is marked of p before and after.                                   *)
Sits(p, Q, y, z, x, s) == IF p \in Q /\ y = x /\ z = s THEN 1 ELSE 0

Marked(p, to, at, Q, x, s) ==
  /\ Marks(p, Q, x, s) = Sits(p, Q, namedPc[p], shmid[p], x, s)
  /\ Marks(p, Q, x, s)' = Sits(p, Q, to, at, x, s)

(* Whether the step puts the process on, or takes it off, a seat of the    *)
(* segment.                                                                *)
LEMMA MarksAre ==
  ASSUME NamedTypes, NEW p \in NamedRing!Procs, NEW to, NEW at,
         SeatGoes(p, to, at),
         NEW Q, NEW x, NEW s
  PROVE  Marked(p, to, at, Q, x, s)
<1>1. Seats[p] = <<namedPc[p], shmid[p]>> /\ Seats'[p] = <<to, at>>
  BY SeatMoves
<1>. QED
  BY <1>1 DEF Marked, Marks, Is, Sits

(* The counts before and after, in terms of where p was and is.            *)
Steps(p, to, at, s, i, j, k, l, a, b, c, d) ==
  /\ a + Sits(p, RingProducers, namedPc[p], shmid[p], "inside", s)
       = i + Sits(p, RingProducers, to, at, "inside", s)
  /\ b + Sits(p, RingProducers, namedPc[p], shmid[p], "served", s)
       = j + Sits(p, RingProducers, to, at, "served", s)
  /\ c + Sits(p, RingConsumers, namedPc[p], shmid[p], "inside", s)
       = k + Sits(p, RingConsumers, to, at, "inside", s)
  /\ d + Sits(p, RingConsumers, namedPc[p], shmid[p], "served", s)
       = l + Sits(p, RingConsumers, to, at, "served", s)
  /\ p \in RingProducers /\ namedPc[p] = "inside" /\ shmid[p] = s => i >= 1
  /\ p \in RingProducers /\ namedPc[p] = "served" /\ shmid[p] = s => j >= 1
  /\ p \in RingConsumers /\ namedPc[p] = "inside" /\ shmid[p] = s => k >= 1
  /\ p \in RingConsumers /\ namedPc[p] = "served" /\ shmid[p] = s => l >= 1

(* The counts of one segment after the step, from those before.            *)
LEMMA SeatSteps ==
  ASSUME NamedTypes, NEW p \in NamedRing!Procs, NEW to, NEW at,
         SeatGoes(p, to, at),
         NEW s, NEW i \in Nat, NEW j \in Nat, NEW k \in Nat, NEW l \in Nat, Tally(s, i, j, k, l),
         NEW a \in Nat, NEW b \in Nat, NEW c \in Nat, NEW d \in Nat, Tally(s, a, b, c, d)'
  PROVE  Steps(p, to, at, s, i, j, k, l, a, b, c, d)
<1>1. /\ a + Marks(p, RingProducers, "inside", s) = i + Marks(p, RingProducers, "inside", s)'
      /\ b + Marks(p, RingProducers, "served", s) = j + Marks(p, RingProducers, "served", s)'
      /\ c + Marks(p, RingConsumers, "inside", s) = k + Marks(p, RingConsumers, "inside", s)'
      /\ d + Marks(p, RingConsumers, "served", s) = l + Marks(p, RingConsumers, "served", s)'
      /\ Marks(p, RingProducers, "inside", s) = 1 => i >= 1
      /\ Marks(p, RingProducers, "served", s) = 1 => j >= 1
      /\ Marks(p, RingConsumers, "inside", s) = 1 => k >= 1
      /\ Marks(p, RingConsumers, "served", s) = 1 => l >= 1
  BY SeatShifts, Zenon
<1>2. \A Q, x : /\ Marks(p, Q, x, s) = Sits(p, Q, namedPc[p], shmid[p], x, s)
                /\ Marks(p, Q, x, s)' = Sits(p, Q, to, at, x, s)
  <2>1. \A Q, x : Marked(p, to, at, Q, x, s)
    BY MarksAre, Zenon
  <2>. QED
    BY <2>1, Zenon DEF Marked
<1>3. /\ p \in RingProducers /\ namedPc[p] = "inside" /\ shmid[p] = s => Marks(p, RingProducers, "inside", s) = 1
      /\ p \in RingProducers /\ namedPc[p] = "served" /\ shmid[p] = s => Marks(p, RingProducers, "served", s) = 1
      /\ p \in RingConsumers /\ namedPc[p] = "inside" /\ shmid[p] = s => Marks(p, RingConsumers, "inside", s) = 1
      /\ p \in RingConsumers /\ namedPc[p] = "served" /\ shmid[p] = s => Marks(p, RingConsumers, "served", s) = 1
  BY <1>2, Zenon DEF Sits
<1>. QED
  BY <1>1, <1>2, <1>3, Zenon DEF Steps

(* A process at work moves on its own segment only.                        *)
LEMMA OtherSeats ==
  ASSUME NamedTypes, NEW p \in NamedRing!Procs, NEW to,
         namedPc' = [namedPc EXCEPT ![p] = to], shmid' = shmid, NEW s, s # shmid[p],
         NEW i \in Nat, NEW j \in Nat, NEW k \in Nat, NEW l \in Nat, Tally(s, i, j, k, l)
  PROVE  Tally(s, i, j, k, l)'
<1>1. PICK at : at = shmid[p]
  OBVIOUS
<1>2. SeatGoes(p, to, at)
  BY <1>1 DEF NamedTypes, SeatGoes
<1>4. PICK a \in Nat, b \in Nat, c \in Nat, d \in Nat : Tally(s, a, b, c, d)'
  <2>1. IsFiniteSet(RingProducers) /\ IsFiniteSet(RingConsumers)
    BY SyncAssumption
  <2>2. \A X : Shifts(p, Seats, Seats', RingProducers, X) /\ Shifts(p, Seats, Seats', RingConsumers, X)
    BY <1>2, SeatMoves, Zenon
  <2>. QED
    BY <2>2, Zenon DEF Shifts, Tally, Inside, Served
<1>5. a + 0 = i + 0 /\ b + 0 = j + 0 /\ c + 0 = k + 0 /\ d + 0 = l + 0
  <2>1. \A Q, x, y : Sits(p, Q, y, shmid[p], x, s) = 0 /\ Sits(p, Q, y, at, x, s) = 0
    BY <1>1 DEF Sits
  <2>2. Steps(p, to, at, s, i, j, k, l, a, b, c, d)
    BY <1>2, <1>4, SeatSteps, Zenon
  <2>. QED
    BY <2>1, <2>2, Zenon DEF Steps
<1>6. a \in Nat /\ b \in Nat /\ c \in Nat /\ d \in Nat /\ Tally(s, a, b, c, d)'
  BY <1>4, Zenon
<1>7. a = i /\ b = j /\ c = k /\ d = l
  <2>1. a \in Nat /\ b \in Nat /\ c \in Nat /\ d \in Nat
    BY <1>4, Zenon
  <2>. QED
    BY <1>5, <2>1
<1>. QED
  BY <1>6, <1>7, Zenon

(* A producer's, and a consumer's, steps on its own segment.               *)
ProducerSeats(p, to, i, j, k, l, a, b, c, d) ==
  /\ c = k /\ d = l
  /\ namedPc[p] = "loop" /\ to = "inside" => a = i + 1 /\ b = j
  /\ namedPc[p] = "inside" /\ to = "served" => i >= 1 /\ a = i - 1 /\ b = j + 1
  /\ namedPc[p] = "served" /\ to = "loop" => j >= 1 /\ a = i /\ b = j - 1

ConsumerSeats(p, to, i, j, k, l, a, b, c, d) ==
  /\ a = i /\ b = j
  /\ namedPc[p] = "loop" /\ to = "inside" => c = k + 1 /\ d = l
  /\ namedPc[p] = "inside" /\ to = "served" => k >= 1 /\ c = k - 1 /\ d = l + 1
  /\ namedPc[p] = "served" /\ to = "loop" => l >= 1 /\ c = k /\ d = l - 1

(* The counts of the own segment after a step of a producer, and of a      *)
(* consumer.                                                               *)
LEMMA OwnSeats ==
  ASSUME NamedTypes, NEW p \in NamedRing!Procs, NEW to,
         namedPc' = [namedPc EXCEPT ![p] = to], shmid' = shmid, NEW s, s = shmid[p],
         NEW i \in Nat, NEW j \in Nat, NEW k \in Nat, NEW l \in Nat, Tally(s, i, j, k, l),
         NEW a \in Nat, NEW b \in Nat, NEW c \in Nat, NEW d \in Nat, Tally(s, a, b, c, d)'
  PROVE  /\ p \in RingProducers => ProducerSeats(p, to, i, j, k, l, a, b, c, d)
         /\ p \in RingConsumers => ConsumerSeats(p, to, i, j, k, l, a, b, c, d)
<1>1. SeatGoes(p, to, s)
  BY DEF NamedTypes, SeatGoes
<1>2. Steps(p, to, s, s, i, j, k, l, a, b, c, d)
  BY <1>1, SeatSteps, Zenon
<1>3. PICK x : x = namedPc[p]
  OBVIOUS
<1>4. PICK m, n : m = (p \in RingProducers) /\ n = (p \in RingConsumers)
  OBVIOUS
<1>5. /\ a + (IF p \in RingProducers /\ x = "inside" THEN 1 ELSE 0)
           = i + (IF p \in RingProducers /\ to = "inside" THEN 1 ELSE 0)
      /\ b + (IF p \in RingProducers /\ x = "served" THEN 1 ELSE 0)
           = j + (IF p \in RingProducers /\ to = "served" THEN 1 ELSE 0)
      /\ c + (IF p \in RingConsumers /\ x = "inside" THEN 1 ELSE 0)
           = k + (IF p \in RingConsumers /\ to = "inside" THEN 1 ELSE 0)
      /\ d + (IF p \in RingConsumers /\ x = "served" THEN 1 ELSE 0)
           = l + (IF p \in RingConsumers /\ to = "served" THEN 1 ELSE 0)
      /\ p \in RingProducers /\ x = "inside" => i >= 1
      /\ p \in RingProducers /\ x = "served" => j >= 1
      /\ p \in RingConsumers /\ x = "inside" => k >= 1
      /\ p \in RingConsumers /\ x = "served" => l >= 1
  BY <1>2, <1>3 DEF Steps, Sits
<1>6. ~ (p \in RingProducers /\ p \in RingConsumers)
  BY SyncAssumption
<1>7. ASSUME p \in RingProducers PROVE ProducerSeats(p, to, i, j, k, l, a, b, c, d)
  BY <1>3, <1>5, <1>6, <1>7 DEF ProducerSeats
<1>8. ASSUME p \in RingConsumers PROVE ConsumerSeats(p, to, i, j, k, l, a, b, c, d)
  BY <1>3, <1>5, <1>6, <1>8 DEF ConsumerSeats
<1>. QED
  BY <1>7, <1>8

-----------------------------------------------------------------------------
(* Before the first process starts nothing is made.                        *)
LEMMA NamedInit == NamedRing!Init => NamedInv
<1> SUFFICES ASSUME NamedRing!Init PROVE NamedInv
  OBVIOUS
<1>0. NULL \notin SlotSegments /\ SlotSegments \subseteq Nat /\ NamedSize \in Nat \ {0}
  BY SyncAssumption
<1>1. NamedTypes
  <2>1. ring \in [SlotSegments -> Seq(Nat)]
    <3>1. <<>> \in Seq(Nat)
      OBVIOUS
    <3>. QED
      BY <3>1 DEF NamedRing!Init
  <2>2. quitting \in [NamedRing!Procs -> Quits]
    BY DEF NamedRing!Init, Quits
  <2>3. namedPc \in [NamedRing!Procs -> NamedPlaces]
    BY DEF NamedRing!Init, NamedPlaces
  <2>4. /\ ringKey \in SlotSegments \union {NULL}
        /\ named \in [NamedRing!Names -> SlotSegments \union {NULL}]
        /\ value \in [NamedRing!Names -> [SlotSegments -> Nat]]
        /\ ringMade \in [NamedRing!Names \union {"segment"} -> Nat]
        /\ shmid \in [NamedRing!Procs -> SlotSegments \union {NULL}]
        /\ semId \in [NamedRing!Procs -> [NamedRing!Names -> SlotSegments \union {NULL}]]
        /\ elems \in Nat
    BY DEF NamedRing!Init
  <2>. QED
    BY <2>1, <2>2, <2>3, <2>4, Zenon DEF NamedTypes
<1>2. InStep
  BY DEF NamedRing!Init, InStep, Newest, NamedRing!Names
<1>3. /\ \A p \in NamedRing!Procs : namedPc[p] = "none" /\ quitting[p] = <<>>
      /\ \A s \in SlotSegments : ring[s] = <<>> /\ value["space"][s] = 0 /\ value["product"][s] = 0
  BY DEF NamedRing!Init, NamedRing!Names
<1>4. OneByOne /\ OwnSems
  BY <1>3 DEF OneByOne, OwnSems, NamedRing!Starting, Working
<1>5. Ahead
  BY <1>3 DEF Ahead, NamedRing!Names
<1>6. ASSUME NEW s \in SlotSegments PROVE NamedVacant(s) /\ NamedSupply(s)
  <2>1. \A q \in NamedRing!Procs : \A x \in {"inside", "served"} : Seats[q] \notin {<<x, s>>}
    BY <1>3 DEF Seats
  <2>2. \A x \in {"inside", "served"} :
          Counted(Seats, RingProducers, {<<x, s>>}) = 0 /\ Counted(Seats, RingConsumers, {<<x, s>>}) = 0
    <3>1. ASSUME NEW x \in {"inside", "served"}
          PROVE  /\ \A q \in RingProducers : Seats[q] \notin {<<x, s>>}
                 /\ \A q \in RingConsumers : Seats[q] \notin {<<x, s>>}
      BY <2>1, Zenon DEF NamedRing!Procs
    <3>. QED
      BY <3>1, CountsNobody, Zenon
  <2>3. "inside" \in {"inside", "served"} /\ "served" \in {"inside", "served"}
    OBVIOUS
  <2>4. Tally(s, 0, 0, 0, 0)
    BY <2>2, <2>3, Zenon DEF Tally, Inside, Served
  <2>5. Len(ring[s]) = 0
    BY <1>3
  <2>6. Fits(Len(ring[s]), value["space"][s], value["product"][s], 0, 0, 0, 0)
    BY <1>0, <1>3, <1>6, <2>5 DEF Fits
  <2>. QED
    BY <2>4, <2>6, FitsIs, Zenon
<1>7. ~ ringRefused
  BY DEF NamedRing!Init
<1>. QED
  BY <1>1, <1>2, <1>4, <1>5, <1>6, <1>7, Zenon DEF NamedInv

(* Who works disturbs neither the names nor who starts or removes them.    *)
Books == InStep /\ OneByOne /\ OwnSems

(* Working on a ring disturbs neither segments nor names.                  *)
LEMMA BooksWork ==
  ASSUME NamedTypes, Books, NEW p \in NamedRing!Procs, NEW to \in Working, namedPc[p] \in Working,
         namedPc' = [namedPc EXCEPT ![p] = to],
         UNCHANGED <<ringKey, named, ringMade, shmid, semId, quitting>>
  PROVE  Books'
<1>1. namedPc'[p] = to /\ \A q \in NamedRing!Procs : q # p => namedPc'[q] = namedPc[q]
  BY DEF NamedTypes
<1>2. ringKey' = ringKey /\ named' = named /\ ringMade' = ringMade /\ shmid' = shmid /\ semId' = semId /\ quitting' = quitting
  OBVIOUS
<1>3. Newest' = Newest /\ (Quiet' <=> Quiet)
  BY <1>2 DEF Newest, Quiet
<1>4. InStep'
  BY <1>2, <1>3 DEF Books, InStep
<1>5. NamedRing!Starting' = NamedRing!Starting /\ p \notin NamedRing!Starting
  BY <1>1 DEF NamedRing!Starting, Working
<1>6. OneByOne'
  <2>1. /\ \A q \in NamedRing!Starting : namedPc'[q] = namedPc[q]
        /\ NamedRing!Things' = NamedRing!Things
    BY <1>1, <1>5 DEF NamedRing!Starting, NamedRing!Things
  <2>. QED
    BY <1>2, <1>3, <1>5, <2>1 DEF Books, OneByOne
<1>7. OwnSems'
  BY <1>1, <1>2 DEF Books, OwnSems
<1>. QED
  BY <1>4, <1>6, <1>7 DEF Books

(* What a step at work has to do on its segment.                           *)
LEMMA Worked ==
  ASSUME NamedInv, NEW p \in NamedRing!Procs, NEW to \in Working, namedPc[p] \in Working,
         namedPc' = [namedPc EXCEPT ![p] = to],
         UNCHANGED <<ringKey, named, ringMade, shmid, semId, quitting>>,
         ring' \in [SlotSegments -> Seq(Nat)],
         value' \in [NamedRing!Names -> [SlotSegments -> Nat]],
         elems' \in Nat, ~ ringRefused',
         NEW s \in SlotSegments, s = shmid[p],
         \A t \in SlotSegments : t # s =>
           ring'[t] = ring[t] /\ \A n \in NamedRing!Names : value'[n][t] = value[n][t],
         (NamedVacant(s) /\ NamedSupply(s))'
  PROVE  NamedInv'
<1>1. NamedTypes /\ Books /\ Ahead /\ \A t \in SlotSegments : NamedVacant(t) /\ NamedSupply(t)
  BY Zenon DEF NamedInv, Books
<1>2. Books'
  BY <1>1, BooksWork
<1>3. NamedTypes'
  <2>1. namedPc' \in [NamedRing!Procs -> NamedPlaces]
    BY <1>1 DEF NamedTypes, Working, NamedPlaces
  <2>2. /\ ringKey' \in SlotSegments \union {NULL}
        /\ named' \in [NamedRing!Names -> SlotSegments \union {NULL}]
        /\ ringMade' \in [NamedRing!Names \union {"segment"} -> Nat]
        /\ shmid' \in [NamedRing!Procs -> SlotSegments \union {NULL}]
        /\ semId' \in [NamedRing!Procs -> [NamedRing!Names -> SlotSegments \union {NULL}]]
        /\ quitting' \in [NamedRing!Procs -> Quits]
    BY <1>1, Zenon DEF NamedTypes
  <2>3. NamedRing!Procs' = NamedRing!Procs /\ NamedRing!Names' = NamedRing!Names
    OBVIOUS
  <2>. QED
    BY <2>1, <2>2, <2>3, Zenon DEF NamedTypes
<1>4. Ahead'
  <2>1. \A n \in NamedRing!Names : ~ (ringMade[n] < s) /\ ringMade'[n] = ringMade[n]
    <3>1. \A n \in NamedRing!Names : s <= ringMade[n] /\ ringMade[n] \in Nat
      BY <1>1 DEF Books, OwnSems, NamedTypes
    <3>2. s \in Nat
      BY SyncAssumption
    <3>. QED
      BY <3>1, <3>2
  <2>2. ASSUME NEW t \in SlotSegments, t # s
        PROVE  /\ \A n \in NamedRing!Names : ringMade'[n] < t => value'[n][t] = 0
               /\ ringMade'["space"] < t => ring'[t] = <<>>
    <3>1. /\ \A n \in NamedRing!Names : ringMade[n] < t => value[n][t] = 0
          /\ ringMade["space"] < t => ring[t] = <<>>
      BY <1>1, <2>2, Zenon DEF Ahead
    <3>2. ring'[t] = ring[t] /\ \A n \in NamedRing!Names : value'[n][t] = value[n][t]
      BY <2>2, Zenon
    <3>. QED
      BY <3>1, <3>2
  <2>3. ASSUME NEW t \in SlotSegments, t = s
        PROVE  /\ \A n \in NamedRing!Names : ringMade'[n] < t => value'[n][t] = 0
               /\ ringMade'["space"] < t => ring'[t] = <<>>
    <3>1. "space" \in NamedRing!Names
      BY DEF NamedRing!Names
    <3>. QED
      BY <2>1, <2>3, <3>1
  <2>. QED
    BY <2>2, <2>3, Zenon DEF Ahead
<1>5. ASSUME NEW t \in SlotSegments PROVE (NamedVacant(t) /\ NamedSupply(t))'
  <2>1. CASE t = s
    BY <2>1, Zenon
  <2>2. CASE t # s
    <3>1. PICK i \in Nat, j \in Nat, k \in Nat, l \in Nat : Tally(t, i, j, k, l)
      BY <1>1, NamedCounts, Zenon
    <3>2. Tally(t, i, j, k, l)'
      <4>1. shmid' = shmid /\ t # shmid[p]
        BY <2>2
      <4>. QED
        BY <1>1, <3>1, <4>1, OtherSeats, Zenon
    <3>3. Fits(Len(ring[t]), value["space"][t], value["product"][t], i, j, k, l)
      BY <1>1, <3>1, FitsIs, Zenon
    <3>4. Len(ring'[t]) = Len(ring[t]) /\ value'["space"][t] = value["space"][t] /\ value'["product"][t] = value["product"][t]
      BY <2>2 DEF NamedRing!Names
    <3>. QED
      BY <3>2, <3>3, <3>4, Zenon DEF Fits, NamedVacant, NamedSupply, Tally
  <2>. QED
    BY <2>1, <2>2
<1>. QED
  BY <1>2, <1>3, <1>4, <1>5, Zenon DEF Books, NamedInv

(* Producer and consumer at work.                                          *)
LEMMA NamedBefore ==
  ASSUME NamedInv, NEW p \in NamedRing!Procs, namedPc[p] \in Working
  PROVE  /\ shmid[p] \in SlotSegments /\ semId[p]["space"] = shmid[p] /\ semId[p]["product"] = shmid[p]
         /\ NamedTypes /\ ~ ringRefused /\ NamedSize \in Nat
<1>1. NamedTypes /\ OwnSems /\ ~ ringRefused
  BY Zenon DEF NamedInv
<1>2. "space" \in NamedRing!Names /\ "product" \in NamedRing!Names
  BY DEF NamedRing!Names
<1>. QED
  BY <1>1, <1>2, SyncAssumption DEF OwnSems, NamedTypes

(* The numbers of a segment, before and after a step on it.                *)
LEMMA NamedNumbers ==
  ASSUME NamedInv, NEW s \in SlotSegments
  PROVE  /\ Len(ring[s]) \in Nat /\ value["space"][s] \in Nat /\ value["product"][s] \in Nat
         /\ \E i, j, k, l \in Nat :
              Tally(s, i, j, k, l) /\ Fits(Len(ring[s]), value["space"][s], value["product"][s], i, j, k, l)
<1>1. NamedTypes /\ NamedVacant(s) /\ NamedSupply(s)
  BY Zenon DEF NamedInv
<1>2. PICK i \in Nat, j \in Nat, k \in Nat, l \in Nat : Tally(s, i, j, k, l)
  BY <1>1, NamedCounts, Zenon
<1>3. Fits(Len(ring[s]), value["space"][s], value["product"][s], i, j, k, l)
  BY <1>1, <1>2, FitsIs, Zenon
<1>4. Len(ring[s]) \in Nat /\ value["space"][s] \in Nat /\ value["product"][s] \in Nat
  BY <1>1 DEF NamedTypes, NamedRing!Names
<1>. QED
  BY <1>2, <1>3, <1>4, Zenon

(* After the step of one process the counts are numbers, too.              *)
LEMMA TallyAfter ==
  ASSUME NamedTypes, NEW p \in NamedRing!Procs, NEW to, NEW at, SeatGoes(p, to, at), NEW s
  PROVE  \E a, b, c, d \in Nat : Tally(s, a, b, c, d)'
<1>1. \A X : Shifts(p, Seats, Seats', RingProducers, X) /\ Shifts(p, Seats, Seats', RingConsumers, X)
  BY SeatMoves, Zenon
<1>. QED
  BY <1>1, Zenon DEF Shifts, Tally, Inside, Served

(* A step on the own segment, in numbers.                                  *)
OwnStep(p, to, s, n, v, w, m, x, y) ==
  \A i, j, k, l, a, b, c, d \in Nat :
    /\ Fits(n, v, w, i, j, k, l)
    /\ p \in RingProducers => ProducerSeats(p, to, i, j, k, l, a, b, c, d)
    /\ p \in RingConsumers => ConsumerSeats(p, to, i, j, k, l, a, b, c, d)
    => Fits(m, x, y, a, b, c, d)

NumsAre(s, n, v, w) == n = Len(ring[s]) /\ v = value["space"][s] /\ w = value["product"][s]
NumsAfter(s, m, x, y) == m = Len(ring'[s]) /\ x = value'["space"][s] /\ y = value'["product"][s]

(* If the numbers allow the step, the own segment has room after it.       *)
LEMMA OwnFits ==
  ASSUME NamedInv, NEW p \in NamedRing!Procs, NEW to, namedPc[p] \in Working,
         NEW s \in SlotSegments, s = shmid[p], SeatGoes(p, to, s),
         NEW n, NEW v, NEW w, NumsAre(s, n, v, w), NEW m, NEW x, NEW y, NumsAfter(s, m, x, y),
         OwnStep(p, to, s, n, v, w, m, x, y)
  PROVE  (NamedVacant(s) /\ NamedSupply(s))'
<1>1. PICK i \in Nat, j \in Nat, k \in Nat, l \in Nat :
        Tally(s, i, j, k, l) /\ Fits(Len(ring[s]), value["space"][s], value["product"][s], i, j, k, l)
  BY NamedNumbers, Zenon
<1>2. NamedTypes /\ namedPc' = [namedPc EXCEPT ![p] = to] /\ shmid' = shmid
  BY DEF NamedInv, NamedTypes, SeatGoes
<1>3. PICK a \in Nat, b \in Nat, c \in Nat, d \in Nat : Tally(s, a, b, c, d)'
  BY <1>2, TallyAfter, Zenon
<1>4. /\ p \in RingProducers => ProducerSeats(p, to, i, j, k, l, a, b, c, d)
      /\ p \in RingConsumers => ConsumerSeats(p, to, i, j, k, l, a, b, c, d)
  BY <1>1, <1>2, <1>3, OwnSeats
<1>5. Fits(m, x, y, a, b, c, d)
  BY <1>1, <1>3, <1>4, Zenon DEF OwnStep, NumsAre
<1>. QED
  BY <1>3, <1>5, Zenon DEF Fits, NamedVacant, NamedSupply, Tally, NumsAfter

(* A producer on its segment: let in by space, it adds one element and     *)
(* posts product for it.                                                   *)
LEMMA NamedProducer ==
  ASSUME NamedInv, NEW p \in RingProducers, NamedRing!Producer(p)
  PROVE  NamedInv'
<1>0. p \in NamedRing!Procs /\ p \notin RingConsumers
  BY SyncAssumption DEF NamedRing!Procs
<1>1. PICK to \in Working :
        /\ namedPc[p] \in Working /\ quitting[p] = <<>> /\ namedPc' = [namedPc EXCEPT ![p] = to]
        /\ UNCHANGED <<ringKey, named, ringMade, shmid, semId, quitting>>
  BY DEF NamedRing!Producer, NamedRing!Waits, NamedRing!queue_add, NamedRing!Posts, NamedRing!To,
         NamedRing!kept, Working
<1>2. PICK s : s = shmid[p]
  OBVIOUS
<1>3. /\ s \in SlotSegments /\ semId[p]["space"] = s /\ semId[p]["product"] = s
      /\ NamedTypes /\ ~ ringRefused /\ NamedSize \in Nat
  BY <1>0, <1>1, <1>2, NamedBefore, Zenon
<1>4. PICK n \in Nat, v \in Nat, w \in Nat : n = Len(ring[s]) /\ v = value["space"][s] /\ w = value["product"][s]
  BY <1>3, NamedNumbers, Zenon
<1>5. n \in Nat /\ v \in Nat /\ w \in Nat
  BY <1>4, Zenon
<1>6. /\ ring \in [SlotSegments -> Seq(Nat)] /\ value \in [NamedRing!Names -> [SlotSegments -> Nat]]
      /\ elems \in Nat /\ "space" \in NamedRing!Names /\ "product" \in NamedRing!Names
  BY <1>3 DEF NamedTypes, NamedRing!Names
<1>7. CASE NamedRing!Waits(p, "space")
  <2>1. /\ namedPc[p] = "loop" /\ namedPc' = [namedPc EXCEPT ![p] = "inside"] /\ ring' = ring
        /\ value["space"][s] > 0 /\ value' = [value EXCEPT !["space"][s] = @ - 1]
        /\ elems' = elems /\ ringRefused' = ringRefused
    BY <1>3, <1>7 DEF NamedRing!Waits, NamedRing!To
  <2>2. /\ value' \in [NamedRing!Names -> [SlotSegments -> Nat]] /\ ring' \in [SlotSegments -> Seq(Nat)]
        /\ elems' \in Nat /\ ~ ringRefused'
        /\ \A t \in SlotSegments : t # s => ring'[t] = ring[t] /\ \A q \in NamedRing!Names : value'[q][t] = value[q][t]
        /\ n = Len(ring'[s]) /\ v - 1 = value'["space"][s] /\ w = value'["product"][s] /\ v > 0
    BY <1>3, <1>4, <1>5, <1>6, <2>1
  <2>3. OwnStep(p, "inside", s, n, v, w, n, v - 1, w)
    BY <1>0, <1>3, <1>5, <2>1, <2>2 DEF OwnStep, ProducerSeats, Fits
  <2>4. PICK x : x = v - 1
    OBVIOUS
  <2>5. (NamedVacant(s) /\ NamedSupply(s))'
    <3>1. SeatGoes(p, "inside", s)
      BY <1>1, <1>2, <1>3, <2>1 DEF NamedTypes, SeatGoes
    <3>2. NumsAre(s, n, v, w) /\ NumsAfter(s, n, x, w)
      BY <1>4, <2>2, <2>4, Zenon DEF NumsAre, NumsAfter
    <3>3. OwnStep(p, "inside", s, n, v, w, n, x, w)
      BY <2>3, <2>4, Zenon
    <3>. QED
      BY <1>0, <1>1, <1>2, <1>3, <3>1, <3>2, <3>3, OwnFits, Zenon
  <2>. QED
    BY <1>0, <1>1, <1>2, <1>3, <2>1, <2>2, <2>5, Worked DEF Working
<1>8. CASE NamedRing!queue_add(p)
  <2>1. /\ namedPc[p] = "inside" /\ namedPc' = [namedPc EXCEPT ![p] = "served"] /\ value' = value
        /\ elems' = elems + 1
        /\ IF Len(ring[s]) < NamedSize
           THEN ring' = [ring EXCEPT ![s] = Append(@, elems + 1)] /\ ringRefused' = ringRefused
           ELSE ring' = ring
    BY <1>2, <1>8 DEF NamedRing!queue_add, NamedRing!To
  <2>2. n < NamedSize
    <3>1. PICK i \in Nat, j \in Nat, k \in Nat, l \in Nat : Tally(s, i, j, k, l) /\ Fits(n, v, w, i, j, k, l)
      BY <1>3, <1>4, NamedNumbers, Zenon
    <3>2. SeatGoes(p, "served", s)
      BY <1>1, <1>2, <1>3, <2>1 DEF NamedTypes, SeatGoes
    <3>3. PICK a \in Nat, b \in Nat, c \in Nat, d \in Nat : Tally(s, a, b, c, d)'
      BY <1>0, <1>3, <3>2, TallyAfter, Zenon
    <3>4. ProducerSeats(p, "served", i, j, k, l, a, b, c, d)
      BY <1>0, <1>1, <1>2, <1>3, <2>1, <3>1, <3>3, OwnSeats
    <3>5. i >= 1
      BY <2>1, <3>4 DEF ProducerSeats
    <3>6. i \in Nat /\ j \in Nat /\ k \in Nat /\ l \in Nat /\ Fits(n, v, w, i, j, k, l)
      BY <3>1, Zenon
    <3>. QED
      BY <1>3, <1>5, <3>5, <3>6 DEF Fits
  <2>3. ring' = [ring EXCEPT ![s] = Append(@, elems + 1)] /\ ringRefused' = ringRefused
    BY <1>4, <2>1, <2>2
  <2>4. Append(ring[s], elems + 1) \in Seq(Nat) /\ Len(Append(ring[s], elems + 1)) = Len(ring[s]) + 1
    BY <1>3, <1>6
  <2>5. /\ value' \in [NamedRing!Names -> [SlotSegments -> Nat]] /\ ring' \in [SlotSegments -> Seq(Nat)]
        /\ elems' \in Nat /\ ~ ringRefused'
        /\ \A t \in SlotSegments : t # s => ring'[t] = ring[t] /\ \A q \in NamedRing!Names : value'[q][t] = value[q][t]
        /\ n + 1 = Len(ring'[s]) /\ v = value'["space"][s] /\ w = value'["product"][s]
    BY <1>3, <1>4, <1>5, <1>6, <2>1, <2>3, <2>4
  <2>6. OwnStep(p, "served", s, n, v, w, n + 1, v, w)
    BY <1>0, <1>3, <1>5, <2>1, <2>2 DEF OwnStep, ProducerSeats, Fits
  <2>7. PICK x : x = n + 1
    OBVIOUS
  <2>8. (NamedVacant(s) /\ NamedSupply(s))'
    <3>1. SeatGoes(p, "served", s)
      BY <1>1, <1>2, <1>3, <2>1 DEF NamedTypes, SeatGoes
    <3>2. NumsAre(s, n, v, w) /\ NumsAfter(s, x, v, w)
      BY <1>4, <2>5, <2>7, Zenon DEF NumsAre, NumsAfter
    <3>3. OwnStep(p, "served", s, n, v, w, x, v, w)
      BY <2>6, <2>7, Zenon
    <3>. QED
      BY <1>0, <1>1, <1>2, <1>3, <3>1, <3>2, <3>3, OwnFits, Zenon
  <2>. QED
    BY <1>0, <1>1, <1>2, <1>3, <2>1, <2>5, <2>8, Worked DEF Working
<1>9. CASE NamedRing!Posts(p, "product")
  <2>1. /\ namedPc[p] = "served" /\ namedPc' = [namedPc EXCEPT ![p] = "loop"] /\ ring' = ring
        /\ value' = [value EXCEPT !["product"][s] = @ + 1]
        /\ elems' = elems /\ ringRefused' = ringRefused
    BY <1>3, <1>9 DEF NamedRing!Posts, NamedRing!To
  <2>2. /\ value' \in [NamedRing!Names -> [SlotSegments -> Nat]] /\ ring' \in [SlotSegments -> Seq(Nat)]
        /\ elems' \in Nat /\ ~ ringRefused'
        /\ \A t \in SlotSegments : t # s => ring'[t] = ring[t] /\ \A q \in NamedRing!Names : value'[q][t] = value[q][t]
        /\ n = Len(ring'[s]) /\ v = value'["space"][s] /\ w + 1 = value'["product"][s]
    BY <1>3, <1>4, <1>5, <1>6, <2>1
  <2>3. OwnStep(p, "loop", s, n, v, w, n, v, w + 1)
    BY <1>0, <1>3, <1>5, <2>1 DEF OwnStep, ProducerSeats, Fits
  <2>4. PICK x : x = w + 1
    OBVIOUS
  <2>5. (NamedVacant(s) /\ NamedSupply(s))'
    <3>1. SeatGoes(p, "loop", s)
      BY <1>1, <1>2, <1>3, <2>1 DEF NamedTypes, SeatGoes
    <3>2. NumsAre(s, n, v, w) /\ NumsAfter(s, n, v, x)
      BY <1>4, <2>2, <2>4, Zenon DEF NumsAre, NumsAfter
    <3>3. OwnStep(p, "loop", s, n, v, w, n, v, x)
      BY <2>3, <2>4, Zenon
    <3>. QED
      BY <1>0, <1>1, <1>2, <1>3, <3>1, <3>2, <3>3, OwnFits, Zenon
  <2>. QED
    BY <1>0, <1>1, <1>2, <1>3, <2>1, <2>2, <2>5, Worked DEF Working
<1>. QED
  BY <1>7, <1>8, <1>9 DEF NamedRing!Producer

(* A consumer on its segment: let in by product, it pops one element and   *)
(* posts space for it.                                                     *)
LEMMA NamedConsumer ==
  ASSUME NamedInv, NEW p \in RingConsumers, NamedRing!Consumer(p)
  PROVE  NamedInv'
<1>0. p \in NamedRing!Procs /\ p \notin RingProducers
  BY SyncAssumption DEF NamedRing!Procs
<1>1. PICK to \in Working :
        /\ namedPc[p] \in Working /\ quitting[p] = <<>> /\ namedPc' = [namedPc EXCEPT ![p] = to]
        /\ UNCHANGED <<ringKey, named, ringMade, shmid, semId, quitting>>
  BY DEF NamedRing!Consumer, NamedRing!Waits, NamedRing!queue_pop, NamedRing!Posts, NamedRing!To,
         NamedRing!kept, Working
<1>2. PICK s : s = shmid[p]
  OBVIOUS
<1>3. /\ s \in SlotSegments /\ semId[p]["space"] = s /\ semId[p]["product"] = s
      /\ NamedTypes /\ ~ ringRefused /\ NamedSize \in Nat
  BY <1>0, <1>1, <1>2, NamedBefore, Zenon
<1>4. PICK n \in Nat, v \in Nat, w \in Nat : n = Len(ring[s]) /\ v = value["space"][s] /\ w = value["product"][s]
  BY <1>3, NamedNumbers, Zenon
<1>5. n \in Nat /\ v \in Nat /\ w \in Nat
  BY <1>4, Zenon
<1>6. /\ ring \in [SlotSegments -> Seq(Nat)] /\ value \in [NamedRing!Names -> [SlotSegments -> Nat]]
      /\ elems \in Nat /\ "space" \in NamedRing!Names /\ "product" \in NamedRing!Names
  BY <1>3 DEF NamedTypes, NamedRing!Names
<1>7. CASE NamedRing!Waits(p, "product")
  <2>1. /\ namedPc[p] = "loop" /\ namedPc' = [namedPc EXCEPT ![p] = "inside"] /\ ring' = ring
        /\ value["product"][s] > 0 /\ value' = [value EXCEPT !["product"][s] = @ - 1]
        /\ elems' = elems /\ ringRefused' = ringRefused
    BY <1>3, <1>7 DEF NamedRing!Waits, NamedRing!To
  <2>2. /\ value' \in [NamedRing!Names -> [SlotSegments -> Nat]] /\ ring' \in [SlotSegments -> Seq(Nat)]
        /\ elems' \in Nat /\ ~ ringRefused'
        /\ \A t \in SlotSegments : t # s => ring'[t] = ring[t] /\ \A q \in NamedRing!Names : value'[q][t] = value[q][t]
        /\ n = Len(ring'[s]) /\ v = value'["space"][s] /\ w - 1 = value'["product"][s] /\ w > 0
    BY <1>3, <1>4, <1>5, <1>6, <2>1
  <2>3. OwnStep(p, "inside", s, n, v, w, n, v, w - 1)
    BY <1>0, <1>3, <1>5, <2>1, <2>2 DEF OwnStep, ConsumerSeats, Fits
  <2>4. PICK x : x = w - 1
    OBVIOUS
  <2>5. (NamedVacant(s) /\ NamedSupply(s))'
    <3>1. SeatGoes(p, "inside", s)
      BY <1>1, <1>2, <1>3, <2>1 DEF NamedTypes, SeatGoes
    <3>2. NumsAre(s, n, v, w) /\ NumsAfter(s, n, v, x)
      BY <1>4, <2>2, <2>4, Zenon DEF NumsAre, NumsAfter
    <3>3. OwnStep(p, "inside", s, n, v, w, n, v, x)
      BY <2>3, <2>4, Zenon
    <3>. QED
      BY <1>0, <1>1, <1>2, <1>3, <3>1, <3>2, <3>3, OwnFits, Zenon
  <2>. QED
    BY <1>0, <1>1, <1>2, <1>3, <2>1, <2>2, <2>5, Worked DEF Working
<1>8. CASE NamedRing!queue_pop(p)
  <2>1. /\ namedPc[p] = "inside" /\ namedPc' = [namedPc EXCEPT ![p] = "served"] /\ value' = value
        /\ elems' = elems
        /\ IF ring[s] # <<>>
           THEN ring' = [ring EXCEPT ![s] = Tail(@)] /\ ringRefused' = ringRefused
           ELSE ring' = ring
    BY <1>2, <1>8 DEF NamedRing!queue_pop, NamedRing!To
  <2>2. n >= 1
    <3>1. PICK i \in Nat, j \in Nat, k \in Nat, l \in Nat : Tally(s, i, j, k, l) /\ Fits(n, v, w, i, j, k, l)
      BY <1>3, <1>4, NamedNumbers, Zenon
    <3>2. SeatGoes(p, "served", s)
      BY <1>1, <1>2, <1>3, <2>1 DEF NamedTypes, SeatGoes
    <3>3. PICK a \in Nat, b \in Nat, c \in Nat, d \in Nat : Tally(s, a, b, c, d)'
      BY <1>0, <1>3, <3>2, TallyAfter, Zenon
    <3>4. ConsumerSeats(p, "served", i, j, k, l, a, b, c, d)
      BY <1>0, <1>1, <1>2, <1>3, <2>1, <3>1, <3>3, OwnSeats
    <3>5. k >= 1
      BY <2>1, <3>4 DEF ConsumerSeats
    <3>6. i \in Nat /\ j \in Nat /\ k \in Nat /\ l \in Nat /\ Fits(n, v, w, i, j, k, l)
      BY <3>1, Zenon
    <3>. QED
      BY <1>3, <1>5, <3>5, <3>6 DEF Fits
  <2>3. ring' = [ring EXCEPT ![s] = Tail(@)] /\ ringRefused' = ringRefused
    BY <1>3, <1>4, <1>6, <2>1, <2>2
  <2>4. Tail(ring[s]) \in Seq(Nat) /\ Len(Tail(ring[s])) = Len(ring[s]) - 1
    BY <1>3, <1>4, <1>6, <2>2
  <2>5. /\ value' \in [NamedRing!Names -> [SlotSegments -> Nat]] /\ ring' \in [SlotSegments -> Seq(Nat)]
        /\ elems' \in Nat /\ ~ ringRefused'
        /\ \A t \in SlotSegments : t # s => ring'[t] = ring[t] /\ \A q \in NamedRing!Names : value'[q][t] = value[q][t]
        /\ n - 1 = Len(ring'[s]) /\ v = value'["space"][s] /\ w = value'["product"][s]
    BY <1>3, <1>4, <1>5, <1>6, <2>1, <2>3, <2>4
  <2>6. OwnStep(p, "served", s, n, v, w, n - 1, v, w)
    BY <1>0, <1>3, <1>5, <2>1, <2>2 DEF OwnStep, ConsumerSeats, Fits
  <2>7. PICK x : x = n - 1
    OBVIOUS
  <2>8. (NamedVacant(s) /\ NamedSupply(s))'
    <3>1. SeatGoes(p, "served", s)
      BY <1>1, <1>2, <1>3, <2>1 DEF NamedTypes, SeatGoes
    <3>2. NumsAre(s, n, v, w) /\ NumsAfter(s, x, v, w)
      BY <1>4, <2>5, <2>7, Zenon DEF NumsAre, NumsAfter
    <3>3. OwnStep(p, "served", s, n, v, w, x, v, w)
      BY <2>6, <2>7, Zenon
    <3>. QED
      BY <1>0, <1>1, <1>2, <1>3, <3>1, <3>2, <3>3, OwnFits, Zenon
  <2>. QED
    BY <1>0, <1>1, <1>2, <1>3, <2>1, <2>5, <2>8, Worked DEF Working
<1>9. CASE NamedRing!Posts(p, "space")
  <2>1. /\ namedPc[p] = "served" /\ namedPc' = [namedPc EXCEPT ![p] = "loop"] /\ ring' = ring
        /\ value' = [value EXCEPT !["space"][s] = @ + 1]
        /\ elems' = elems /\ ringRefused' = ringRefused
    BY <1>3, <1>9 DEF NamedRing!Posts, NamedRing!To
  <2>2. /\ value' \in [NamedRing!Names -> [SlotSegments -> Nat]] /\ ring' \in [SlotSegments -> Seq(Nat)]
        /\ elems' \in Nat /\ ~ ringRefused'
        /\ \A t \in SlotSegments : t # s => ring'[t] = ring[t] /\ \A q \in NamedRing!Names : value'[q][t] = value[q][t]
        /\ n = Len(ring'[s]) /\ v + 1 = value'["space"][s] /\ w = value'["product"][s]
    BY <1>3, <1>4, <1>5, <1>6, <2>1
  <2>3. OwnStep(p, "loop", s, n, v, w, n, v + 1, w)
    BY <1>0, <1>3, <1>5, <2>1 DEF OwnStep, ConsumerSeats, Fits
  <2>4. PICK x : x = v + 1
    OBVIOUS
  <2>5. (NamedVacant(s) /\ NamedSupply(s))'
    <3>1. SeatGoes(p, "loop", s)
      BY <1>1, <1>2, <1>3, <2>1 DEF NamedTypes, SeatGoes
    <3>2. NumsAre(s, n, v, w) /\ NumsAfter(s, n, x, w)
      BY <1>4, <2>2, <2>4, Zenon DEF NumsAre, NumsAfter
    <3>3. OwnStep(p, "loop", s, n, v, w, n, x, w)
      BY <2>3, <2>4, Zenon
    <3>. QED
      BY <1>0, <1>1, <1>2, <1>3, <3>1, <3>2, <3>3, OwnFits, Zenon
  <2>. QED
    BY <1>0, <1>1, <1>2, <1>3, <2>1, <2>2, <2>5, Worked DEF Working
<1>. QED
  BY <1>7, <1>8, <1>9 DEF NamedRing!Consumer

-----------------------------------------------------------------------------
(* Who neither came from work nor goes to it leaves the counts.            *)
LEMMA IdleFits ==
  ASSUME NamedInv, NEW p \in NamedRing!Procs, NEW to \in NamedPlaces, NEW at, SeatGoes(p, to, at),
         namedPc[p] \notin {"inside", "served"}, to \notin {"inside", "served"}, NEW s \in SlotSegments,
         ring'[s] = ring[s], value'["space"][s] = value["space"][s], value'["product"][s] = value["product"][s]
  PROVE  (NamedVacant(s) /\ NamedSupply(s))'
<1>1. NamedTypes
  BY Zenon DEF NamedInv
<1>2. PICK i \in Nat, j \in Nat, k \in Nat, l \in Nat :
        Tally(s, i, j, k, l) /\ Fits(Len(ring[s]), value["space"][s], value["product"][s], i, j, k, l)
  BY NamedNumbers, Zenon
<1>3. Tally(s, i, j, k, l)'
  BY <1>1, <1>2, SeatsIdle, Zenon
<1>. QED
  BY <1>2, <1>3, Zenon DEF Fits, NamedVacant, NamedSupply, Tally

(* Where nothing of ring, semaphores and names changes.                    *)
LEMMA SameData ==
  ASSUME NamedInv, ring' = ring, value' = value,
         \A n \in NamedRing!Names : ringMade'[n] = ringMade[n]
  PROVE  Ahead'
<1>1. Ahead /\ "space" \in NamedRing!Names
  BY Zenon DEF NamedInv, NamedRing!Names
<1>. QED
  BY <1>1 DEF Ahead

(* GetShmId.                                                               *)
LEMMA NamedFinds ==
  ASSUME NamedInv, NEW p \in NamedRing!Procs, NamedRing!FindsSegment(p)
  PROVE  NamedInv'
<1>1. NamedTypes /\ InStep /\ OneByOne /\ OwnSems /\ ~ ringRefused
  BY Zenon DEF NamedInv
<1>2. /\ namedPc[p] = "none" /\ namedPc' = [namedPc EXCEPT ![p] = "opens space"]
      /\ ringKey # NULL /\ shmid' = [shmid EXCEPT ![p] = ringKey]
      /\ ringKey' = ringKey /\ named' = named /\ ringMade' = ringMade /\ ring' = ring /\ value' = value
      /\ semId' = semId /\ quitting' = quitting /\ elems' = elems /\ ringRefused' = ringRefused
  BY DEF NamedRing!FindsSegment, NamedRing!To, NamedRing!kept
<1>3. NamedRing!Starting = {} /\ Quiet
  BY DEF NamedRing!FindsSegment, NamedRing!MayStart, Quiet
<1>4. /\ namedPc'[p] = "opens space" /\ shmid'[p] = ringKey
      /\ \A q \in NamedRing!Procs : q # p => namedPc'[q] = namedPc[q] /\ shmid'[q] = shmid[q]
  BY <1>1, <1>2 DEF NamedTypes
<1>5. NamedTypes'
  BY <1>1, <1>2 DEF NamedTypes, NamedPlaces
<1>6. InStep' /\ Newest' = Newest /\ Quiet'
  BY <1>1, <1>2, <1>3 DEF InStep, Newest, Quiet
<1>7. OneByOne'
  <2>1. \A q \in NamedRing!Procs : q \in NamedRing!Starting' => q = p
    BY <1>3, <1>4 DEF NamedRing!Starting
  <2>2. \A q \in NamedRing!Procs : quitting'[q] = <<>>
    BY <1>2, <1>3 DEF Quiet
  <2>3. \A q \in NamedRing!Starting' : q \in NamedRing!Procs
    BY DEF NamedRing!Starting
  <2>. QED
    BY <1>2, <1>4, <1>6, <2>1, <2>2, <2>3 DEF OneByOne
<1>8. OwnSems'
  BY <1>1, <1>2, <1>4 DEF OwnSems, Working
<1>9. Ahead'
  BY <1>2, SameData
<1>10. ASSUME NEW s \in SlotSegments PROVE (NamedVacant(s) /\ NamedSupply(s))'
  <2>1. SeatGoes(p, "opens space", ringKey)
    BY <1>2 DEF SeatGoes
  <2>2. PICK at : at = ringKey
    OBVIOUS
  <2>3. "opens space" \in NamedPlaces /\ "opens space" \notin {"inside", "served"} /\ namedPc[p] \notin {"inside", "served"}
    BY <1>2 DEF NamedPlaces
  <2>4. SeatGoes(p, "opens space", at)
    BY <2>1, <2>2, Zenon
  <2>. QED
    BY <1>2, <2>3, <2>4, IdleFits
<1>. QED
  BY <1>1, <1>2, <1>5, <1>6, <1>7, <1>8, <1>9, <1>10, Zenon DEF NamedInv

(* A new segment is one nobody sits at, and the names are one behind it.   *)
LEMMA NamedCreates ==
  ASSUME NamedInv, NEW p \in NamedRing!Procs, NamedRing!Creates(p)
  PROVE  NamedInv'
<1>1. NamedTypes /\ InStep /\ OneByOne /\ OwnSems /\ ~ ringRefused
  BY Zenon DEF NamedInv
<1>2. /\ namedPc[p] = "none" /\ namedPc' = [namedPc EXCEPT ![p] = "created"]
      /\ ringKey = NULL /\ Newest + 1 \in SlotSegments /\ ringMade' = [ringMade EXCEPT !["segment"] = Newest + 1]
      /\ ringKey' = ringMade'["segment"] /\ shmid' = [shmid EXCEPT ![p] = ringKey']
      /\ named' = named /\ ring' = ring /\ value' = value
      /\ semId' = semId /\ quitting' = quitting /\ elems' = elems /\ ringRefused' = ringRefused
  BY DEF NamedRing!Creates, NamedRing!To, Newest
<1>3. NamedRing!Starting = {} /\ Quiet
  BY DEF NamedRing!Creates, NamedRing!MayStart, Quiet
<1>k. /\ ringKey' = Newest + 1 /\ Newest' = Newest + 1 /\ shmid' = [shmid EXCEPT ![p] = Newest + 1]
      /\ \A n \in NamedRing!Names : ringMade'[n] = ringMade[n]
      /\ Newest \in Nat /\ Newest + 1 # NULL
  BY <1>1, <1>2, SyncAssumption DEF NamedTypes, Newest, NamedRing!Names
<1>4. /\ namedPc'[p] = "created" /\ shmid'[p] = Newest + 1
      /\ \A q \in NamedRing!Procs : q # p => namedPc'[q] = namedPc[q] /\ shmid'[q] = shmid[q]
  BY <1>1, <1>2, <1>k DEF NamedTypes
<1>5. NamedTypes'
  <2>1. ringMade' \in [NamedRing!Names \union {"segment"} -> Nat]
    BY <1>1, <1>2, <1>k DEF NamedTypes
  <2>2. shmid' \in [NamedRing!Procs -> SlotSegments \union {NULL}] /\ ringKey' \in SlotSegments \union {NULL}
    BY <1>1, <1>2, <1>k DEF NamedTypes
  <2>. QED
    BY <1>1, <1>2, <2>1, <2>2 DEF NamedTypes, NamedPlaces
<1>6. InStep' /\ Quiet'
  <2>1. \A n \in NamedRing!Names : named[n] = NULL /\ ringMade[n] = Newest
    BY <1>1, <1>2, <1>3 DEF InStep
  <2>2. \A n \in NamedRing!Names : ringMade'[n] + 1 = Newest' /\ ringMade'[n] # Newest' /\ named'[n] = NULL
    BY <1>2, <1>k, <2>1
  <2>3. ringKey' = Newest' /\ ringKey' # NULL
    BY <1>k
  <2>4. Quiet'
    BY <1>2, <1>3 DEF Quiet
  <2>. QED
    BY <2>2, <2>3, <2>4 DEF InStep
<1>7. OneByOne'
  <2>1. \A q \in NamedRing!Procs : q \in NamedRing!Starting' => q = p
    BY <1>3, <1>4 DEF NamedRing!Starting
  <2>2. \A q \in NamedRing!Procs : quitting'[q] = <<>>
    BY <1>2, <1>3 DEF Quiet
  <2>3. \A q \in NamedRing!Starting' : q \in NamedRing!Procs
    BY DEF NamedRing!Starting
  <2>4. ringMade'["space"] + 1 = Newest' /\ ringKey' # NULL /\ shmid'[p] = ringKey'
    <3>1. ringMade["space"] = Newest /\ "space" \in NamedRing!Names
      BY <1>1, <1>2, <1>3 DEF InStep, NamedRing!Names
    <3>. QED
      BY <1>4, <1>k, <3>1
  <2>. QED
    BY <1>4, <1>6, <2>1, <2>2, <2>3, <2>4 DEF OneByOne
<1>8. OwnSems'
  BY <1>1, <1>2, <1>4, <1>k DEF OwnSems, Working
<1>9. Ahead'
  BY <1>2, <1>k, SameData
<1>10. ASSUME NEW s \in SlotSegments PROVE (NamedVacant(s) /\ NamedSupply(s))'
  <2>2. PICK at : at = Newest + 1
    OBVIOUS
  <2>3. "created" \in NamedPlaces /\ "created" \notin {"inside", "served"} /\ namedPc[p] \notin {"inside", "served"}
    BY <1>2 DEF NamedPlaces
  <2>4. SeatGoes(p, "created", at)
    BY <1>2, <1>k, <2>2, Zenon DEF SeatGoes
  <2>. QED
    BY <1>2, <2>3, <2>4, IdleFits
<1>. QED
  BY <1>1, <1>2, <1>5, <1>6, <1>7, <1>8, <1>9, <1>10, Zenon DEF NamedInv

(* Who starts is alone in it, and works on the newest segment.             *)
LEMMA StarterIs ==
  ASSUME NamedInv, NEW p \in NamedRing!Procs, p \in NamedRing!Starting
  PROVE  /\ Quiet /\ \A q \in NamedRing!Starting : q = p
         /\ ringKey # NULL /\ shmid[p] = Newest /\ ringKey = Newest /\ Newest \in SlotSegments /\ Newest \in Nat
         /\ namedPc[p] = "created" => ringMade["space"] + 1 = Newest
         /\ namedPc[p] = "opens product" => semId[p]["space"] = Newest /\ ringMade["space"] = Newest
         /\ \A n \in NamedRing!Names :
              IF named[n] = NULL THEN ringMade[n] + 1 = Newest ELSE named[n] = Newest /\ ringMade[n] = Newest
<1>1. NamedTypes /\ InStep /\ OneByOne
  BY Zenon DEF NamedInv
<1>2. ringKey # NULL /\ shmid[p] = ringKey /\ Quiet /\ \A q \in NamedRing!Starting : q = p
  BY <1>1, Zenon DEF OneByOne
<1>3. ringKey = Newest /\ Newest \in SlotSegments /\ Newest \in Nat
  BY <1>1, <1>2, SyncAssumption DEF InStep, NamedTypes
<1>4. /\ namedPc[p] = "created" => ringMade["space"] + 1 = Newest
      /\ namedPc[p] = "opens product" => semId[p]["space"] = Newest /\ ringMade["space"] = Newest
  BY <1>1, Zenon DEF OneByOne
<1>5. \A n \in NamedRing!Names :
        IF named[n] = NULL THEN ringMade[n] + 1 = Newest ELSE named[n] = Newest /\ ringMade[n] = Newest
  BY <1>1, <1>2 DEF InStep
<1>. QED
  BY <1>2, <1>3, <1>4, <1>5

(* The ring of a new segment is empty before anybody works on it.          *)
LEMMA NamedInitQueue ==
  ASSUME NamedInv, NEW p \in NamedRing!Procs, NamedRing!queue_init(p)
  PROVE  NamedInv'
<1>1. NamedTypes /\ InStep /\ OneByOne /\ OwnSems /\ Ahead /\ ~ ringRefused
  BY Zenon DEF NamedInv
<1>2. /\ namedPc[p] = "created" /\ namedPc' = [namedPc EXCEPT ![p] = "opens space"]
      /\ ring' = [ring EXCEPT ![shmid[p]] = <<>>] /\ shmid' = shmid
      /\ ringKey' = ringKey /\ named' = named /\ ringMade' = ringMade /\ value' = value
      /\ semId' = semId /\ quitting' = quitting /\ elems' = elems /\ ringRefused' = ringRefused
  BY DEF NamedRing!queue_init, NamedRing!To, NamedRing!kept
<1>3. p \in NamedRing!Starting
  BY <1>2 DEF NamedRing!Starting
<1>4. /\ Quiet /\ \A q \in NamedRing!Starting : q = p
      /\ ringKey # NULL /\ shmid[p] = Newest /\ ringKey = Newest /\ Newest \in SlotSegments /\ Newest \in Nat
      /\ ringMade["space"] + 1 = Newest
  BY <1>2, <1>3, StarterIs, Zenon
<1>5. ring' = ring
  <2>1. ring[Newest] = <<>>
    <3>1. ringMade["space"] \in Nat
      BY <1>1 DEF NamedTypes, NamedRing!Names
    <3>2. ringMade["space"] < Newest
      BY <1>4, <3>1
    <3>. QED
      BY <1>1, <1>4, <3>2, Zenon DEF Ahead
  <2>. QED
    BY <1>1, <1>2, <1>4, <2>1 DEF NamedTypes
<1>6. /\ namedPc'[p] = "opens space"
      /\ \A q \in NamedRing!Procs : q # p => namedPc'[q] = namedPc[q]
  BY <1>1, <1>2 DEF NamedTypes
<1>7. NamedTypes'
  BY <1>1, <1>2, <1>5 DEF NamedTypes, NamedPlaces
<1>8. InStep' /\ Newest' = Newest /\ Quiet'
  BY <1>1, <1>2, <1>4 DEF InStep, Newest, Quiet
<1>9. OneByOne'
  <2>1. \A q \in NamedRing!Procs : q \in NamedRing!Starting' => q = p
    BY <1>4, <1>6 DEF NamedRing!Starting
  <2>2. \A q \in NamedRing!Procs : quitting'[q] = <<>>
    BY <1>2, <1>4 DEF Quiet
  <2>3. \A q \in NamedRing!Starting' : q \in NamedRing!Procs
    BY DEF NamedRing!Starting
  <2>. QED
    BY <1>2, <1>4, <1>6, <1>8, <2>1, <2>2, <2>3 DEF OneByOne
<1>10. OwnSems'
  BY <1>1, <1>2, <1>6 DEF OwnSems, Working
<1>11. Ahead'
  BY <1>2, <1>5, SameData
<1>12. ASSUME NEW s \in SlotSegments PROVE (NamedVacant(s) /\ NamedSupply(s))'
  <2>2. PICK at : at = shmid[p]
    OBVIOUS
  <2>3. "opens space" \in NamedPlaces /\ "opens space" \notin {"inside", "served"} /\ namedPc[p] \notin {"inside", "served"}
    BY <1>2 DEF NamedPlaces
  <2>4. SeatGoes(p, "opens space", at)
    BY <1>1, <1>2, <2>2 DEF SeatGoes, NamedTypes
  <2>. QED
    BY <1>2, <1>5, <2>3, <2>4, IdleFits
<1>. QED
  BY <1>1, <1>2, <1>7, <1>8, <1>9, <1>10, <1>11, <1>12, Zenon DEF NamedInv

(* sem_open gives the semaphore of the newest segment.                     *)
Opened(p, n, initial) ==
  /\ semId' = [semId EXCEPT ![p][n] = Newest] /\ ringMade' = [ringMade EXCEPT ![n] = Newest]
  /\ named' = [named EXCEPT ![n] = Newest]
  /\ ringKey' = ringKey /\ ring' = ring /\ shmid' = shmid /\ elems' = elems /\ ringRefused' = ringRefused
  /\ \/ named[n] # NULL /\ value' = value
     \/ named[n] = NULL /\ ringMade[n] + 1 = Newest /\ value' = [value EXCEPT ![n][Newest] = initial]

(* sem_open finds the semaphore of the newest segment, or makes the one    *)
(* that is missing.                                                        *)
LEMMA SemOpens ==
  ASSUME NamedInv, NEW p \in NamedRing!Procs, p \in NamedRing!Starting, NEW n \in NamedRing!Names,
         NEW initial, NamedRing!sem_open(p, n, initial)
  PROVE  Opened(p, n, initial)
<1>1. NamedTypes
  BY Zenon DEF NamedInv
<1>2. IF named[n] = NULL THEN ringMade[n] + 1 = Newest ELSE named[n] = Newest /\ ringMade[n] = Newest
  BY StarterIs, Zenon
<1>3. ringMade[n] + 1 = Newest => ringMade[n] + 1 \in Nat
  BY <1>1 DEF NamedTypes
<1>4. /\ semId' = [semId EXCEPT ![p][n] = named'[n]]
      /\ ringKey' = ringKey /\ ring' = ring /\ shmid' = shmid /\ elems' = elems /\ ringRefused' = ringRefused
  BY DEF NamedRing!sem_open
<1>5. CASE named[n] # NULL
  <2>1. named' = named /\ value' = value /\ ringMade' = ringMade /\ named[n] = Newest /\ ringMade[n] = Newest
    BY <1>2, <1>5 DEF NamedRing!sem_open
  <2>2. named' = [named EXCEPT ![n] = Newest] /\ ringMade' = [ringMade EXCEPT ![n] = Newest]
    BY <1>1, <2>1 DEF NamedTypes
  <2>. QED
    BY <1>4, <1>5, <2>1, <2>2 DEF Opened
<1>6. CASE named[n] = NULL
  <2>1. /\ ringMade' = [ringMade EXCEPT ![n] = @ + 1] /\ named' = [named EXCEPT ![n] = ringMade'[n]]
        /\ value' = [value EXCEPT ![n][ringMade'[n]] = initial]
    BY <1>6 DEF NamedRing!sem_open
  <2>2. ringMade[n] + 1 = Newest
    BY <1>2, <1>6
  <2>3. ringMade' = [ringMade EXCEPT ![n] = Newest] /\ ringMade'[n] = Newest
    BY <1>1, <2>1, <2>2 DEF NamedTypes
  <2>4. named' = [named EXCEPT ![n] = Newest] /\ named'[n] = Newest /\ value' = [value EXCEPT ![n][Newest] = initial]
    BY <1>1, <2>1, <2>3 DEF NamedTypes
  <2>. QED
    BY <1>4, <1>6, <2>2, <2>3, <2>4 DEF Opened
<1>. QED
  BY <1>5, <1>6

Renamed(p, n) ==
  /\ NamedTypes' /\ InStep' /\ Ahead' /\ Newest' = Newest /\ Quiet' /\ ringMade'[n] = Newest
  /\ semId'[p][n] = Newest /\ \A m \in NamedRing!Names : m # n => semId'[p][m] = semId[p][m]
  /\ \A q \in NamedRing!Procs : q # p => semId'[q] = semId[q]
  /\ \A m \in NamedRing!Names : ringMade[m] <= ringMade'[m] /\ (m # n => ringMade'[m] = ringMade[m])
  /\ \A m \in NamedRing!Names, s \in SlotSegments : m # n \/ s # Newest => value'[m][s] = value[m][s]

(* Opening a name brings it in step with the newest segment.               *)
LEMMA NamesOpened ==
  ASSUME NamedInv, NEW p \in NamedRing!Procs, p \in NamedRing!Starting, NEW n \in NamedRing!Names,
         NEW initial \in Nat, Opened(p, n, initial), quitting' = quitting,
         NEW to \in NamedPlaces, namedPc' = [namedPc EXCEPT ![p] = to]
  PROVE  Renamed(p, n)
<1>1. NamedTypes /\ InStep /\ Ahead
  BY Zenon DEF NamedInv
<1>2. /\ Quiet /\ ringKey # NULL /\ ringKey = Newest /\ Newest \in SlotSegments /\ Newest \in Nat
      /\ \A m \in NamedRing!Names :
           IF named[m] = NULL THEN ringMade[m] + 1 = Newest ELSE named[m] = Newest /\ ringMade[m] = Newest
  BY StarterIs, Zenon
<1>3. /\ semId' = [semId EXCEPT ![p][n] = Newest] /\ ringMade' = [ringMade EXCEPT ![n] = Newest]
      /\ named' = [named EXCEPT ![n] = Newest]
      /\ ringKey' = ringKey /\ ring' = ring /\ shmid' = shmid /\ elems' = elems
  BY Zenon DEF Opened
<1>4. n # "segment"
  BY DEF NamedRing!Names
<1>5. Newest' = Newest /\ ringMade'[n] = Newest /\ \A m \in NamedRing!Names : m # n => ringMade'[m] = ringMade[m]
  BY <1>1, <1>2, <1>3, <1>4 DEF NamedTypes, Newest
<1>6. named'[n] = Newest /\ \A m \in NamedRing!Names : m # n => named'[m] = named[m]
  BY <1>1, <1>3 DEF NamedTypes
<1>7. PICK row : row = semId[p]
  OBVIOUS
<1>8. row \in [NamedRing!Names -> SlotSegments \union {NULL}]
  BY <1>1, <1>7 DEF NamedTypes
<1>9. semId' = [semId EXCEPT ![p] = [row EXCEPT ![n] = Newest]]
  BY <1>1, <1>3, <1>7 DEF NamedTypes
<1>10. /\ semId'[p][n] = Newest /\ \A m \in NamedRing!Names : m # n => semId'[p][m] = semId[p][m]
       /\ \A q \in NamedRing!Procs : q # p => semId'[q] = semId[q]
       /\ semId' \in [NamedRing!Procs -> [NamedRing!Names -> SlotSegments \union {NULL}]]
  BY <1>1, <1>2, <1>7, <1>8, <1>9 DEF NamedTypes
<1>11. /\ value' \in [NamedRing!Names -> [SlotSegments -> Nat]]
       /\ \A m \in NamedRing!Names, s \in SlotSegments : m # n \/ s # Newest => value'[m][s] = value[m][s]
  <2>1. value' = value \/ value' = [value EXCEPT ![n][Newest] = initial]
    BY DEF Opened
  <2>2. value \in [NamedRing!Names -> [SlotSegments -> Nat]]
    BY <1>1 DEF NamedTypes
  <2>3. PICK old : old = value[n]
    OBVIOUS
  <2>4. old \in [SlotSegments -> Nat]
    BY <2>2, <2>3
  <2>5. CASE value' = value
    BY <2>2, <2>5
  <2>6. CASE value' = [value EXCEPT ![n][Newest] = initial]
    <3>1. value' = [value EXCEPT ![n] = [old EXCEPT ![Newest] = initial]]
      BY <2>2, <2>3, <2>6
    <3>. QED
      BY <1>2, <2>2, <2>3, <2>4, <3>1
  <2>. QED
    BY <2>1, <2>5, <2>6
<1>12. NamedTypes'
  <2>1. ringMade' \in [NamedRing!Names \union {"segment"} -> Nat]
    BY <1>1, <1>2, <1>3 DEF NamedTypes
  <2>2. named' \in [NamedRing!Names -> SlotSegments \union {NULL}]
    BY <1>1, <1>2, <1>3 DEF NamedTypes
  <2>3. namedPc' \in [NamedRing!Procs -> NamedPlaces]
    BY <1>1 DEF NamedTypes
  <2>4. /\ ringKey' \in SlotSegments \union {NULL} /\ ring' \in [SlotSegments -> Seq(Nat)]
        /\ shmid' \in [NamedRing!Procs -> SlotSegments \union {NULL}]
        /\ quitting' \in [NamedRing!Procs -> Quits] /\ elems' \in Nat
    BY <1>1, <1>3, Zenon DEF NamedTypes
  <2>5. NamedRing!Procs' = NamedRing!Procs /\ NamedRing!Names' = NamedRing!Names
    OBVIOUS
  <2>. QED
    BY <1>10, <1>11, <2>1, <2>2, <2>3, <2>4, <2>5, Zenon DEF NamedTypes
<1>13. Quiet'
  BY <1>2 DEF Quiet
<1>14. InStep'
  <2>1. Newest # NULL
    BY <1>2, SyncAssumption
  <2>2. \A m \in NamedRing!Names :
          /\ named'[m] # NULL => named'[m] = Newest' /\ ringMade'[m] = Newest'
          /\ ringMade'[m] = Newest' \/ (ringMade'[m] + 1 = Newest' /\ named'[m] = NULL)
          /\ ringMade'[m] = Newest' => named'[m] # NULL
    <3>1. ASSUME NEW m \in NamedRing!Names, m # n
          PROVE  /\ named'[m] = named[m] /\ ringMade'[m] = ringMade[m] /\ ringMade[m] \in Nat
                 /\ IF named[m] = NULL THEN ringMade[m] + 1 = Newest ELSE named[m] = Newest /\ ringMade[m] = Newest
      BY <1>1, <1>2, <1>5, <1>6, <3>1 DEF NamedTypes
    <3>. QED
      BY <1>2, <1>5, <1>6, <2>1, <3>1
  <2>3. ringKey' = Newest' /\ ringKey' # NULL
    BY <1>2, <1>3, <1>5, <2>1
  <2>. QED
    BY <2>2, <2>3 DEF InStep
<1>15. \A m \in NamedRing!Names : ringMade[m] <= ringMade'[m]
  <2>1. ASSUME NEW m \in NamedRing!Names PROVE ringMade[m] <= ringMade'[m]
    <3>1. ringMade[m] \in Nat /\ (ringMade[m] + 1 = Newest \/ ringMade[m] = Newest)
      BY <1>1, <1>2 DEF NamedTypes
    <3>. QED
      BY <1>2, <1>5, <3>1
  <2>. QED
    BY <2>1
<1>16. Ahead'
  <2>1. \A m \in NamedRing!Names, s \in SlotSegments : ringMade'[m] < s => ringMade[m] < s /\ (m # n \/ s # Newest)
    <3>1. ASSUME NEW m \in NamedRing!Names, NEW s \in SlotSegments, ringMade'[m] < s
          PROVE  ringMade[m] < s /\ (m # n \/ s # Newest)
      <4>1. ringMade[m] \in Nat /\ ringMade'[m] \in Nat /\ s \in Nat
        BY <1>1, <1>12, SyncAssumption DEF NamedTypes
      <4>. QED
        BY <1>2, <1>5, <1>15, <3>1, <4>1
    <3>. QED
      BY <3>1
  <2>2. /\ \A m \in NamedRing!Names, s \in SlotSegments : ringMade[m] < s => value[m][s] = 0
        /\ \A s \in SlotSegments : ringMade["space"] < s => ring[s] = <<>>
    BY <1>1, Zenon DEF Ahead
  <2>3. /\ \A m \in NamedRing!Names, s \in SlotSegments : ringMade'[m] < s => value'[m][s] = 0
        /\ \A s \in SlotSegments : ringMade'["space"] < s => ring'[s] = <<>>
    <3>1. "space" \in NamedRing!Names
      BY DEF NamedRing!Names
    <3>. QED
      BY <1>3, <1>11, <2>1, <2>2, <3>1
  <2>. QED
    BY <2>3, Zenon DEF Ahead
<1>. QED
  BY <1>5, <1>10, <1>11, <1>12, <1>13, <1>14, <1>15, <1>16, Zenon DEF Renamed

(* space is made with as many units as the new ring has slots, or found as *)
(* it stands.                                                              *)
LEMMA NamedOpensSpace ==
  ASSUME NamedInv, NEW p \in NamedRing!Procs, NamedRing!OpensSpace(p)
  PROVE  NamedInv'
<1>1. NamedTypes /\ OneByOne /\ OwnSems /\ Ahead /\ ~ ringRefused
  BY Zenon DEF NamedInv
<1>2. /\ namedPc[p] = "opens space" /\ namedPc' = [namedPc EXCEPT ![p] = "opens product"] /\ quitting' = quitting
      /\ NamedRing!sem_open(p, "space", NamedSize)
  BY DEF NamedRing!OpensSpace, NamedRing!To
<1>3. p \in NamedRing!Starting /\ "space" \in NamedRing!Names /\ "opens product" \in NamedPlaces
  BY <1>2 DEF NamedRing!Starting, NamedRing!Names, NamedPlaces
<1>4. /\ Quiet /\ \A q \in NamedRing!Starting : q = p
      /\ ringKey # NULL /\ shmid[p] = Newest /\ ringKey = Newest /\ Newest \in SlotSegments /\ Newest \in Nat
  BY <1>3, StarterIs, Zenon
<1>5. NamedSize \in Nat
  BY SyncAssumption
<1>6. Opened(p, "space", NamedSize)
  BY <1>2, <1>3, SemOpens
<1>7. /\ NamedTypes' /\ InStep' /\ Ahead' /\ Newest' = Newest /\ Quiet' /\ ringMade'["space"] = Newest
      /\ semId'[p]["space"] = Newest
      /\ \A q \in NamedRing!Procs : q # p => semId'[q] = semId[q]
      /\ \A m \in NamedRing!Names : ringMade[m] <= ringMade'[m]
      /\ \A m \in NamedRing!Names, s \in SlotSegments : m # "space" \/ s # Newest => value'[m][s] = value[m][s]
  <2>1. Renamed(p, "space")
    BY <1>2, <1>3, <1>5, <1>6, NamesOpened
  <2>. QED
    BY <2>1, Zenon DEF Renamed
<1>8. /\ ringKey' = ringKey /\ ring' = ring /\ shmid' = shmid /\ ringRefused' = ringRefused
      /\ namedPc'[p] = "opens product" /\ \A q \in NamedRing!Procs : q # p => namedPc'[q] = namedPc[q]
  BY <1>1, <1>2, <1>6 DEF Opened, NamedTypes
<1>9. OneByOne'
  <2>1. \A q \in NamedRing!Procs : q \in NamedRing!Starting' => q = p
    BY <1>4, <1>8 DEF NamedRing!Starting
  <2>2. \A q \in NamedRing!Procs : quitting'[q] = <<>>
    BY <1>2, <1>4 DEF Quiet
  <2>3. \A q \in NamedRing!Starting' : q \in NamedRing!Procs
    BY DEF NamedRing!Starting
  <2>4. /\ namedPc'[p] = "opens product" /\ Quiet' /\ ringKey' # NULL /\ shmid'[p] = ringKey'
        /\ ringMade'["space"] = Newest' /\ semId'[p]["space"] = Newest'
    BY <1>4, <1>7, <1>8
  <2>. QED
    BY <2>1, <2>2, <2>3, <2>4 DEF OneByOne
<1>10. OwnSems'
  <2>1. ASSUME NEW q \in NamedRing!Procs, namedPc'[q] \in Working
        PROVE  /\ shmid'[q] # NULL
               /\ \A n \in NamedRing!Names : semId'[q][n] = shmid'[q] /\ shmid'[q] <= ringMade'[n]
    <3>1. q # p /\ namedPc[q] \in Working
      BY <1>8, <2>1 DEF Working
    <3>2. shmid[q] # NULL /\ \A n \in NamedRing!Names : semId[q][n] = shmid[q] /\ shmid[q] <= ringMade[n]
      BY <1>1, <3>1, Zenon DEF OwnSems
    <3>3. shmid[q] \in Nat /\ \A n \in NamedRing!Names : ringMade[n] \in Nat /\ ringMade'[n] \in Nat
      BY <1>1, <1>7, <3>2, SyncAssumption DEF NamedTypes
    <3>4. \A n \in NamedRing!Names : shmid[q] <= ringMade'[n]
      <4>1. \A x, y, z \in Nat : x <= y /\ y <= z => x <= z
        OBVIOUS
      <4>. QED
        BY <1>7, <3>2, <3>3, <4>1, Zenon
    <3>. QED
      BY <1>7, <1>8, <3>1, <3>2, <3>4, Zenon
  <2>. QED
    BY <2>1, Zenon DEF OwnSems
<1>11. ASSUME NEW s \in SlotSegments PROVE (NamedVacant(s) /\ NamedSupply(s))'
  <2>1. SeatGoes(p, "opens product", shmid[p])
    BY <1>1, <1>2, <1>8 DEF SeatGoes, NamedTypes
  <2>2. PICK at : at = shmid[p]
    OBVIOUS
  <2>3. SeatGoes(p, "opens product", at)
    BY <2>1, <2>2, Zenon
  <2>4. "opens product" \notin {"inside", "served"} /\ namedPc[p] \notin {"inside", "served"}
    BY <1>2
  <2>5. "product" # "space" /\ "product" \in NamedRing!Names
    BY DEF NamedRing!Names
  <2>6. CASE value' = value \/ s # Newest
    <3>1. value'["space"][s] = value["space"][s] /\ value'["product"][s] = value["product"][s]
      BY <1>3, <1>7, <2>5, <2>6
    <3>. QED
      BY <1>3, <1>8, <2>3, <2>4, <3>1, IdleFits
  <2>7. CASE value' # value /\ s = Newest
    <3>1. ringMade["space"] + 1 = Newest /\ value' = [value EXCEPT !["space"][Newest] = NamedSize]
      BY <1>6, <2>7 DEF Opened
    <3>2. ringMade["space"] < Newest
      <4>1. ringMade["space"] \in Nat
        BY <1>1, <1>3 DEF NamedTypes
      <4>. QED
        BY <3>1, <4>1
    <3>3. ring[s] = <<>>
      BY <1>1, <2>7, <3>2, Zenon DEF Ahead
    <3>4. value'["space"][s] = NamedSize /\ value'["product"][s] = value["product"][s]
      BY <1>1, <1>3, <2>5, <2>7, <3>1 DEF NamedTypes
    <3>5. \A q \in NamedRing!Procs : \A x \in {"inside", "served"} : Seats[q] \notin {<<x, s>>}
      <4>1. ASSUME NEW q \in NamedRing!Procs, namedPc[q] \in {"inside", "served"}
            PROVE  shmid[q] # s
        <5>1. shmid[q] # NULL /\ shmid[q] <= ringMade["space"]
          BY <1>1, <1>3, <4>1 DEF OwnSems, Working
        <5>2. shmid[q] \in Nat /\ ringMade["space"] \in Nat
          BY <1>1, <1>3, <5>1, SyncAssumption DEF NamedTypes
        <5>. QED
          BY <1>4, <2>7, <3>2, <5>1, <5>2
      <4>2. \A q \in NamedRing!Procs : Seats[q] = <<namedPc[q], shmid[q]>>
        BY Zenon DEF Seats
      <4>. QED
        BY <4>1, <4>2
    <3>6. Tally(s, 0, 0, 0, 0)
      <4>1. ASSUME NEW x \in {"inside", "served"}
            PROVE  /\ \A q \in RingProducers : Seats[q] \notin {<<x, s>>}
                   /\ \A q \in RingConsumers : Seats[q] \notin {<<x, s>>}
        BY <3>5, Zenon DEF NamedRing!Procs
      <4>2. \A x \in {"inside", "served"} :
              Counted(Seats, RingProducers, {<<x, s>>}) = 0 /\ Counted(Seats, RingConsumers, {<<x, s>>}) = 0
        BY <4>1, CountsNobody, Zenon
      <4>3. "inside" \in {"inside", "served"} /\ "served" \in {"inside", "served"}
        OBVIOUS
      <4>. QED
        BY <4>2, <4>3, Zenon DEF Tally, Inside, Served
    <3>7. Tally(s, 0, 0, 0, 0)'
      <4>1. PICK z \in Nat : z = 0
        OBVIOUS
      <4>2. Tally(s, z, z, z, z)
        BY <3>6, <4>1, Zenon
      <4>3. Tally(s, z, z, z, z)'
        BY <1>1, <1>3, <2>3, <2>4, <4>1, <4>2, SeatsIdle, Zenon
      <4>. QED
        BY <4>1, <4>3, Zenon
    <3>8. Fits(Len(ring[s]), value["space"][s], value["product"][s], 0, 0, 0, 0)
      BY <1>1, <3>6, FitsIs, Zenon DEF NamedInv
    <3>9. Len(ring[s]) = 0 /\ Len(ring'[s]) = 0
      BY <1>8, <3>3
    <3>10. Fits(Len(ring'[s]), value'["space"][s], value'["product"][s], 0, 0, 0, 0)
      BY <1>5, <3>4, <3>8, <3>9 DEF Fits
    <3>. QED
      BY <3>7, <3>10, Zenon DEF Fits, NamedVacant, NamedSupply, Tally
  <2>. QED
    BY <2>6, <2>7
<1>. QED
  BY <1>1, <1>7, <1>8, <1>9, <1>10, <1>11, Zenon DEF NamedInv

(* product is made empty, or found; with it the process may work.          *)
LEMMA NamedOpensProduct ==
  ASSUME NamedInv, NEW p \in NamedRing!Procs, NamedRing!OpensProduct(p)
  PROVE  NamedInv'
<1>1. NamedTypes /\ OneByOne /\ OwnSems /\ Ahead /\ ~ ringRefused
  BY Zenon DEF NamedInv
<1>2. /\ namedPc[p] = "opens product" /\ namedPc' = [namedPc EXCEPT ![p] = "loop"] /\ quitting' = quitting
      /\ NamedRing!sem_open(p, "product", 0)
  BY DEF NamedRing!OpensProduct, NamedRing!To
<1>3. /\ p \in NamedRing!Starting /\ "space" \in NamedRing!Names /\ "product" \in NamedRing!Names
      /\ "product" # "space" /\ "loop" \in NamedPlaces
  BY <1>2 DEF NamedRing!Starting, NamedRing!Names, NamedPlaces
<1>4. /\ Quiet /\ \A q \in NamedRing!Starting : q = p
      /\ ringKey # NULL /\ shmid[p] = Newest /\ ringKey = Newest /\ Newest \in SlotSegments /\ Newest \in Nat
      /\ semId[p]["space"] = Newest /\ ringMade["space"] = Newest
  BY <1>2, <1>3, StarterIs, Zenon
<1>5. PICK zero \in Nat : zero = 0
  OBVIOUS
<1>6. Opened(p, "product", zero)
  <2>1. NamedRing!sem_open(p, "product", zero)
    BY <1>2, <1>5, Zenon
  <2>. QED
    BY <1>3, <2>1, SemOpens
<1>7. /\ NamedTypes' /\ InStep' /\ Ahead' /\ Newest' = Newest /\ Quiet' /\ ringMade'["product"] = Newest
      /\ semId'[p]["product"] = Newest
      /\ \A m \in NamedRing!Names : m # "product" => semId'[p][m] = semId[p][m] /\ ringMade'[m] = ringMade[m]
      /\ \A q \in NamedRing!Procs : q # p => semId'[q] = semId[q]
      /\ \A m \in NamedRing!Names : ringMade[m] <= ringMade'[m]
      /\ \A m \in NamedRing!Names, s \in SlotSegments : m # "product" \/ s # Newest => value'[m][s] = value[m][s]
  <2>1. Renamed(p, "product")
    BY <1>2, <1>3, <1>5, <1>6, NamesOpened
  <2>. QED
    BY <2>1, Zenon DEF Renamed
<1>8. /\ ringKey' = ringKey /\ ring' = ring /\ shmid' = shmid /\ ringRefused' = ringRefused
      /\ namedPc'[p] = "loop" /\ \A q \in NamedRing!Procs : q # p => namedPc'[q] = namedPc[q]
  BY <1>1, <1>2, <1>6 DEF Opened, NamedTypes
<1>9. OneByOne'
  <2>1. \A q \in NamedRing!Procs : q \notin NamedRing!Starting'
    BY <1>4, <1>8 DEF NamedRing!Starting
  <2>2. \A q \in NamedRing!Procs : quitting'[q] = <<>>
    BY <1>2, <1>4 DEF Quiet
  <2>3. \A q \in NamedRing!Starting' : q \in NamedRing!Procs
    BY DEF NamedRing!Starting
  <2>. QED
    BY <2>1, <2>2, <2>3 DEF OneByOne
<1>10. OwnSems'
  <2>1. ASSUME NEW q \in NamedRing!Procs, namedPc'[q] \in Working, q # p
        PROVE  /\ shmid'[q] # NULL
               /\ \A n \in NamedRing!Names : semId'[q][n] = shmid'[q] /\ shmid'[q] <= ringMade'[n]
    <3>1. namedPc[q] \in Working
      BY <1>8, <2>1 DEF Working
    <3>2. shmid[q] # NULL /\ \A n \in NamedRing!Names : semId[q][n] = shmid[q] /\ shmid[q] <= ringMade[n]
      BY <1>1, <3>1, Zenon DEF OwnSems
    <3>3. shmid[q] \in Nat /\ \A n \in NamedRing!Names : ringMade[n] \in Nat /\ ringMade'[n] \in Nat
      BY <1>1, <1>7, <3>2, SyncAssumption DEF NamedTypes
    <3>4. \A n \in NamedRing!Names : shmid[q] <= ringMade'[n]
      <4>1. \A x, y, z \in Nat : x <= y /\ y <= z => x <= z
        OBVIOUS
      <4>. QED
        BY <1>7, <3>2, <3>3, <4>1, Zenon
    <3>. QED
      BY <1>7, <1>8, <2>1, <3>2, <3>4, Zenon
  <2>2. /\ shmid'[p] # NULL
        /\ \A n \in NamedRing!Names : semId'[p][n] = shmid'[p] /\ shmid'[p] <= ringMade'[n]
    <3>1. shmid'[p] = Newest /\ Newest # NULL /\ Newest <= Newest
      BY <1>4, <1>8, SyncAssumption
    <3>2. \A n \in NamedRing!Names : semId'[p][n] = Newest /\ ringMade'[n] = Newest
      <4>1. \A n \in NamedRing!Names : n = "space" \/ n = "product"
        BY DEF NamedRing!Names
      <4>. QED
        BY <1>3, <1>4, <1>7, <4>1, Zenon
    <3>. QED
      BY <3>1, <3>2
  <2>. QED
    BY <2>1, <2>2, Zenon DEF OwnSems
<1>11. \A s \in SlotSegments : value'["space"][s] = value["space"][s] /\ value'["product"][s] = value["product"][s]
  <2>1. CASE named["product"] # NULL
    BY <1>6, <2>1 DEF Opened
  <2>2. CASE named["product"] = NULL
    <3>1. ringMade["product"] + 1 = Newest /\ value' = [value EXCEPT !["product"][Newest] = zero]
      BY <1>6, <2>2 DEF Opened
    <3>2. ringMade["product"] < Newest
      <4>1. ringMade["product"] \in Nat
        BY <1>1, <1>3 DEF NamedTypes
      <4>. QED
        BY <3>1, <4>1
    <3>3. value["product"][Newest] = 0
      BY <1>1, <1>3, <1>4, <3>2, Zenon DEF Ahead
    <3>4. value'["product"][Newest] = zero
      BY <1>1, <1>3, <1>4, <3>1 DEF NamedTypes
    <3>. QED
      BY <1>3, <1>5, <1>7, <3>3, <3>4, Zenon
  <2>. QED
    BY <2>1, <2>2
<1>12. ASSUME NEW s \in SlotSegments PROVE (NamedVacant(s) /\ NamedSupply(s))'
  <2>1. SeatGoes(p, "loop", shmid[p])
    BY <1>1, <1>2, <1>8 DEF SeatGoes, NamedTypes
  <2>2. PICK at : at = shmid[p]
    OBVIOUS
  <2>3. SeatGoes(p, "loop", at)
    BY <2>1, <2>2, Zenon
  <2>4. "loop" \notin {"inside", "served"} /\ namedPc[p] \notin {"inside", "served"}
    BY <1>2
  <2>. QED
    BY <1>3, <1>8, <1>11, <2>3, <2>4, IdleFits
<1>. QED
  BY <1>1, <1>7, <1>8, <1>9, <1>10, <1>12, Zenon DEF NamedInv

-----------------------------------------------------------------------------
(* sig_quit, and what it has still to remove.                              *)
LEMMA SameSeats ==
  ASSUME NamedInv, namedPc' = namedPc, shmid' = shmid, ring' = ring, value' = value, NEW s \in SlotSegments
  PROVE  (NamedVacant(s) /\ NamedSupply(s))'
<1>1. NamedVacant(s) /\ NamedSupply(s)
  BY Zenon DEF NamedInv
<1>2. Seats' = Seats
  BY Zenon DEF Seats
<1>. QED
  BY <1>1, <1>2, Zenon DEF NamedVacant, NamedSupply, Inside, Served

(* SIGQUIT leaves the ring as it is and starts the removal.                *)
LEMMA NamedQuits ==
  ASSUME NamedInv, NEW p \in NamedRing!Procs, NamedRing!sig_quit(p)
  PROVE  NamedInv'
<1>1. NamedTypes /\ InStep /\ OneByOne /\ OwnSems /\ ~ ringRefused
  BY Zenon DEF NamedInv
<1>2. /\ namedPc[p] \in Working /\ NamedRing!Starting = {} /\ Quiet /\ ringKey = shmid[p]
      /\ quitting' = [quitting EXCEPT ![p] = NamedRing!Things]
      /\ ringKey' = ringKey /\ named' = named /\ ringMade' = ringMade /\ ring' = ring /\ value' = value
      /\ namedPc' = namedPc /\ shmid' = shmid /\ semId' = semId /\ elems' = elems /\ ringRefused' = ringRefused
  BY DEF NamedRing!sig_quit, NamedRing!MayStart, NamedRing!kept, Quiet, Working
<1>3. NamedRing!Things = <<"segment", "space", "product">> /\ NamedRing!Things \in Quits /\ NamedRing!Things # <<>>
  BY DEF NamedRing!Things, Quits
<1>4. /\ quitting'[p] = NamedRing!Things
      /\ \A q \in NamedRing!Procs : q # p => quitting'[q] = <<>>
  BY <1>1, <1>2 DEF NamedTypes, Quiet
<1>5. \A n \in NamedRing!Names : ringMade[n] = Newest
  <2>1. shmid[p] # NULL /\ \A n \in NamedRing!Names : shmid[p] <= ringMade[n]
    BY <1>1, <1>2, Zenon DEF OwnSems
  <2>2. ringKey = Newest /\ Newest \in Nat /\ \A n \in NamedRing!Names : ringMade[n] \in Nat
    BY <1>1, <1>2, <2>1, SyncAssumption DEF InStep, NamedTypes
  <2>3. \A n \in NamedRing!Names : ringMade[n] = Newest \/ ringMade[n] + 1 = Newest
    BY <1>1, Zenon DEF InStep
  <2>. QED
    BY <1>2, <2>1, <2>2, <2>3
<1>6. NamedTypes'
  BY <1>1, <1>2, <1>3 DEF NamedTypes
<1>7. ~ Quiet' /\ Newest' = Newest
  BY <1>2, <1>3, <1>4 DEF Quiet, Newest
<1>8. InStep'
  <2>1. \A n \in NamedRing!Names : named[n] # NULL => named[n] = Newest
    BY <1>1, Zenon DEF InStep
  <2>2. ringKey # NULL => ringKey = Newest
    BY <1>1, Zenon DEF InStep
  <2>. QED
    BY <1>2, <1>5, <1>7, <2>1, <2>2 DEF InStep
<1>9. OneByOne'
  <2>1. NamedRing!Starting' = {}
    BY <1>2 DEF NamedRing!Starting
  <2>. QED
    BY <1>2, <1>3, <1>4, <1>5, <1>7, <2>1 DEF OneByOne, NamedRing!Things
<1>10. OwnSems'
  BY <1>1, <1>2 DEF OwnSems
<1>11. Ahead'
  BY <1>2, SameData
<1>12. \A s \in SlotSegments : (NamedVacant(s) /\ NamedSupply(s))'
  BY <1>2, SameSeats
<1>. QED
  BY <1>1, <1>2, <1>6, <1>8, <1>9, <1>10, <1>11, <1>12, Zenon DEF NamedInv

(* Segment and names are removed in turn; who works on them keeps them.    *)
LEMMA NamedRemoves ==
  ASSUME NamedInv, NEW p \in NamedRing!Procs, NamedRing!Removes(p)
  PROVE  NamedInv'
<1>1. NamedTypes /\ InStep /\ OneByOne /\ OwnSems /\ ~ ringRefused
  BY Zenon DEF NamedInv
<1>2. /\ quitting[p] # <<>> /\ quitting' = [quitting EXCEPT ![p] = Tail(quitting[p])]
      /\ IF Head(quitting[p]) = "segment"
         THEN ringKey' = NULL /\ named' = named
         ELSE ringKey' = ringKey /\ named' = [named EXCEPT ![Head(quitting[p])] = NULL]
      /\ ringMade' = ringMade /\ ring' = ring /\ value' = value
      /\ namedPc' = namedPc /\ shmid' = shmid /\ semId' = semId /\ elems' = elems /\ ringRefused' = ringRefused
  BY DEF NamedRing!Removes
<1>3. /\ \A q \in NamedRing!Procs : q # p => quitting[q] = <<>>
      /\ \A n \in NamedRing!Names : ringMade[n] = Newest
      /\ quitting[p] # NamedRing!Things => ringKey = NULL
      /\ quitting[p] = <<"product">> => named["space"] = NULL
  BY <1>1, <1>2, Zenon DEF OneByOne
<1>4. PICK from, to, t :
        /\ quitting[p] = from /\ quitting' = [quitting EXCEPT ![p] = to] /\ Head(quitting[p]) = t
        /\ \/ from = <<"segment", "space", "product">> /\ to = <<"space", "product">> /\ t = "segment"
           \/ from = <<"space", "product">> /\ to = <<"product">> /\ t = "space"
           \/ from = <<"product">> /\ to = <<>> /\ t = "product"
  <2>1. quitting[p] \in Quits
    BY <1>1 DEF NamedTypes
  <2>2. /\ Head(<<"segment", "space", "product">>) = "segment" /\ Tail(<<"segment", "space", "product">>) = <<"space", "product">>
        /\ Head(<<"space", "product">>) = "space" /\ Tail(<<"space", "product">>) = <<"product">>
        /\ Head(<<"product">>) = "product" /\ Tail(<<"product">>) = <<>>
    OBVIOUS
  <2>. QED
    BY <1>2, <2>1, <2>2, Zenon DEF Quits
<1>5. NamedRing!Starting = {}
  BY <1>1, <1>2 DEF OneByOne, Quiet, NamedRing!Starting
<1>6. /\ quitting'[p] = to /\ \A q \in NamedRing!Procs : q # p => quitting'[q] = <<>>
      /\ Newest' = Newest
  BY <1>1, <1>2, <1>3, <1>4 DEF NamedTypes, Newest
<1>7. /\ to \in Quits /\ (t # "segment" => t \in NamedRing!Names /\ "space" \in NamedRing!Names)
      /\ to # NamedRing!Things
  BY <1>4 DEF Quits, NamedRing!Names, NamedRing!Things
<1>8. NamedTypes'
  BY <1>1, <1>2, <1>4, <1>7 DEF NamedTypes
<1>9. ringKey' = NULL
  <2>1. t = "segment" \/ from # NamedRing!Things
    BY <1>4 DEF NamedRing!Things
  <2>. QED
    BY <1>2, <1>3, <1>4, <2>1
<1>10. \A n \in NamedRing!Names : named'[n] = named[n] \/ named'[n] = NULL
  BY <1>1, <1>2, <1>4, <1>7 DEF NamedTypes
<1>11. to = <<"product">> \/ to = <<>> => named'["space"] = NULL
  <2>1. CASE t = "space"
    BY <1>1, <1>2, <1>4, <1>7, <2>1 DEF NamedTypes
  <2>2. CASE t = "product"
    <3>1. named["space"] = NULL /\ "space" \in NamedRing!Names
      BY <1>3, <1>4, <1>7, <2>2
    <3>. QED
      BY <1>10, <3>1
  <2>3. CASE t = "segment"
    BY <1>4, <2>3
  <2>. QED
    BY <1>4, <2>1, <2>2, <2>3
<1>12. to = <<>> => \A n \in NamedRing!Names : named'[n] = NULL
  <2>1. ASSUME to = <<>> PROVE named'["product"] = NULL
    BY <1>1, <1>2, <1>4, <1>7, <2>1 DEF NamedTypes
  <2>. QED
    BY <1>11, <2>1 DEF NamedRing!Names
<1>13. InStep'
  <2>1. \A n \in NamedRing!Names : named[n] # NULL => named[n] = Newest
    BY <1>1, Zenon DEF InStep
  <2>2. Quiet' => to = <<>>
    BY <1>6 DEF Quiet
  <2>. QED
    BY <1>2, <1>3, <1>6, <1>9, <1>10, <1>12, <2>1, <2>2 DEF InStep
<1>14. OneByOne'
  <2>1. NamedRing!Starting' = {}
    BY <1>2, <1>5 DEF NamedRing!Starting
  <2>2. \A n \in NamedRing!Names : ringMade'[n] = Newest'
    BY <1>2, <1>3, <1>6
  <2>3. \A q \in NamedRing!Procs : quitting'[q] # <<>> => q = p
    BY <1>6
  <2>. QED
    BY <1>6, <1>7, <1>9, <1>11, <2>1, <2>2, <2>3 DEF OneByOne
<1>15. OwnSems'
  BY <1>1, <1>2 DEF OwnSems
<1>16. Ahead'
  BY <1>2, SameData
<1>17. \A s \in SlotSegments : (NamedVacant(s) /\ NamedSupply(s))'
  BY <1>2, SameSeats
<1>. QED
  BY <1>1, <1>2, <1>8, <1>13, <1>14, <1>15, <1>16, <1>17, Zenon DEF NamedInv

(* SIGINT: who is ended leaves its seat, and whatever it has taken.        *)
LEMMA NamedEnds ==
  ASSUME NamedInv, NEW p \in NamedRing!Procs, NamedRing!sig_int(p)
  PROVE  NamedInv'
<1>1. NamedTypes /\ InStep /\ OneByOne /\ OwnSems /\ ~ ringRefused
  BY Zenon DEF NamedInv
<1>2. /\ namedPc' = [namedPc EXCEPT ![p] = "none"] /\ shmid' = [shmid EXCEPT ![p] = NULL]
      /\ semId' = [semId EXCEPT ![p] = [n \in NamedRing!Names |-> NULL]] /\ quitting[p] = <<>>
      /\ ringKey' = ringKey /\ named' = named /\ ringMade' = ringMade /\ ring' = ring /\ value' = value
      /\ quitting' = quitting /\ elems' = elems /\ ringRefused' = ringRefused
  BY DEF NamedRing!sig_int, NamedRing!kept
<1>3. /\ namedPc'[p] = "none"
      /\ \A q \in NamedRing!Procs : q # p => /\ namedPc'[q] = namedPc[q] /\ shmid'[q] = shmid[q]
                                             /\ semId'[q] = semId[q]
  BY <1>1, <1>2 DEF NamedTypes
<1>4. NamedTypes'
  <2>1. semId' \in [NamedRing!Procs -> [NamedRing!Names -> SlotSegments \union {NULL}]]
    BY <1>1, <1>2 DEF NamedTypes
  <2>. QED
    BY <1>1, <1>2, <2>1 DEF NamedTypes, NamedPlaces
<1>5. InStep' /\ Newest' = Newest /\ (Quiet <=> Quiet')
  BY <1>1, <1>2 DEF InStep, Newest, Quiet
<1>6. OneByOne'
  <2>1. \A q \in NamedRing!Procs : q \in NamedRing!Starting' => q # p /\ q \in NamedRing!Starting
    BY <1>3 DEF NamedRing!Starting
  <2>2. \A q \in NamedRing!Starting' : q \in NamedRing!Procs
    BY DEF NamedRing!Starting
  <2>3. NamedRing!Things' = NamedRing!Things
    BY DEF NamedRing!Things
  <2>4. \A q \in NamedRing!Starting' :
          /\ Quiet' /\ \A r \in NamedRing!Starting' : r = q
          /\ ringKey' # NULL /\ shmid'[q] = ringKey'
          /\ namedPc'[q] = "created" => ringMade'["space"] + 1 = Newest'
          /\ namedPc'[q] = "opens product" => semId'[q]["space"] = Newest' /\ ringMade'["space"] = Newest'
    <3>1. ASSUME NEW q \in NamedRing!Starting'
          PROVE  /\ Quiet' /\ \A r \in NamedRing!Starting' : r = q
                 /\ ringKey' # NULL /\ shmid'[q] = ringKey'
                 /\ namedPc'[q] = "created" => ringMade'["space"] + 1 = Newest'
                 /\ namedPc'[q] = "opens product" => semId'[q]["space"] = Newest' /\ ringMade'["space"] = Newest'
      <4>1. q \in NamedRing!Procs /\ q # p /\ q \in NamedRing!Starting
        BY <2>1, <2>2, <3>1
      <4>2. /\ Quiet /\ \A r \in NamedRing!Starting : r = q
            /\ ringKey # NULL /\ shmid[q] = ringKey
            /\ namedPc[q] = "created" => ringMade["space"] + 1 = Newest
            /\ namedPc[q] = "opens product" => semId[q]["space"] = Newest /\ ringMade["space"] = Newest
        BY <1>1, <4>1, Zenon DEF OneByOne
      <4>. QED
        BY <1>2, <1>3, <1>5, <2>1, <2>2, <4>1, <4>2
    <3>. QED
      BY <3>1
  <2>5. \A q \in NamedRing!Procs : quitting[q] # <<>> =>
          /\ \A r \in NamedRing!Procs : r # q => quitting[r] = <<>>
          /\ \A n \in NamedRing!Names : ringMade[n] = Newest
          /\ quitting[q] # NamedRing!Things => ringKey = NULL
          /\ quitting[q] = <<"product">> => named["space"] = NULL
    BY <1>1, Zenon DEF OneByOne
  <2>. QED
    BY <1>2, <1>5, <2>3, <2>4, <2>5, Zenon DEF OneByOne
<1>7. OwnSems'
  BY <1>1, <1>2, <1>3 DEF OwnSems, Working
<1>8. Ahead'
  BY <1>2, SameData
<1>9. ASSUME NEW s \in SlotSegments PROVE (NamedVacant(s) /\ NamedSupply(s))'
  <2>1. PICK i \in Nat, j \in Nat, k \in Nat, l \in Nat :
          Tally(s, i, j, k, l) /\ Fits(Len(ring[s]), value["space"][s], value["product"][s], i, j, k, l)
    BY NamedNumbers, Zenon
  <2>2. SeatGoes(p, "none", NULL)
    BY <1>2 DEF SeatGoes
  <2>3. PICK to, at : to = "none" /\ at = NULL
    OBVIOUS
  <2>4. SeatGoes(p, to, at)
    BY <2>2, <2>3, Zenon
  <2>5. PICK a \in Nat, b \in Nat, c \in Nat, d \in Nat : Tally(s, a, b, c, d)'
    BY <1>1, <2>4, TallyAfter, Zenon
  <2>6. Steps(p, to, at, s, i, j, k, l, a, b, c, d)
    BY <1>1, <2>1, <2>4, <2>5, SeatSteps, Zenon
  <2>7. \A Q, y, z, x : Sits(p, Q, y, z, x, s) \in {0, 1}
    BY DEF Sits
  <2>8. \A Q : Sits(p, Q, to, at, "inside", s) = 0 /\ Sits(p, Q, to, at, "served", s) = 0
    BY <2>3 DEF Sits
  <2>9. PICK e, f, g, h \in {0, 1} : a + e = i + 0 /\ b + f = j + 0 /\ c + g = k + 0 /\ d + h = l + 0
    BY <2>6, <2>7, <2>8, Zenon DEF Steps
  <2>10. /\ a \in Nat /\ b \in Nat /\ c \in Nat /\ d \in Nat /\ i \in Nat /\ j \in Nat /\ k \in Nat /\ l \in Nat
         /\ Fits(Len(ring[s]), value["space"][s], value["product"][s], i, j, k, l) /\ Tally(s, a, b, c, d)'
    BY <2>1, <2>5, Zenon
  <2>11. PICK n \in Nat, v \in Nat, w \in Nat : n = Len(ring[s]) /\ v = value["space"][s] /\ w = value["product"][s]
    BY NamedNumbers, Zenon
  <2>12. Fits(n, v, w, i, j, k, l) /\ NamedSize \in Nat /\ n \in Nat /\ v \in Nat /\ w \in Nat
    BY <2>10, <2>11, SyncAssumption
  <2>13. a \in Nat /\ b \in Nat /\ c \in Nat /\ d \in Nat /\ i \in Nat /\ j \in Nat /\ k \in Nat /\ l \in Nat
    BY <2>10, Zenon
  <2>14. a <= i /\ b <= j /\ c <= k /\ d <= l
    BY <2>9, <2>13
  <2>15. Fits(n, v, w, a, b, c, d)
    BY <2>12, <2>13, <2>14 DEF Fits
  <2>16. Tally(s, a, b, c, d)' /\ ring' = ring /\ value' = value
    BY <1>2, <2>10, Zenon
  <2>. QED
    BY <2>11, <2>15, <2>16, Zenon DEF Fits, NamedVacant, NamedSupply, Tally
<1>. QED
  BY <1>1, <1>2, <1>4, <1>5, <1>6, <1>7, <1>8, <1>9, Zenon DEF NamedInv

(* Every step of the ring with named semaphores.                           *)
LEMMA NamedNext == NamedInv /\ [NamedRing!Next]_namedVars => NamedInv'
<1> SUFFICES ASSUME NamedInv, [NamedRing!Next]_namedVars PROVE NamedInv'
  OBVIOUS
<1>1. CASE UNCHANGED namedVars
  <2>1. /\ ringKey' = ringKey /\ named' = named /\ ring' = ring /\ value' = value /\ ringMade' = ringMade
        /\ namedPc' = namedPc /\ shmid' = shmid /\ semId' = semId /\ quitting' = quitting
        /\ elems' = elems /\ ringRefused' = ringRefused
    BY <1>1 DEF namedVars
  <2>2. NamedTypes' /\ InStep' /\ OneByOne' /\ OwnSems' /\ Ahead'
    <3>1. NamedTypes /\ InStep /\ OneByOne /\ OwnSems /\ Ahead
      BY Zenon DEF NamedInv
    <3>2. NamedTypes'
      BY <2>1, <3>1 DEF NamedTypes
    <3>3. InStep'
      BY <2>1, <3>1 DEF InStep, Newest, Quiet
    <3>4. OneByOne'
      BY <2>1, <3>1, Zenon DEF OneByOne, Newest, Quiet, NamedRing!Starting, NamedRing!Things
    <3>5. OwnSems' /\ Ahead'
      BY <2>1, <3>1 DEF OwnSems, Ahead
    <3>. QED
      BY <3>2, <3>3, <3>4, <3>5
  <2>3. \A s \in SlotSegments : (NamedVacant(s) /\ NamedSupply(s))'
    BY <2>1, SameSeats
  <2>4. ~ ringRefused'
    BY <2>1 DEF NamedInv
  <2>. QED
    BY <2>2, <2>3, <2>4, Zenon DEF NamedInv
<1>. QED
  BY <1>1, NamedFinds, NamedCreates, NamedInitQueue, NamedOpensSpace, NamedOpensProduct, NamedQuits,
     NamedRemoves, NamedEnds, NamedProducer, NamedConsumer DEF NamedRing!Next

(* Neither error line of named_semaphore.c is ever printed.                *)
LEMMA NamedAlways == MCSpec => []NamedRing!NeverRefused
<1>1. NamedInv => NamedRing!NeverRefused
  BY DEF NamedInv, NamedRing!NeverRefused
<1>. QED
  BY <1>1, NamedRuns, NamedInit, NamedNext, PTL
(* The rings print no error line: the semaphores of both programs let a    *)
(* process into queue_add only when there is a free slot and into          *)
(* queue_pop only when there is an element, also when others were ended on *)
(* the way and a ring was removed and made again under the same names; and *)
(* the server of UNIX datagrams gives up only for a client that is gone    *)
(* (unix_domain_socket_datagram_server.c).                                 *)
THEOREM RingsNeverRefuse == MCSpec => []NeverRefused
<1>1. GramRunning /\ SharedRing!NeverRefused /\ NamedRing!NeverRefused => NeverRefused
  BY GramAnswers DEF NeverRefused
<1>. QED
  BY <1>1, ServesAlways, NamedAlways, GramAlways, PTL
=============================================================================
