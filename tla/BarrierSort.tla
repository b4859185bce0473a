----------------------------- MODULE BarrierSort -----------------------------
(***************************************************************************)
(* thread/barrier.c: every thread sorts a slice of nums, all of them and   *)
(* main meet at a barrier, and main then merges the slices into snums.     *)
(* qsort is external: it leaves its slice sorted.                          *)
(***************************************************************************)
EXTENDS Integers, Sequences, FiniteSets, FiniteSetsExt, TLC

CONSTANTS
  NUM_THREAD,
  NUM_HANDLER_PER_THREAD,
  Values,     \* the numbers rand() % 10000 may put in nums
  Main        \* the main thread

NUM_ARRAY == NUM_THREAD * NUM_HANDLER_PER_THREAD
Workers == 0 .. NUM_THREAD - 1
Indices == 0 .. NUM_ARRAY - 1

VARIABLES
  nums, snums,
  indexArr,    \* merge: the next element of each slice
  pc,          \* per thread: sort, barrier, past; main: barrier, past, done
  arrived,     \* the threads that called pthread_barrier_wait
  input        \* history: nums before the sort

vars == <<nums, snums, indexArr, pc, arrived, input>>

First(j) == j * NUM_HANDLER_PER_THREAD

Init ==
  /\ nums \in [Indices -> Values]
  /\ input = nums
  /\ snums = <<>>
  /\ indexArr = [j \in Workers |-> First(j)]
  /\ pc = [t \in Workers \union {Main} |-> IF t = Main THEN "arrive" ELSE "sort"]
  /\ arrived = {}

Slice(j) == First(j) .. First(j + 1) - 1

(* ThreadHandler up to the barrier: qsort of the slice.                    *)
SortSlice(j) ==
  /\ pc[j] = "sort"
  /\ LET sorted == SortSeq([k \in 1 .. NUM_HANDLER_PER_THREAD |-> nums[First(j) + k - 1]],
                           LAMBDA a, b : a <= b)
     IN  nums' = [k \in Indices |->
                    IF k \in Slice(j) THEN sorted[k - First(j) + 1] ELSE nums[k]]
  /\ pc' = [pc EXCEPT ![j] = "arrive"]
  /\ UNCHANGED <<snums, indexArr, arrived, input>>

Arrives(t) ==
  /\ pc[t] = "arrive"
  /\ arrived' = arrived \union {t}
  /\ pc' = [pc EXCEPT ![t] = "barrier"]
  /\ UNCHANGED <<nums, snums, indexArr, input>>

(* A barrier that does not count main, for mutation.                       *)
WorkersOnly == NUM_THREAD

(* The count given to pthread_barrier_init.                                *)
Parties == NUM_THREAD + 1

Passes(t) ==
  /\ pc[t] = "barrier"
  /\ Cardinality(arrived) >= Parties
  /\ pc' = [pc EXCEPT ![t] = "past"]
  /\ UNCHANGED <<nums, snums, indexArr, arrived, input>>

(* The slice has elements left.                                            *)
HasNext(j) == indexArr[j] < First(j + 1)

(* The scan of the inner loop of merge: the first of the smallest heads.   *)
minTid ==
  LET live == {j \in Workers : HasNext(j)}
      least == {j \in live : \A k \in live : nums[indexArr[j]] <= nums[indexArr[k]]}
  IN  CHOOSE j \in least : \A k \in least : j <= k

(* One round of the outer loop; i is the length of snums.                  *)
MergeOne ==
  /\ pc[Main] = "past"
  /\ Len(snums) < NUM_ARRAY
  /\ snums' = Append(snums, nums[indexArr[minTid]])
  /\ indexArr' = [indexArr EXCEPT ![minTid] = @ + 1]
  /\ UNCHANGED <<nums, pc, arrived, input>>

MergeEnds ==
  /\ pc[Main] = "past"
  /\ Len(snums) = NUM_ARRAY
  /\ pc' = [pc EXCEPT ![Main] = "done"]
  /\ UNCHANGED <<nums, snums, indexArr, arrived, input>>

Next ==
  \/ \E j \in Workers : SortSlice(j)
  \/ \E t \in Workers \union {Main} : Arrives(t) \/ Passes(t)
  \/ MergeOne
  \/ MergeEnds

Spec == Init /\ [][Next]_vars

-----------------------------------------------------------------------------
Count(v, S, f) == Cardinality({k \in S : f[k] = v})

(***************************************************************************)
(* The output so far is sorted, nothing left to merge belongs before its   *)
(* end, and both together are the numbers given, each as often: merge      *)
(* never sees a slice that is still being sorted, nor leaves a slice.      *)
(***************************************************************************)
MergeSorts ==
  /\ \A k \in 1 .. Len(snums) - 1 : snums[k] <= snums[k + 1]
  /\ snums # <<>> =>
       \A j \in Workers : \A k \in indexArr[j] .. First(j + 1) - 1 :
         snums[Len(snums)] <= nums[k]
  /\ \A v \in Values :
       Count(v, Indices, input) =
         Count(v, 1 .. Len(snums), snums)
         + Count(v, UNION {indexArr[j] .. First(j + 1) - 1 : j \in Workers}, nums)
=============================================================================
