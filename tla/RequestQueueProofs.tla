------------------------- MODULE RequestQueueProofs -------------------------
(***************************************************************************)
(* Theorems about RequestQueue, for any finite set of threads, any items   *)
(* and any assignment of operations to threads.                            *)
(*                                                                         *)
(* The argument goes up in three layers.  Typing and mutual exclusion are  *)
(* inductive together (CtlInv).  On top of them, what the local variables  *)
(* of the Puts in progress hold (FreshInv) gives the refinement of         *)
(* FifoQueue.  NoLostWakeup needs only CtlInv, and counts Coming.          *)
(***************************************************************************)
EXTENDS RequestQueue, TLAPS, FiniteSetTheorems

(* What the place of a call says about the call, its register and the      *)
(* object: nothing is called and nothing queued before it exists.          *)
PlaceInv ==
    /\ m_instance = 0 => m_list = << >>
    /\ \A t \in Threads :
        /\ op[t] # "create_instance" /\ pc[t] # "idle" => m_instance > 0
        /\ pc[t] = "construct" => op[t] = "create_instance" /\ m_instance = 0
        /\ pc[t] = "notify" => op[t] = "Put"
        /\ pc[t] = "asleep" => op[t] = "Get"
        /\ pc[t] = "pop" => op[t] = "Get" /\ m_list # << >> /\ reg[t] = Head(m_list)
        /\ op[t] = "Put" /\ pc[t] # "idle" => reg[t] \in Items

CtlInv == TypeOK /\ MutualExclusion /\ PlaceInv /\ OneInstance

(* An item on its way into the list is in no other Put in progress and was *)
(* never accepted.                                                         *)
PutPending(t) == op[t] = "Put" /\ pc[t] \in {"lock", "body"}
FreshInv ==
    \A t \in Threads :
        PutPending(t) => /\ reg[t] \notin Fifo!InSeq(accepted)
                         /\ \A u \in Threads \ {t} : PutPending(u) => reg[u] # reg[t]

---------------------------------------------------------------------------
(* Removing the first occurrence of an item leaves a sequence over the     *)
(* same items that is no longer.                                           *)
LEMMA WithoutFirstType ==
    ASSUME NEW s \in Seq(Items), NEW i
    PROVE  /\ Fifo!WithoutFirst(s, i) \in Seq(Items)
           /\ Len(Fifo!WithoutFirst(s, i)) <= Len(s)
<1>1. CASE i \notin Fifo!InSeq(s)
  BY <1>1 DEF Fifo!WithoutFirst
<1>2. CASE i \in Fifo!InSeq(s)
  <2> DEFINE r == [j \in 1..(Len(s) - 1) |->
                     IF \E k \in 1..j : s[k] = i THEN s[j + 1] ELSE s[j]]
  <2>1. Len(s) \in Nat /\ DOMAIN s = 1..Len(s) /\ Len(s) > 0
    BY <1>2 DEF Fifo!InSeq
  <2>2. \A j \in 1..(Len(s) - 1) : r[j] \in Items
    BY <2>1
  <2>3. r \in Seq(Items) /\ Len(r) = Len(s) - 1
    BY <2>1, <2>2
  <2>4. Fifo!WithoutFirst(s, i) = r
    BY <1>2 DEF Fifo!WithoutFirst
  <2> QED BY <2>1, <2>3, <2>4
<1> QED BY <1>1, <1>2

LEMMA InSeqType ==
    ASSUME NEW s \in Seq(Items)
    PROVE  Fifo!InSeq(s) \subseteq Items
BY DEF Fifo!InSeq

LEMMA InSeqAppend ==
    ASSUME NEW s \in Seq(Items), NEW i \in Items
    PROVE  Fifo!InSeq(Append(s, i)) = Fifo!InSeq(s) \union {i}
<1>1. Append(s, i) \in Seq(Items) /\ Len(Append(s, i)) = Len(s) + 1 /\ Len(s) \in Nat
  OBVIOUS
<1>2. \A k \in 1..Len(s) : Append(s, i)[k] = s[k]
  OBVIOUS
<1>3. Append(s, i)[Len(s) + 1] = i
  OBVIOUS
<1> QED
  BY <1>1, <1>2, <1>3 DEF Fifo!InSeq

(* The three facts of the control invariant's induction. *)
LEMMA CtlInit == Init => CtlInv
BY Distinct DEF Init, CtlInv, TypeOK, MutualExclusion, PlaceInv, OneInstance,
   Places, Critical, Ops, Locking

LEMMA CtlStep == CtlInv /\ [Next]_vars => CtlInv'
<1> SUFFICES ASSUME CtlInv, [Next]_vars PROVE CtlInv'
  OBVIOUS
<1> USE Distinct DEF CtlInv, TypeOK, MutualExclusion, PlaceInv, OneInstance, Places,
                     Critical, history
<1>1. CASE UNCHANGED vars
  BY <1>1 DEF vars
<1>2. ASSUME NEW t \in Threads, NEW o \in Ops, NEW i \in Items, Call(t, o, i)
      PROVE  CtlInv'
  BY <1>2 DEF Call
<1>3. ASSUME NEW t \in Threads, Lock(t) PROVE CtlInv'
  BY <1>3 DEF Lock
<1>4. ASSUME NEW t \in Threads, SpuriousWakeup(t) PROVE CtlInv'
  BY <1>4 DEF SpuriousWakeup
<1>5. ASSUME NEW t \in Threads, Inside(t) PROVE CtlInv'
  <2> USE <1>5 DEF Return, At
  <2>1. CASE FindInstance(t)
    BY <2>1 DEF FindInstance
  <2>2. CASE MissInstance(t)
    BY <2>2 DEF MissInstance
  <2>3. CASE Construct(t)
    BY <2>3 DEF Construct
  <2>4. CASE PutPush(t)
    BY <2>4 DEF PutPush
  <2>5. CASE PutNotify(t)
    BY <2>5 DEF PutNotify, Sleepers
  <2>6. CASE GetWait(t)
    BY <2>6 DEF GetWait
  <2>7. CASE GetFront(t)
    BY <2>7 DEF GetFront
  <2>8. CASE GetPop(t)
    <3>0. m_list # << >> /\ reg[t] \in Items
      BY <2>8 DEF GetPop
    <3>1. [by |-> t, item |-> reg[t]] \in [by : Threads, item : Items]
      BY <3>0
    <3>2. delivered' \in Seq([by : Threads, item : Items])
      BY <2>8, <3>1 DEF GetPop
    <3>3. m_list' \in Seq(Items)
      BY <2>8, <3>0 DEF GetPop
    <3>4. CtlInv' \/ ~(delivered' \in Seq([by : Threads, item : Items]))
                  \/ ~(m_list' \in Seq(Items))
      BY <2>8 DEF GetPop
    <3> QED BY <3>2, <3>3, <3>4
  <2>9. CASE EraseItem(t)
    BY <2>9, WithoutFirstType, InSeqType DEF EraseItem
  <2>10. CASE CleanList(t)
    BY <2>10, InSeqType DEF CleanList
  <2>11. CASE ReadLength(t)
    BY <2>11 DEF ReadLength
  <2>12. CASE PeekEmpty(t)
    BY <2>12 DEF PeekEmpty
  <2>13. CASE PeekFront(t)
    BY <2>13 DEF PeekFront
  <2>14. CASE PeekCopy(t)
    BY <2>14 DEF PeekCopy
  <2> QED
    BY <1>5, <2>1, <2>2, <2>3, <2>4, <2>5, <2>6, <2>7, <2>8, <2>9, <2>10, <2>11,
       <2>12, <2>13, <2>14 DEF Inside
<1> QED
  BY <1>1, <1>2, <1>3, <1>4, <1>5 DEF Next

(* The types of the variables, in every state of every instance. *)
THEOREM TypeCorrect == Spec => []TypeOK
<1>1. CtlInv => TypeOK
  BY DEF CtlInv
<1> QED
  BY <1>1, CtlInit, CtlStep, PTL DEF Spec

(* m_mutex excludes: a thread in the middle of a locking call owns it.     *)
THEOREM MutualExclusionHolds == Spec => []MutualExclusion
<1>1. CtlInv => MutualExclusion
  BY DEF CtlInv
<1> QED
  BY <1>1, CtlInit, CtlStep, PTL DEF Spec

---------------------------------------------------------------------------
(* Counting who is coming. *)
LEMMA ComingFinite == IsFiniteSet(Coming) /\ Cardinality(Coming) \in Nat
BY ThreadsFinite, FS_Subset, FS_CardinalityType DEF Coming

(* A step that keeps everybody who was coming, while nothing is added to   *)
(* the list and nobody falls asleep, keeps NoLostWakeup.                   *)
LEMMA ComingGrows ==
    ASSUME CtlInv, CtlInv', NoLostWakeup,
           Coming \subseteq Coming', Sleepers' \subseteq Sleepers,
           Len(m_list') <= Len(m_list)
    PROVE  NoLostWakeup'
<1>1. /\ Cardinality(Coming) \in Nat /\ Cardinality(Coming') \in Nat
      /\ Cardinality(Coming) <= Cardinality(Coming')
  <2>1. IsFiniteSet(Coming')
    BY ThreadsFinite, FS_Subset DEF Coming
  <2> QED
    BY <2>1, ComingFinite, FS_Subset, FS_CardinalityType
<1>2. Len(m_list) \in Nat /\ Len(m_list') \in Nat
  BY DEF CtlInv, TypeOK
<1> QED
  BY <1>1, <1>2 DEF NoLostWakeup

(* One step of the queue keeps NoLostWakeup: the steps that change the     *)
(* balance are the push (one item, its notifier), the notify (one waker    *)
(* for one sleeper), the pop (one item, its getter) and the wait (none).   *)
LEMMA WakeupStep == CtlInv /\ CtlInv' /\ NoLostWakeup /\ [Next]_vars => NoLostWakeup'
<1> SUFFICES ASSUME CtlInv, CtlInv', NoLostWakeup, [Next]_vars PROVE NoLostWakeup'
  OBVIOUS
<1>0. /\ m_list \in Seq(Items) /\ Len(m_list) \in Nat
      /\ op \in [Threads -> Ops] /\ pc \in [Threads -> Places]
  BY DEF CtlInv, TypeOK
<1>1. CASE UNCHANGED vars
  BY <1>1, <1>0, ComingGrows DEF vars, Coming, Sleepers
<1>2. ASSUME NEW t \in Threads, NEW o \in Ops, NEW i \in Items, Call(t, o, i)
      PROVE  NoLostWakeup'
  BY <1>2, <1>0, ComingGrows DEF Call, Coming, Sleepers
<1>3. ASSUME NEW t \in Threads, Lock(t) PROVE NoLostWakeup'
  BY <1>3, <1>0, ComingGrows DEF Lock, Coming, Sleepers
<1>4. ASSUME NEW t \in Threads, SpuriousWakeup(t) PROVE NoLostWakeup'
  BY <1>4, <1>0, ComingGrows DEF SpuriousWakeup, Coming, Sleepers
<1>5. ASSUME NEW t \in Threads, Inside(t) PROVE NoLostWakeup'
  <2> USE <1>0 DEF Return, At
  <2>1. CASE FindInstance(t)
    BY <2>1, ComingGrows DEF Coming, Sleepers, FindInstance
  <2>2. CASE MissInstance(t)
    BY <2>2, ComingGrows DEF Coming, Sleepers, MissInstance
  <2>3. CASE Construct(t)
    BY <2>3, ComingGrows DEF Coming, Sleepers, Construct
  <2>4. CASE PutPush(t)
    <3>1. Coming' = Coming \union {t} /\ t \notin Coming /\ Sleepers' = Sleepers
      BY <2>4 DEF PutPush, Coming, Sleepers
    <3>2. Len(m_list') = Len(m_list) + 1
      BY <2>4 DEF PutPush
    <3>3. Cardinality(Coming') = Cardinality(Coming) + 1
      BY <3>1, ComingFinite, FS_AddElement
    <3> QED
      BY <3>1, <3>2, <3>3, ComingFinite DEF NoLostWakeup
  <2>5. CASE PutNotify(t)
    <3>1. CASE Sleepers = {}
      BY <2>5, <3>1 DEF PutNotify, NoLostWakeup, Sleepers
    <3>2. ASSUME NEW s \in Sleepers, pc' = [pc EXCEPT ![t] = "idle", ![s] = "lock"]
          PROVE  NoLostWakeup'
      <4>1. /\ Coming' = (Coming \ {t}) \union {s}
            /\ t \in Coming /\ s \notin Coming \ {t}
        BY <2>5, <3>2 DEF PutNotify, CtlInv, PlaceInv, Coming, Sleepers
      <4>2. /\ Cardinality(Coming \ {t}) = Cardinality(Coming) - 1
            /\ IsFiniteSet(Coming \ {t})
        BY <4>1, ComingFinite, FS_RemoveElement
      <4>3. Cardinality((Coming \ {t}) \union {s}) = Cardinality(Coming \ {t}) + 1
        BY <4>1, <4>2, FS_AddElement
      <4>4. Cardinality(Coming') = Cardinality(Coming)
        BY <4>1, <4>2, <4>3, ComingFinite
      <4> QED
        BY <4>4, <2>5, <3>2 DEF PutNotify, NoLostWakeup, Sleepers
    <3> QED
      BY <2>5, <3>1, <3>2 DEF PutNotify
  <2>6. CASE GetWait(t)
    <3>1. Len(m_list') = 0
      BY <2>6 DEF GetWait
    <3>2. Cardinality(Coming') \in Nat
      <4>1. IsFiniteSet(Coming')
        BY ThreadsFinite, FS_Subset DEF Coming
      <4> QED
        BY <4>1, FS_CardinalityType
    <3> QED
      BY <3>1, <3>2 DEF NoLostWakeup
  <2>7. CASE GetFront(t)
    BY <2>7, ComingGrows DEF Coming, Sleepers, GetFront
  <2>8. CASE GetPop(t)
    <3>1. Coming' = Coming \ {t} /\ t \in Coming /\ Sleepers' = Sleepers
      BY <2>8 DEF GetPop, Coming, Sleepers
    <3>2. Len(m_list') = Len(m_list) - 1
      BY <2>8 DEF GetPop, CtlInv, PlaceInv
    <3>3. Cardinality(Coming') = Cardinality(Coming) - 1
      BY <3>1, ComingFinite, FS_RemoveElement
    <3> QED
      BY <3>1, <3>2, <3>3, ComingFinite DEF NoLostWakeup
  <2>9. CASE EraseItem(t)
    BY <2>9, WithoutFirstType, ComingGrows DEF Coming, Sleepers, EraseItem
  <2>10. CASE CleanList(t)
    BY <2>10, ComingGrows DEF Coming, Sleepers, CleanList
  <2>11. CASE ReadLength(t)
    BY <2>11, ComingGrows DEF Coming, Sleepers, ReadLength
  <2>12. CASE PeekEmpty(t)
    BY <2>12, ComingGrows DEF Coming, Sleepers, PeekEmpty
  <2>13. CASE PeekFront(t)
    BY <2>13, ComingGrows DEF Coming, Sleepers, PeekFront
  <2>14. CASE PeekCopy(t)
    BY <2>14, ComingGrows DEF Coming, Sleepers, PeekCopy
  <2> QED
    BY <1>5, <2>1, <2>2, <2>3, <2>4, <2>5, <2>6, <2>7, <2>8, <2>9, <2>10, <2>11,
       <2>12, <2>13, <2>14 DEF Inside
<1> QED
  BY <1>1, <1>2, <1>3, <1>4, <1>5 DEF Next

(* No lost wakeup, for any number of producers, consumers and editors.     *)
THEOREM NoLostWakeupHolds == Spec => []NoLostWakeup
<1>1. Init => NoLostWakeup
  BY DEF Init, NoLostWakeup, Sleepers
<1> QED
  BY <1>1, CtlInit, CtlStep, WakeupStep, PTL DEF Spec

---------------------------------------------------------------------------
(* The items on their way in stay fresh: only a push grows accepted. *)
LEMMA FreshStep == CtlInv /\ FreshInv /\ [Next]_vars => FreshInv'
<1> SUFFICES ASSUME CtlInv, FreshInv, [Next]_vars PROVE FreshInv'
  OBVIOUS
<1> USE DEF CtlInv, TypeOK, FreshInv, PutPending, Places, history
<1>1. CASE UNCHANGED vars
  BY <1>1 DEF vars
<1>2. ASSUME NEW t \in Threads, NEW o \in Ops, NEW i \in Items, Call(t, o, i)
      PROVE  FreshInv'
  BY <1>2 DEF Call
<1>3. ASSUME NEW t \in Threads, Lock(t) PROVE FreshInv'
  BY <1>3 DEF Lock
<1>4. ASSUME NEW t \in Threads, SpuriousWakeup(t) PROVE FreshInv'
  BY <1>4 DEF SpuriousWakeup, PlaceInv
<1>5. ASSUME NEW t \in Threads, Inside(t) PROVE FreshInv'
  <2>1. CASE PutPush(t)
    <3>1. Fifo!InSeq(accepted') = Fifo!InSeq(accepted) \union {reg[t]}
      BY <2>1, InSeqAppend DEF PutPush, PlaceInv, At
    <3>2. op' = op /\ reg' = reg /\ pc' = [pc EXCEPT ![t] = "notify"] /\ PutPending(t)
      BY <2>1 DEF PutPush, At
    <3>3. \A u \in Threads : PutPending(u)' => PutPending(u) /\ u # t
      BY <3>2
    <3> QED
      BY <3>1, <3>2, <3>3
  <2>2. CASE PutNotify(t)
    BY <2>2 DEF PutNotify, Sleepers, PlaceInv, At
  <2>3. ASSUME ~PutPush(t), ~PutNotify(t) PROVE FreshInv'
    <3>1. accepted' = accepted /\ op' = op
      BY <1>5, <2>3 DEF Inside, FindInstance, MissInstance, Construct, GetWait, GetFront,
         GetPop, EraseItem, CleanList, ReadLength, PeekEmpty, PeekFront, PeekCopy
    <3>2. \A u \in Threads \ {t} : pc'[u] = pc[u] /\ reg'[u] = reg[u]
      BY <1>5, <2>3 DEF Inside, FindInstance, MissInstance, Construct, GetWait, GetFront,
         GetPop, EraseItem, CleanList, ReadLength, PeekEmpty, PeekFront, PeekCopy, Return
    <3>3. ~PutPending(t)'
      BY <1>5, <2>3 DEF Inside, FindInstance, MissInstance, Construct, GetWait, GetFront,
         GetPop, EraseItem, CleanList, ReadLength, PeekEmpty, PeekFront, PeekCopy, Return, At
    <3> QED
      BY <3>1, <3>2, <3>3
  <2> QED
    BY <2>1, <2>2, <2>3
<1> QED
  BY <1>1, <1>2, <1>3, <1>4, <1>5 DEF Next

(* Every step of the locking queue is one step of the FIFO queue or none:  *)
(* a put takes effect at its push, a Get at its pop.                       *)
LEMMA FifoStep == CtlInv /\ FreshInv /\ [Next]_vars => [Fifo!Next]_(Fifo!fifoVars)
<1> SUFFICES ASSUME CtlInv, FreshInv, [Next]_vars
             PROVE  Fifo!Next \/ UNCHANGED Fifo!fifoVars
  OBVIOUS
<1> USE DEF history, Fifo!fifoVars
<1>1. CASE UNCHANGED vars
  BY <1>1 DEF vars
<1>2. ASSUME NEW t \in Threads, NEW o \in Ops, NEW i \in Items, Call(t, o, i)
      PROVE  UNCHANGED Fifo!fifoVars
  BY <1>2 DEF Call
<1>3. ASSUME NEW t \in Threads, Lock(t) PROVE UNCHANGED Fifo!fifoVars
  BY <1>3 DEF Lock
<1>4. ASSUME NEW t \in Threads, SpuriousWakeup(t) PROVE UNCHANGED Fifo!fifoVars
  BY <1>4 DEF SpuriousWakeup
<1>5. ASSUME NEW t \in Threads, Inside(t)
      PROVE  Fifo!Next \/ UNCHANGED Fifo!fifoVars
  <2>1. CASE PutPush(t)
    <3>1. reg[t] \in Items /\ reg[t] \notin Fifo!InSeq(accepted)
      BY <2>1 DEF PutPush, At, FreshInv, PutPending, CtlInv, PlaceInv
    <3>2. Fifo!Enqueue(reg[t])
      BY <2>1, <3>1 DEF PutPush, Fifo!Enqueue
    <3> QED
      BY <3>1, <3>2 DEF Fifo!Next
  <2>2. CASE GetPop(t)
    <3>1. m_list # << >> /\ reg[t] = Head(m_list)
      BY <2>2 DEF GetPop, At, CtlInv, PlaceInv
    <3>2. Fifo!Dequeue(t)
      BY <2>2, <3>1 DEF GetPop, Fifo!Dequeue
    <3> QED
      BY <3>2 DEF Fifo!Next
  <2>3. CASE EraseItem(t)
    <3>1. CASE reg[t] \in Fifo!InSeq(m_list)
      <4>1. reg[t] \in Items
        BY <3>1, InSeqType DEF CtlInv, TypeOK
      <4>2. Fifo!Remove(reg[t])
        BY <2>3, <3>1 DEF EraseItem, Fifo!Remove
      <4> QED
        BY <4>1, <4>2 DEF Fifo!Next
    <3>2. CASE reg[t] \notin Fifo!InSeq(m_list)
      BY <2>3, <3>2 DEF EraseItem, Fifo!WithoutFirst
    <3> QED
      BY <3>1, <3>2
  <2>4. CASE CleanList(t)
    <3>1. CASE m_list = << >>
      BY <2>4, <3>1 DEF CleanList, Fifo!InSeq
    <3>2. CASE m_list # << >>
      <4>1. Fifo!Clear
        BY <2>4, <3>2 DEF CleanList, Fifo!Clear
      <4> QED
        BY <4>1 DEF Fifo!Next
    <3> QED
      BY <3>1, <3>2
  <2>5. CASE Construct(t)
    BY <2>5 DEF Construct, At, CtlInv, PlaceInv
  <2> QED
    BY <1>5, <2>1, <2>2, <2>3, <2>4, <2>5
       DEF Inside, FindInstance, MissInstance, PutNotify, GetWait, GetFront,
           ReadLength, PeekEmpty, PeekFront, PeekCopy
<1> QED
  BY <1>1, <1>2, <1>3, <1>4, <1>5 DEF Next

(* The queue with its mutex and condition variable implements FifoQueue:   *)
(* CRequestQueue may be used as an atomic queue by the rest of the program. *)
THEOREM RequestQueueImplementsFifo == Spec => ImplementsFifo
<1>1. Init => Fifo!Init
  BY DEF Init, Fifo!Init
<1>2. Init => FreshInv
  BY DEF Init, FreshInv, PutPending
<1> QED
  BY <1>1, <1>2, CtlInit, CtlStep, FreshStep, FifoStep, PTL
     DEF Spec, ImplementsFifo, Fifo!Spec

---------------------------------------------------------------------------
(* Two facts about sequences: where the front of s goes, and where a new   *)
(* last element goes.                                                      *)
LEMMA FrontMoves ==
    ASSUME NEW r \in Seq(Items), NEW s \in Seq(Items), s # << >>
    PROVE  Append(r, Head(s)) \o Tail(s) = r \o s
OBVIOUS

LEMMA BackMoves ==
    ASSUME NEW r \in Seq(Items), NEW s \in Seq(Items), NEW e \in Items
    PROVE  Append(r \o s, e) = r \o Append(s, e)
OBVIOUS

LEMMA OrderTypes ==
    ASSUME CtlInv
    PROVE  /\ m_list \in Seq(Items) /\ accepted \in Seq(Items) /\ DeliveredItems \in Seq(Items)
           /\ delivered \in Seq([by : Threads, item : Items])
<1>1. /\ delivered \in Seq([by : Threads, item : Items])
      /\ m_list \in Seq(Items) /\ accepted \in Seq(Items)
  BY DEF CtlInv, TypeOK
<1>2. /\ DOMAIN delivered = 1..Len(delivered) /\ Len(delivered) \in Nat
      /\ \A k \in 1..Len(delivered) : delivered[k].item \in Items
  <2> DEFINE D == [by : Threads, item : Items]
  <2>1. \A d \in D : d.item \in Items
    OBVIOUS
  <2>2. delivered \in Seq(D)
    BY <1>1
  <2> HIDE DEF D
  <2> QED
    BY <2>1, <2>2
<1>3. DeliveredItems \in [1..Len(delivered) -> Items]
  BY <1>2 DEF DeliveredItems
<1> QED
  BY <1>1, <1>2, <1>3

(* One step keeps the order: a pop moves the front of the list to the end  *)
(* of what was delivered, a push adds the same item to both sides.         *)
LEMMA OrderStep == CtlInv /\ InOrder /\ [Next]_vars => InOrder'
<1> SUFFICES ASSUME CtlInv, InOrder, [Next]_vars, dropped' = {}
             PROVE  accepted' = DeliveredItems' \o m_list'
  BY DEF InOrder
<1>0. /\ m_list \in Seq(Items) /\ accepted \in Seq(Items) /\ DeliveredItems \in Seq(Items)
      /\ delivered \in Seq([by : Threads, item : Items])
  BY OrderTypes
<1>1. CASE UNCHANGED vars
  BY <1>1 DEF vars, InOrder, DeliveredItems
<1>2. ASSUME NEW t \in Threads, NEW o \in Ops, NEW i \in Items, Call(t, o, i)
      PROVE  accepted' = DeliveredItems' \o m_list'
  BY <1>2 DEF Call, history, InOrder, DeliveredItems
<1>3. ASSUME NEW t \in Threads, Lock(t) PROVE accepted' = DeliveredItems' \o m_list'
  BY <1>3 DEF Lock, history, InOrder, DeliveredItems
<1>4. ASSUME NEW t \in Threads, SpuriousWakeup(t)
      PROVE  accepted' = DeliveredItems' \o m_list'
  BY <1>4 DEF SpuriousWakeup, history, InOrder, DeliveredItems
<1>5. ASSUME NEW t \in Threads, Inside(t)
      PROVE  accepted' = DeliveredItems' \o m_list'
  <2>1. CASE PutPush(t)
    <3>1. /\ accepted' = Append(accepted, reg[t]) /\ m_list' = Append(m_list, reg[t])
          /\ DeliveredItems' = DeliveredItems /\ accepted = DeliveredItems \o m_list
      BY <2>1 DEF PutPush, InOrder, DeliveredItems
    <3>2. reg[t] \in Items
      BY <2>1 DEF PutPush, At, CtlInv, PlaceInv
    <3>3. Append(DeliveredItems \o m_list, reg[t]) = DeliveredItems \o Append(m_list, reg[t])
      BY <3>2, <1>0, BackMoves
    <3> QED
      BY <3>1, <3>3
  <2>2. CASE GetPop(t)
    <3>1. m_list # << >> /\ reg[t] = Head(m_list) /\ reg[t] \in Items
      BY <2>2, <1>0 DEF GetPop, At, CtlInv, PlaceInv
    <3>2. accepted' = accepted /\ m_list' = Tail(m_list) /\ accepted = DeliveredItems \o m_list
      BY <2>2 DEF GetPop, InOrder
    <3>3. delivered' = Append(delivered, [by |-> t, item |-> reg[t]])
      BY <2>2 DEF GetPop
    <3>4. DeliveredItems' = Append(DeliveredItems, reg[t])
      BY <3>1, <3>3, <1>0 DEF DeliveredItems
    <3> QED
      BY <3>1, <3>2, <3>4, <1>0, FrontMoves
  <2>3. CASE EraseItem(t)
    <3>1. reg[t] \notin Fifo!InSeq(m_list) /\ dropped = {}
      BY <2>3 DEF EraseItem
    <3> QED
      BY <2>3, <3>1 DEF EraseItem, Fifo!WithoutFirst, InOrder, DeliveredItems
  <2>4. CASE CleanList(t)
    <3>1. Fifo!InSeq(m_list) = {} /\ dropped = {}
      BY <2>4 DEF CleanList
    <3>2. m_list = << >>
      <4>1. m_list # << >> => 1 \in DOMAIN m_list
        BY <1>0
      <4> QED
        BY <3>1, <4>1 DEF Fifo!InSeq
    <3> QED
      BY <2>4, <3>1, <3>2 DEF CleanList, InOrder, DeliveredItems
  <2>5. CASE Construct(t)
    BY <2>5 DEF Construct, At, history, CtlInv, PlaceInv, InOrder, DeliveredItems
  <2> QED
    BY <1>5, <2>1, <2>2, <2>3, <2>4, <2>5
       DEF Inside, FindInstance, MissInstance, PutNotify, GetWait, GetFront, ReadLength,
           PeekEmpty, PeekFront, PeekCopy, history, InOrder, DeliveredItems
<1> QED
  BY <1>1, <1>2, <1>3, <1>4, <1>5 DEF Next

(* Every item put is delivered at most once, and in the order of the Puts.  *)
THEOREM InOrderHolds == Spec => []InOrder
<1>1. Init => InOrder
  BY DEF Init, InOrder, DeliveredItems
<1> QED
  BY <1>1, CtlInit, CtlStep, OrderStep, PTL DEF Spec

(* All threads share one queue object.                                     *)
THEOREM OneInstanceHolds == Spec => []OneInstance
<1>1. CtlInv => OneInstance
  BY DEF CtlInv
<1> QED
  BY <1>1, CtlInit, CtlStep, PTL DEF Spec
---------------------------------------------------------------------------
(* The order with Erase and QueueClean at work: s is what a has without d,  *)
(* each item once and in the order of a.                                   *)
InSeq(s) == Fifo!InSeq(s)
Less(s, a, d) ==
    /\ InSeq(s) = InSeq(a) \ d
    /\ \A i, j \in DOMAIN s : \A m, n \in DOMAIN a : i < j /\ a[m] = s[i] /\ a[n] = s[j] => m < n

(* Items are put once, and only what was put is taken out. *)
PutOnceInv == /\ \A m, n \in DOMAIN accepted : accepted[m] = accepted[n] => m = n
              /\ dropped \subseteq InSeq(accepted)

LEMMA LessOnce ==
    ASSUME NEW s \in Seq(Items), NEW a \in Seq(Items), NEW d, Less(s, a, d)
    PROVE  \A i, j \in DOMAIN s : s[i] = s[j] => i = j
<1>1. ASSUME NEW i \in DOMAIN s, NEW j \in DOMAIN s, i < j
      PROVE  s[i] # s[j]
  <2>1. PICK m \in DOMAIN a : a[m] = s[i]
    BY DEF Less, InSeq, Fifo!InSeq
  <2>2. m \in Nat
    BY <2>1
  <2> QED
    BY <1>1, <2>1, <2>2 DEF Less
<1>2. \A i, j \in DOMAIN s : i < j \/ j < i \/ i = j
  OBVIOUS
<1> QED
  BY <1>1, <1>2

LEMMA LessAppend ==
    ASSUME NEW s \in Seq(Items), NEW a \in Seq(Items), NEW d, NEW x \in Items,
           Less(s, a, d), x \notin InSeq(a), d \subseteq InSeq(a)
    PROVE  Less(Append(s, x), Append(a, x), d)
<1> DEFINE t == Append(s, x)
           b == Append(a, x)
<1>1. /\ Len(s) \in Nat /\ DOMAIN s = 1 .. Len(s) /\ DOMAIN t = 1 .. Len(s) + 1
      /\ t[Len(s) + 1] = x /\ \A i \in 1 .. Len(s) : t[i] = s[i]
  OBVIOUS
<1>2. /\ Len(a) \in Nat /\ DOMAIN a = 1 .. Len(a) /\ DOMAIN b = 1 .. Len(a) + 1
      /\ b[Len(a) + 1] = x /\ \A i \in 1 .. Len(a) : b[i] = a[i]
  OBVIOUS
<1>3. InSeq(t) = InSeq(s) \cup {x} /\ InSeq(b) = InSeq(a) \cup {x}
  BY InSeqAppend DEF InSeq
<1>4. InSeq(t) = InSeq(b) \ d
  BY <1>3 DEF Less
<1> HIDE DEF t, b
<1>5. ASSUME NEW i \in DOMAIN t, NEW j \in DOMAIN t, NEW m \in DOMAIN b, NEW n \in DOMAIN b,
             i < j, b[m] = t[i], b[n] = t[j]
      PROVE  m < n
  <2>1. i \in 1 .. Len(s) /\ t[i] = s[i]
    BY <1>1, <1>5
  <2>2. s[i] \in InSeq(a)
    BY <1>1, <2>1 DEF Less, InSeq, Fifo!InSeq
  <2>3. m \in 1 .. Len(a) /\ b[m] = a[m]
    BY <1>2, <1>5, <2>1, <2>2
  <2>4. CASE j = Len(s) + 1
    <3>1. n \notin 1 .. Len(a)
      BY <1>1, <1>2, <1>5, <2>4 DEF InSeq, Fifo!InSeq
    <3> QED
      BY <1>2, <2>3, <3>1
  <2>5. CASE j \in 1 .. Len(s)
    <3>1. t[j] = s[j] /\ s[j] \in InSeq(a)
      BY <1>1, <2>5 DEF Less, InSeq, Fifo!InSeq
    <3>2. n \in 1 .. Len(a) /\ b[n] = a[n]
      BY <1>2, <1>5, <3>1
    <3> QED
      BY <1>1, <1>2, <1>5, <2>1, <2>3, <2>5, <3>1, <3>2 DEF Less
  <2> QED
    BY <1>1, <2>4, <2>5
<1> QED
  BY <1>4, <1>5 DEF Less, t, b

(* r is s without the item at k. *)
LEMMA LessOne ==
    ASSUME NEW s \in Seq(Items), NEW a \in Seq(Items), NEW d, Less(s, a, d), NEW k \in DOMAIN s,
           NEW r \in Seq(Items), Len(r) = Len(s) - 1,
           \A i \in 1 .. Len(r) : r[i] = IF i >= k THEN s[i + 1] ELSE s[i]
    PROVE  Less(r, a, d \cup {s[k]})
<1> DEFINE F(i) == IF i >= k THEN i + 1 ELSE i
<1>1. /\ Len(s) \in Nat /\ DOMAIN s = 1 .. Len(s) /\ k \in 1 .. Len(s)
      /\ Len(r) \in Nat /\ DOMAIN r = 1 .. Len(r)
  OBVIOUS
<1>2. \A i \in DOMAIN r : F(i) \in DOMAIN s /\ F(i) # k /\ r[i] = s[F(i)]
  BY <1>1
<1>3. \A i, j \in DOMAIN r : i < j => F(i) < F(j)
  BY <1>1
<1>4. \A l \in DOMAIN s \ {k} : \E i \in DOMAIN r : F(i) = l
  <2> TAKE l \in DOMAIN s \ {k}
  <2> DEFINE i == IF l > k THEN l - 1 ELSE l
  <2>1. i \in DOMAIN r /\ F(i) = l
    BY <1>1
  <2> QED
    BY <2>1
<1> HIDE DEF F
<1>5. \A i, j \in DOMAIN s : s[i] = s[j] => i = j
  BY LessOnce
<1>6. InSeq(r) = InSeq(s) \ {s[k]}
  <2>1. ASSUME NEW v \in InSeq(r)
        PROVE  v \in InSeq(s) \ {s[k]}
    <3>1. PICK i \in DOMAIN r : v = r[i]
      BY <2>1 DEF InSeq, Fifo!InSeq
    <3> QED
      BY <1>2, <1>5, <3>1 DEF InSeq, Fifo!InSeq
  <2>2. ASSUME NEW v \in InSeq(s) \ {s[k]}
        PROVE  v \in InSeq(r)
    <3>1. PICK l \in DOMAIN s : v = s[l]
      BY <2>2 DEF InSeq, Fifo!InSeq
    <3>2. PICK i \in DOMAIN r : F(i) = l
      BY <1>4, <2>2, <3>1
    <3> QED
      BY <1>2, <3>1, <3>2 DEF InSeq, Fifo!InSeq
  <2> QED
    BY <2>1, <2>2
<1>7. InSeq(r) = InSeq(a) \ (d \cup {s[k]})
  BY <1>6 DEF Less
<1>8. \A i, j \in DOMAIN r : \A m, n \in DOMAIN a : i < j /\ a[m] = r[i] /\ a[n] = r[j] => m < n
  BY <1>2, <1>3 DEF Less
<1> QED
  BY <1>7, <1>8 DEF Less

LEMMA LessErase ==
    ASSUME NEW r \in Seq(Items), NEW s \in Seq(Items), NEW a \in Seq(Items), NEW d,
           Less(r \o s, a, d), NEW x \in InSeq(s)
    PROVE  Less(r \o Fifo!WithoutFirst(s, x), a, d \cup {x})
<1> DEFINE t == Fifo!WithoutFirst(s, x)
           both == r \o s
           rest == r \o t
<1>1. /\ Len(r) \in Nat /\ Len(s) \in Nat /\ DOMAIN s = 1 .. Len(s)
      /\ both \in Seq(Items) /\ Len(both) = Len(r) + Len(s) /\ DOMAIN both = 1 .. Len(r) + Len(s)
      /\ \A i \in 1 .. Len(r) : both[i] = r[i]
      /\ \A i \in 1 .. Len(s) : both[Len(r) + i] = s[i]
  OBVIOUS
<1>2. PICK k \in DOMAIN s : s[k] = x
  BY DEF InSeq, Fifo!InSeq
<1>3. \A i, j \in DOMAIN both : both[i] = both[j] => i = j
  BY <1>1, LessOnce
<1>4. \A i \in 1 .. Len(s) : s[i] = x => i = k
  <2> SUFFICES ASSUME NEW i \in 1 .. Len(s), s[i] = x
               PROVE  i = k
    OBVIOUS
  <2>1. Len(r) + i \in DOMAIN both /\ Len(r) + k \in DOMAIN both
    BY <1>1, <1>2
  <2>2. both[Len(r) + i] = both[Len(r) + k]
    BY <1>1, <1>2
  <2>3. Len(r) + i = Len(r) + k
    BY <1>3, <2>1, <2>2
  <2> QED
    BY <1>1, <1>2, <2>3
<1>5. t = [j \in 1 .. Len(s) - 1 |-> IF \E l \in 1 .. j : s[l] = x THEN s[j + 1] ELSE s[j]]
  BY DEF Fifo!WithoutFirst, InSeq
<1>6. t \in Seq(Items)
  BY WithoutFirstType
<1>7. Len(t) = Len(s) - 1
  BY <1>1, <1>2, <1>5
<1>8. \A j \in 1 .. Len(s) - 1 : t[j] = IF j >= k THEN s[j + 1] ELSE s[j]
  <2> TAKE j \in 1 .. Len(s) - 1
  <2>1. (\E l \in 1 .. j : s[l] = x) <=> j >= k
    BY <1>1, <1>2, <1>4
  <2> QED
    BY <1>5, <2>1
<1> HIDE DEF t
<1>9. /\ rest \in Seq(Items) /\ Len(rest) = Len(r) + Len(t)
      /\ \A i \in 1 .. Len(r) : rest[i] = r[i]
      /\ \A i \in 1 .. Len(t) : rest[Len(r) + i] = t[i]
  BY <1>6
<1> HIDE DEF both, rest
<1>10. \A i \in 1 .. Len(rest) : rest[i] = IF i >= Len(r) + k THEN both[i + 1] ELSE both[i]
  <2> TAKE i \in 1 .. Len(rest)
  <2>0. k \in 1 .. Len(s)
    BY <1>1, <1>2
  <2>1. CASE i <= Len(r)
    <3>1. i \in 1 .. Len(r) /\ ~(i >= Len(r) + k)
      BY <1>1, <1>9, <2>0, <2>1
    <3> QED
      BY <1>1, <1>9, <3>1
  <2>2. CASE i > Len(r)
    <3> DEFINE j == i - Len(r)
    <3>1. j \in 1 .. Len(t) /\ i = Len(r) + j /\ (i >= Len(r) + k <=> j >= k)
      BY <1>1, <1>7, <1>9, <2>0, <2>2
    <3> HIDE DEF j
    <3>2. rest[i] = t[j]
      BY <1>9, <3>1
    <3>3. j \in 1 .. Len(s) /\ j + 1 \in 1 .. Len(s) /\ i + 1 = Len(r) + (j + 1)
      BY <1>1, <1>7, <3>1
    <3>4. both[i] = s[j] /\ both[i + 1] = s[j + 1]
      BY <1>1, <3>1, <3>3
    <3> QED
      BY <1>7, <1>8, <3>1, <3>2, <3>4
  <2> QED
    BY <1>1, <1>9, <2>1, <2>2
<1>11. Len(r) + k \in DOMAIN both /\ both[Len(r) + k] = x
  BY <1>1, <1>2
<1>12. Len(rest) = Len(both) - 1 /\ Less(both, a, d)
  BY <1>1, <1>7, <1>9 DEF both
<1>13. Less(rest, a, d \cup {both[Len(r) + k]})
  BY <1>1, <1>9, <1>10, <1>11, <1>12, LessOne
<1> QED
  BY <1>11, <1>13 DEF rest, t

LEMMA LessClean ==
    ASSUME NEW r \in Seq(Items), NEW s \in Seq(Items), NEW a \in Seq(Items), NEW d, Less(r \o s, a, d)
    PROVE  Less(r, a, d \cup InSeq(s))
<1> DEFINE both == r \o s
<1>1. /\ Len(r) \in Nat /\ Len(s) \in Nat /\ DOMAIN s = 1 .. Len(s) /\ DOMAIN r = 1 .. Len(r)
      /\ both \in Seq(Items) /\ DOMAIN both = 1 .. Len(r) + Len(s)
      /\ \A i \in 1 .. Len(r) : both[i] = r[i]
      /\ \A i \in 1 .. Len(s) : both[Len(r) + i] = s[i]
  OBVIOUS
<1>2. \A i, j \in DOMAIN both : both[i] = both[j] => i = j
  BY <1>1, LessOnce
<1>3. InSeq(both) = InSeq(a) \ d /\ \A i, j \in DOMAIN both : \A m, n \in DOMAIN a :
         i < j /\ a[m] = both[i] /\ a[n] = both[j] => m < n
  BY DEF Less
<1> HIDE DEF both
<1>4. \A i \in DOMAIN r : \A j \in DOMAIN s : r[i] # s[j]
  <2> TAKE i \in DOMAIN r
  <2> TAKE j \in DOMAIN s
  <2>1. i \in DOMAIN both /\ Len(r) + j \in DOMAIN both /\ i # Len(r) + j
    BY <1>1
  <2> QED
    BY <1>1, <1>2, <2>1
<1>5. InSeq(both) = InSeq(r) \cup InSeq(s)
  <2>1. ASSUME NEW i \in DOMAIN both
        PROVE  both[i] \in InSeq(r) \cup InSeq(s)
    <3>1. CASE i \in 1 .. Len(r)
      BY <1>1, <3>1 DEF InSeq, Fifo!InSeq
    <3>2. CASE i \notin 1 .. Len(r)
      <4>1. i - Len(r) \in 1 .. Len(s) /\ i = Len(r) + (i - Len(r))
        BY <1>1, <3>2
      <4>2. both[i] = s[i - Len(r)]
        BY <1>1, <4>1
      <4> QED
        BY <1>1, <4>1, <4>2 DEF InSeq, Fifo!InSeq
    <3> QED
      BY <3>1, <3>2
  <2>2. ASSUME NEW i \in DOMAIN r
        PROVE  r[i] \in InSeq(both)
    <3>1. i \in DOMAIN both /\ both[i] = r[i]
      BY <1>1
    <3> QED
      BY <3>1 DEF InSeq, Fifo!InSeq
  <2>3. ASSUME NEW i \in DOMAIN s
        PROVE  s[i] \in InSeq(both)
    <3>1. Len(r) + i \in DOMAIN both /\ both[Len(r) + i] = s[i]
      BY <1>1
    <3> QED
      BY <3>1 DEF InSeq, Fifo!InSeq
  <2> QED
    BY <2>1, <2>2, <2>3 DEF InSeq, Fifo!InSeq
<1>6. InSeq(r) = InSeq(a) \ (d \cup InSeq(s))
  <2>1. \A v \in InSeq(r) : v \notin InSeq(s)
    BY <1>4 DEF InSeq, Fifo!InSeq
  <2> QED
    BY <1>3, <1>5, <2>1
<1>7. \A i, j \in DOMAIN r : \A m, n \in DOMAIN a : i < j /\ a[m] = r[i] /\ a[n] = r[j] => m < n
  <2>1. \A i \in DOMAIN r : i \in DOMAIN both /\ both[i] = r[i]
    BY <1>1
  <2> QED
    BY <1>3, <2>1
<1> QED
  BY <1>6, <1>7 DEF Less

(* A push adds an item to both sides, a pop moves one from the list to what *)
(* was delivered, and Erase and QueueClean take out what they drop.        *)
LEMMA LessStep ==
    CtlInv /\ FreshInv /\ PutOnceInv /\ InOrderLessDropped /\ [Next]_vars
        => PutOnceInv' /\ InOrderLessDropped'
<1> SUFFICES ASSUME CtlInv, FreshInv, PutOnceInv, InOrderLessDropped, [Next]_vars
             PROVE  PutOnceInv' /\ InOrderLessDropped'
  OBVIOUS
<1> DEFINE D == DeliveredItems
<1>0. /\ m_list \in Seq(Items) /\ accepted \in Seq(Items) /\ D \in Seq(Items)
      /\ delivered \in Seq([by : Threads, item : Items])
  BY OrderTypes
<1>l. Less(D \o m_list, accepted, dropped)
  BY DEF InOrderLessDropped, Left, Less, InSeq
<1>k. InOrderLessDropped' <=> Less(D' \o m_list', accepted', dropped')
  BY DEF InOrderLessDropped, Left, Less, InSeq
<1>q. InSeq(m_list) \subseteq InSeq(accepted)
  <2> DEFINE both == D \o m_list
  <2>1. \A i \in DOMAIN m_list : Len(D) + i \in DOMAIN both /\ both[Len(D) + i] = m_list[i]
    BY <1>0
  <2>2. InSeq(both) \subseteq InSeq(accepted)
    BY <1>l DEF Less
  <2> HIDE DEF both
  <2> QED
    BY <2>1, <2>2 DEF InSeq, Fifo!InSeq
<1>1. ASSUME UNCHANGED <<m_list, accepted, delivered, dropped>>
      PROVE  PutOnceInv' /\ InOrderLessDropped'
  BY <1>1, <1>l, <1>k DEF PutOnceInv, DeliveredItems
<1>2. ASSUME NEW t \in Threads, PutPush(t)
      PROVE  PutOnceInv' /\ InOrderLessDropped'
  <2> DEFINE x == reg[t]
  <2>1. x \in Items /\ x \notin InSeq(accepted)
    BY <1>2 DEF PutPush, At, FreshInv, PutPending, CtlInv, PlaceInv, InSeq
  <2>2. /\ accepted' = Append(accepted, x) /\ m_list' = Append(m_list, x)
        /\ D' = D /\ dropped' = dropped
    BY <1>2 DEF PutPush, DeliveredItems
  <2> HIDE DEF x, D
  <2>3. D \o Append(m_list, x) = Append(D \o m_list, x)
    BY <1>0, <2>1, BackMoves
  <2>4. Less(Append(D \o m_list, x), Append(accepted, x), dropped)
    <3>1. D \o m_list \in Seq(Items)
      BY <1>0
    <3> QED
      BY <1>0, <1>l, <2>1, <3>1, LessAppend DEF PutOnceInv
  <2>5. InOrderLessDropped'
    BY <1>k, <2>2, <2>3, <2>4
  <2>6. \A m, n \in DOMAIN accepted' : accepted'[m] = accepted'[n] => m = n
    <3>1. /\ DOMAIN accepted' = 1 .. Len(accepted) + 1 /\ accepted'[Len(accepted) + 1] = x
          /\ \A m \in 1 .. Len(accepted) : accepted'[m] = accepted[m]
          /\ DOMAIN accepted = 1 .. Len(accepted) /\ Len(accepted) \in Nat
      BY <1>0, <2>1, <2>2
    <3>2. \A m \in 1 .. Len(accepted) : accepted[m] # x
      BY <2>1, <3>1 DEF InSeq, Fifo!InSeq
    <3> QED
      BY <3>1, <3>2 DEF PutOnceInv
  <2>7. InSeq(accepted') = InSeq(accepted) \cup {x}
    BY <1>0, <2>1, <2>2, InSeqAppend DEF InSeq
  <2> QED
    BY <2>2, <2>5, <2>6, <2>7 DEF PutOnceInv
<1>3. ASSUME NEW t \in Threads, GetPop(t)
      PROVE  PutOnceInv' /\ InOrderLessDropped'
  <2>1. m_list # << >> /\ reg[t] = Head(m_list) /\ reg[t] \in Items
    BY <1>0, <1>3 DEF GetPop, At, CtlInv, PlaceInv
  <2>2. accepted' = accepted /\ dropped' = dropped /\ m_list' = Tail(m_list)
    BY <1>3 DEF GetPop
  <2>3. delivered' = Append(delivered, [by |-> t, item |-> reg[t]])
    BY <1>3 DEF GetPop
  <2>4. D' = Append(D, reg[t])
    BY <1>0, <2>1, <2>3 DEF DeliveredItems
  <2> HIDE DEF D
  <2>5. D' \o m_list' = D \o m_list
    BY <1>0, <2>1, <2>2, <2>4, FrontMoves
  <2> QED
    BY <1>k, <1>l, <2>2, <2>5 DEF PutOnceInv
<1>4. ASSUME NEW t \in Threads, EraseItem(t)
      PROVE  PutOnceInv' /\ InOrderLessDropped'
  <2>1. /\ m_list' = Fifo!WithoutFirst(m_list, reg[t]) /\ accepted' = accepted /\ D' = D
        /\ dropped' = dropped \cup ({reg[t]} \cap InSeq(m_list))
    BY <1>4 DEF EraseItem, DeliveredItems, InSeq
  <2> HIDE DEF D
  <2>2. PutOnceInv'
    BY <1>q, <2>1 DEF PutOnceInv
  <2>3. CASE reg[t] \in InSeq(m_list)
    <3>1. dropped' = dropped \cup {reg[t]}
      BY <2>1, <2>3
    <3>2. Less(D \o m_list', accepted, dropped \cup {reg[t]})
      BY <1>0, <1>l, <2>1, <2>3, LessErase
    <3> QED
      BY <1>k, <2>1, <2>2, <3>1, <3>2
  <2>4. CASE reg[t] \notin InSeq(m_list)
    <3>1. m_list' = m_list /\ dropped' = dropped
      BY <2>1, <2>4 DEF Fifo!WithoutFirst, InSeq
    <3> QED
      BY <1>k, <1>l, <2>1, <2>2, <3>1
  <2> QED
    BY <2>3, <2>4
<1>5. ASSUME NEW t \in Threads, CleanList(t)
      PROVE  PutOnceInv' /\ InOrderLessDropped'
  <2>1. m_list' = << >> /\ accepted' = accepted /\ D' = D /\ dropped' = dropped \cup InSeq(m_list)
    BY <1>5 DEF CleanList, DeliveredItems, InSeq
  <2> HIDE DEF D
  <2>2. D \o << >> = D
    BY <1>0
  <2>3. Less(D, accepted, dropped \cup InSeq(m_list))
    BY <1>0, <1>l, LessClean
  <2> QED
    BY <1>k, <1>q, <2>1, <2>2, <2>3 DEF PutOnceInv
<1>6. ASSUME NEW t \in Threads, Construct(t)
      PROVE  PutOnceInv' /\ InOrderLessDropped'
  <2>1. UNCHANGED <<m_list, accepted, delivered, dropped>>
    BY <1>6 DEF Construct, At, CtlInv, PlaceInv, history
  <2> QED
    BY <1>1, <2>1
<1>7. ASSUME NEW t \in Threads, Inside(t)
      PROVE  PutOnceInv' /\ InOrderLessDropped'
  BY <1>1, <1>2, <1>3, <1>4, <1>5, <1>6, <1>7
     DEF Inside, FindInstance, MissInstance, PutNotify, GetWait, GetFront, ReadLength,
         PeekEmpty, PeekFront, PeekCopy, history
<1>8. CASE UNCHANGED vars
  BY <1>1, <1>8 DEF vars
<1>9. ASSUME NEW t \in Threads, Lock(t) \/ SpuriousWakeup(t) \/ \E o \in Ops, i \in Items : Call(t, o, i)
      PROVE  PutOnceInv' /\ InOrderLessDropped'
  BY <1>1, <1>9 DEF Lock, SpuriousWakeup, Call, history
<1> QED
  BY <1>7, <1>8, <1>9 DEF Next

(* Erase and QueueClean among the Puts and Gets of others take out what     *)
(* they report and nothing else, and leave the order of the rest.          *)
THEOREM InOrderLessDroppedHolds == Spec => []InOrderLessDropped
<1>1. Init => FreshInv
  BY DEF Init, FreshInv, PutPending
<1>2. Init => PutOnceInv /\ InOrderLessDropped
  <2> SUFFICES ASSUME Init
               PROVE  PutOnceInv /\ InOrderLessDropped
    OBVIOUS
  <2>1. Left = << >> /\ accepted = << >> /\ dropped = {}
    BY DEF Init, Left, DeliveredItems
  <2>2. DOMAIN << >> = {}
    OBVIOUS
  <2> QED
    BY <2>1, <2>2 DEF PutOnceInv, InOrderLessDropped, InSeq, Fifo!InSeq
<1> QED
  BY <1>1, <1>2, CtlInit, CtlStep, FreshStep, LessStep, PTL DEF Spec

---------------------------------------------------------------------------
(* GetQueueHead. *)
Sole(t) == \A u \in Threads \ {t} : Role[u] \intersect Removing = {}

(* A thread that alone removes finds its list as it left it, or longer: the *)
(* list it saw not empty is not, and the node it read is the first still.  *)
HeadInv ==
    \A t \in Threads :
        /\ pc[t] # "idle" => op[t] \in Role[t]
        /\ Sole(t) =>
              /\ reg[t] # Garbage
              /\ At(t, "GetQueueHead", "front") => m_list # << >>
              /\ At(t, "GetQueueHead", "copy") => m_list # << >> /\ reg[t] = Head(m_list)

LEMMA HeadInSeq ==
    ASSUME NEW s \in Seq(Items), s # << >>
    PROVE  Head(s) \in Fifo!InSeq(s) /\ Head(s) \in Items
<1>1. 1 \in DOMAIN s /\ Head(s) = s[1]
  OBVIOUS
<1> QED
  BY <1>1 DEF Fifo!InSeq

(* What one thread does to the list keeps the head another one looks at:   *)
(* it does not remove, and the list was made before the other looked.      *)
LEMMA HeadStep == CtlInv /\ HeadInv /\ [Next]_vars => HeadInv'
<1> SUFFICES ASSUME CtlInv, HeadInv, [Next]_vars PROVE HeadInv'
  OBVIOUS
<1> USE Distinct, RoleType DEF CtlInv, TypeOK, HeadInv, At, history
<1>0. \A t \in Threads : Sole(t)' <=> Sole(t)
  BY DEF Sole
<1>1. CASE UNCHANGED vars
  BY <1>1, <1>0 DEF vars
<1>2. ASSUME NEW t \in Threads, NEW o \in Ops, NEW i \in Items, Call(t, o, i)
      PROVE  HeadInv'
  BY <1>2, <1>0 DEF Call
<1>3. ASSUME NEW t \in Threads, Lock(t) PROVE HeadInv'
  BY <1>3, <1>0 DEF Lock
<1>4. ASSUME NEW t \in Threads, SpuriousWakeup(t) PROVE HeadInv'
  BY <1>4, <1>0 DEF SpuriousWakeup
<1>5. ASSUME NEW t \in Threads, Inside(t) PROVE HeadInv'
  <2> USE <1>0 DEF Return
  <2>1. CASE FindInstance(t)
    BY <2>1 DEF FindInstance
  <2>2. CASE MissInstance(t)
    BY <2>2 DEF MissInstance
  <2>3. CASE Construct(t)
    BY <2>3 DEF Construct, PlaceInv
  <2>4. CASE PutPush(t)
    <3>1. reg[t] \in Items
      BY <2>4 DEF PutPush, PlaceInv
    <3>2. /\ m_list' # << >>
          /\ m_list # << >> => Head(m_list') = Head(m_list)
      BY <2>4, <3>1 DEF PutPush
    <3> QED
      BY <2>4, <3>2 DEF PutPush
  <2>5. CASE PutNotify(t)
    BY <2>5 DEF PutNotify, Sleepers
  <2>6. CASE GetWait(t)
    BY <2>6 DEF GetWait
  <2>7. CASE GetFront(t)
    BY <2>7, HeadInSeq DEF GetFront
  <2>8. CASE GetPop(t)
    BY <2>8 DEF GetPop, Sole, Removing
  <2>9. CASE EraseItem(t)
    BY <2>9 DEF EraseItem, Sole, Removing
  <2>10. CASE CleanList(t)
    BY <2>10 DEF CleanList, Sole, Removing
  <2>11. CASE ReadLength(t)
    BY <2>11 DEF ReadLength
  <2>12. CASE PeekEmpty(t)
    BY <2>12 DEF PeekEmpty
  <2>13. CASE PeekFront(t)
    BY <2>13, HeadInSeq DEF PeekFront
  <2>14. CASE PeekCopy(t)
    BY <2>14, HeadInSeq DEF PeekCopy
  <2> QED
    BY <1>5, <2>1, <2>2, <2>3, <2>4, <2>5, <2>6, <2>7, <2>8, <2>9, <2>10, <2>11,
       <2>12, <2>13, <2>14 DEF Inside
<1> QED
  BY <1>1, <1>2, <1>3, <1>4, <1>5 DEF Next

(* GetQueueHead takes no lock and needs none in the thread that alone       *)
(* removes, whatever the others put.                                       *)
THEOREM HeadIsSafe == Spec => []HeadIsSafeForSoleRemover
<1>1. Init => HeadInv
  BY Distinct DEF Init, HeadInv, At
<1>2. HeadInv => HeadIsSafeForSoleRemover
  BY DEF HeadInv, HeadIsSafeForSoleRemover, Sole
<1> QED
  BY <1>1, <1>2, CtlInit, CtlStep, HeadStep, PTL DEF Spec
=============================================================================
