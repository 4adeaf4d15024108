------------------------- MODULE FirmwareFlashProofs -------------------------
(***************************************************************************)
(* Proofs about FirmwareFlash, for any images, any number of blocks, with  *)
(* rollback and without: FlashIInv is inductive, and the properties are    *)
(* among its conjuncts.                                                    *)
(*                                                                         *)
(* The first lemmas are about the two slots of otadata alone; the ones     *)
(* after them take each action once, all conjuncts it can disturb.         *)
(***************************************************************************)
EXTENDS FirmwareFlash, TLAPS

USE ImagesAssumption, BlocksAssumption, RollbackAssumption, MaxSeqAssumption, ErasedAssumption

OtaData == [Slots -> Entries \cup {Erased}]

(* The sequence number that is active is the largest of a valid slot, 0 without one. *)
LEMMA ActiveSeqLargest ==
    ASSUME NEW s \in OtaData
    PROVE  /\ ActiveSeq(s) \in Nat
           /\ \A i \in Slots : Valid(s, i) => s[i].seq \in Nat \ {0} /\ s[i].seq <= ActiveSeq(s)
           /\ \A i \in Slots : IsActive(s, i) => ActiveSeq(s) = s[i].seq
           /\ ActiveSeq(s) = 0 <=> \A i \in Slots : ~Valid(s, i)
BY DEF OtaData, Slots, Entries, Valid, IsActive, ActiveSeq

(* Some partition is always selected. *)
LEMMA SelectedType == ASSUME NEW s \in OtaData PROVE Selected(s) \in Partitions
BY ActiveSeqLargest DEF Selected, Partitions

(* What a slot that is not active contains does not matter, as long as it stays invalid;
   nor whether the active one is given up or erased. *)
LEMMA OthersDecide ==
    ASSUME NEW s \in OtaData, NEW r \in OtaData, NEW i \in Slots, NEW j \in Slots, i # j,
           r[j] = s[j], ~Valid(r, i), ~IsActive(s, i)
    PROVE  ActiveSeq(r) = ActiveSeq(s) /\ Selected(r) = Selected(s)
<1>1. ActiveSeq(r) = ActiveSeq(s)
  BY DEF OtaData, Slots, Entries, Valid, IsActive, ActiveSeq
<1> QED
  BY <1>1 DEF Selected

LEMMA GivenUpOrErased ==
    ASSUME NEW s \in OtaData, NEW r \in OtaData, NEW i \in Slots, NEW j \in Slots, i # j,
           r[j] = s[j], ~Valid(r, i), ~Valid(s, i)
    PROVE  ActiveSeq(r) = ActiveSeq(s) /\ Selected(r) = Selected(s)
<1>1. ActiveSeq(r) = ActiveSeq(s)
  BY DEF OtaData, Slots, Entries, Valid, IsActive, ActiveSeq
<1> QED
  BY <1>1 DEF Selected

(* The state of a slot that stays valid does not matter. *)
LEMMA SameSeqs ==
    ASSUME NEW s \in OtaData, NEW r \in OtaData,
           \A i \in Slots : (Valid(r, i) <=> Valid(s, i)) /\ (Valid(s, i) => r[i].seq = s[i].seq)
    PROVE  /\ ActiveSeq(r) = ActiveSeq(s) /\ Selected(r) = Selected(s)
           /\ \A i \in Slots : IsActive(r, i) <=> IsActive(s, i)
<1>1. \A i \in Slots : IsActive(r, i) <=> IsActive(s, i)
  BY DEF IsActive
<1>2. ActiveSeq(r) = ActiveSeq(s)
  BY <1>1 DEF ActiveSeq, IsActive, Slots
<1> QED
  BY <1>1, <1>2 DEF Selected

(* The new number is above the active one and selects the partition it is made for. *)
LEMMA NewSeqSelects ==
    ASSUME NEW s \in OtaData, NEW dest \in Partitions
    PROVE  /\ NewSeq(s, dest) \in Nat \ {0} /\ NewSeq(s, dest) > ActiveSeq(s)
           /\ (NewSeq(s, dest) - 1) % 2 = dest
BY ActiveSeqLargest DEF NewSeq, Partitions

(* The slot to write is never the active one. *)
LEMMA TargetNotActive ==
    ASSUME NEW s \in OtaData, ~(Valid(s, 0) /\ Valid(s, 1) /\ s[0].seq = s[1].seq)
    PROVE  TargetSlot(s) \in Slots /\ ~IsActive(s, TargetSlot(s))
BY DEF OtaData, Slots, Entries, Valid, IsActive, TargetSlot

(* An entry written with the new number is the active one, alone. *)
LEMMA WrittenSelects ==
    ASSUME NEW s \in OtaData, NEW r \in OtaData, NEW dest \in Partitions, NEW t \in Slots,
           r[t] = [seq |-> NewSeq(s, dest), state |-> "new"],
           \A j \in Slots : j # t => r[j] = s[j]
    PROVE  /\ Valid(r, t) /\ IsActive(r, t) /\ Selected(r) = dest
           /\ \A j \in Slots : j # t => ~IsActive(r, j)
           /\ Valid(r, 0) /\ Valid(r, 1) => r[0].seq # r[1].seq
<1> DEFINE n == NewSeq(s, dest)
<1>1. n \in Nat \ {0} /\ n > ActiveSeq(s) /\ (n - 1) % 2 = dest
  BY NewSeqSelects
<1>2. r[t] = [seq |-> n, state |-> "new"] /\ \A j \in Slots : j # t => r[j] = s[j]
  OBVIOUS
<1>3. [seq |-> n, state |-> "new"] \in Entries
  BY <1>1 DEF Entries, SlotStates
<1>4. Valid(r, t)
  BY <1>2, <1>3, ErasedAssumption DEF Valid
<1>5. \A j \in Slots : j # t /\ Valid(r, j) => s[j].seq \in Nat /\ r[j].seq = s[j].seq /\ s[j].seq < n
  BY <1>1, <1>2, ActiveSeqLargest DEF Valid
<1>6. r[t].seq = n /\ n \in Nat
  BY <1>1, <1>2
<1>7. IsActive(r, t)
  <2>1. ASSUME NEW j \in Slots, Valid(r, j) PROVE r[j].seq <= r[t].seq
    <3>1. CASE j = t
      BY <1>6, <3>1
    <3>2. CASE j # t
      BY <1>1, <1>5, <1>6, <2>1, <3>2
    <3> QED
      BY <3>1, <3>2
  <2> QED
    BY <1>4, <2>1, Zenon DEF IsActive
<1>8. ASSUME NEW j \in Slots, j # t PROVE ~IsActive(r, j)
  <2>1. ASSUME Valid(r, j) PROVE ~(r[t].seq <= r[j].seq)
    BY <1>1, <1>5, <1>6, <1>8, <2>1
  <2> QED
    BY <1>4, <2>1, Zenon DEF IsActive
<1>9. ActiveSeq(r) = n
  BY <1>4, <1>6, <1>7, ActiveSeqLargest
<1>10. Selected(r) = dest
  BY <1>1, <1>9 DEF Selected
<1>11. ASSUME Valid(r, 0), Valid(r, 1) PROVE r[0].seq # r[1].seq
  BY <1>1, <1>5, <1>6, <1>11 DEF Slots
<1> QED
  BY <1>2, <1>4, <1>7, <1>8, <1>10, <1>11

-----------------------------------------------------------------------------
(* The steps. *)

LEMMA FlashInitIInv == FlashInit => FlashIInv
<1> SUFFICES ASSUME FlashInit PROVE FlashIInv
  OBVIOUS
<1>1. [seq |-> 1, state |-> "valid"] \in Entries
  BY DEF Entries, SlotStates
<1>2. FlashTypeOK
  BY <1>1 DEF FlashInit, FlashTypeOK, Slots, Partitions, Stages, Installing
<1>3. Selected(slot) = 0
  BY <1>1 DEF FlashInit, Selected, ActiveSeq, IsActive, Valid, Slots
<1>4. SeqsDiffer /\ OneTrial /\ FallbackBoots
  BY DEF FlashInit, SeqsDiffer, OneTrial, FallbackBoots, IsActive, Valid, Slots
<1> QED
  BY <1>2, <1>3, <1>4 DEF FlashInit, FlashIInv, RunsSelected, Written, SelectedBoots,
      SwitchTakes

(* While an update is possible no image is on trial. *)
LEMMA TrialOver ==
    ASSUME FlashIInv, stage \notin {"off", "starting", "done"}
    PROVE  \A i \in Slots : Rollback /\ Valid(slot, i) => slot[i].state \notin {"new", "pending"}
BY DEF FlashIInv, OneTrial

(* A step that changes neither a partition nor otadata, within an update or to a reset. *)
LEMMA StageMoves ==
    ASSUME FlashIInv, FlashTypeOK', UNCHANGED <<part, slot, running>>, Written',
           \/ stage' = "off"
           \/ {stage, stage'} \cap {"off", "starting", "done"} = {}
    PROVE  FlashIInv'
<1>1. SeqsDiffer'
  BY DEF FlashIInv, SeqsDiffer, Valid
<1>2. RunsSelected'
  BY DEF FlashIInv, RunsSelected, Selected, ActiveSeq, IsActive, Valid
<1>3. OneTrial'
  <2>1. CASE stage' = "off"
    BY <2>1, Zenon DEF FlashIInv, OneTrial, IsActive, Valid
  <2>2. CASE {stage, stage'} \cap {"off", "starting", "done"} = {}
    <3>1. stage \notin {"off", "starting", "done"} /\ stage' # "starting"
      BY <2>2
    <3> QED
      BY <3>1, TrialOver DEF OneTrial, Valid
  <2> QED
    BY <2>1, <2>2
<1>4. SelectedBoots'
  BY DEF FlashIInv, SelectedBoots, Selected, ActiveSeq, IsActive, Valid
<1>5. SwitchTakes'
  BY DEF SwitchTakes
<1>6. FallbackBoots'
  BY DEF FlashIInv, FallbackBoots, Without, Selected, ActiveSeq, IsActive, Valid
<1> QED
  BY <1>1, <1>2, <1>3, <1>4, <1>5, <1>6 DEF FlashIInv

(* A step that writes to the partition that does not run. *)
LEMMA DestWritten ==
    ASSUME FlashIInv, FlashTypeOK', UNCHANGED <<slot, running>>, Written',
           NEW now, part' = [part EXCEPT ![Dest] = now],
           stage \notin {"off", "starting", "done"}, stage' \notin {"off", "starting", "done"}
    PROVE  FlashIInv'
<1>1. SeqsDiffer'
  BY DEF FlashIInv, SeqsDiffer, Valid
<1>2. RunsSelected' /\ running = Selected(slot)
  BY DEF FlashIInv, RunsSelected, Selected, ActiveSeq, IsActive, Valid
<1>3. OneTrial'
  BY TrialOver DEF OneTrial, Valid
<1>4. part'[running] = part[running]
  BY DEF FlashIInv, FlashTypeOK, Dest, Partitions
<1>5. SelectedBoots'
  <2>1. part[Selected(slot)] \in Fit
    BY DEF FlashIInv, SelectedBoots
  <2>2. part'[Selected(slot)] \in Fit
    BY <1>2, <1>4, <2>1
  <2> QED
    BY <2>2 DEF SelectedBoots, Selected, ActiveSeq, IsActive, Valid
<1>6. SwitchTakes'
  BY DEF SwitchTakes
<1>7. FallbackBoots'
  BY TrialOver DEF FallbackBoots, IsActive, Valid
<1> QED
  BY <1>1, <1>2, <1>3, <1>5, <1>6, <1>7 DEF FlashIInv

(* From power-up to setup(). *)
LEMMA BootloaderStep == ASSUME FlashIInv, Bootloader PROVE FlashIInv'
<1> DEFINE s == slot
<1> DEFINE r == Probed(slot)
<1>1. slot' = r /\ stage = "off" /\ stage' = "starting" /\ UNCHANGED <<part, file, pos>>
  BY DEF Bootloader
<1>2. s \in OtaData /\ r \in OtaData
  BY DEF FlashIInv, FlashTypeOK, OtaData, Probed, Slots, Entries, SlotStates, IsActive, Valid
<1>3. part[Selected(r)] \in Fit
  <2>1. CASE \E i \in Slots : Rollback /\ IsActive(s, i) /\ s[i].state = "pending"
    <3>1. PICK i \in Slots : Rollback /\ IsActive(s, i) /\ s[i].state = "pending"
      BY <2>1
    <3>2. PICK j \in Slots : j # i
      BY DEF Slots
    <3>3. ~Valid(r, i)
      BY <1>2, <3>1 DEF Probed, Valid, OtaData, Entries, IsActive
    <3>4. ~IsActive(s, j)
      BY <1>2, <3>1, <3>2 DEF FlashIInv, SeqsDiffer, IsActive, Valid, OtaData, Slots, Entries
    <3>5. r[j] = s[j]
      BY <3>4 DEF Probed
    <3>6. Without(i) \in OtaData /\ Without(i)[j] = s[j] /\ ~Valid(Without(i), i)
      BY <1>2, <3>2 DEF Without, OtaData, Valid
    <3>7. Selected(r) = Selected(Without(i))
      BY <1>2, <3>2, <3>3, <3>5, <3>6, GivenUpOrErased
    <3> QED
      BY <3>1, <3>7 DEF FlashIInv, FallbackBoots
  <2>2. CASE ~\E i \in Slots : Rollback /\ IsActive(s, i) /\ s[i].state = "pending"
    <3>1. \A i \in Slots : (Valid(r, i) <=> Valid(s, i)) /\ (Valid(s, i) => r[i].seq = s[i].seq)
      BY <1>2, <2>2, ErasedAssumption DEF Probed, Valid, OtaData, Entries, SlotStates, IsActive
    <3>2. Selected(r) = Selected(s)
      BY <1>2, <3>1, SameSeqs
    <3> QED
      BY <3>2 DEF FlashIInv, SelectedBoots
  <2> QED
    BY <2>1, <2>2
<1>4. Selected(r) \in Partitions
  BY <1>2, SelectedType
<1>5. running' = Selected(r)
  BY <1>1, <1>3 DEF Bootloader
<1>6. FlashTypeOK'
  BY <1>1, <1>2, <1>4, <1>5 DEF FlashIInv, FlashTypeOK, OtaData, Stages
<1>7. SeqsDiffer'
  <2>1. \A i \in Slots : Valid(r, i) => Valid(s, i) /\ r[i].seq = s[i].seq
    BY <1>2, ErasedAssumption DEF Probed, Valid, OtaData, Entries, SlotStates, IsActive
  <2>2. ~(Valid(r, 0) /\ Valid(r, 1) /\ r[0].seq = r[1].seq)
    BY <2>1 DEF FlashIInv, SeqsDiffer, Slots
  <2> QED
    BY <1>1, <2>2, Zenon DEF SeqsDiffer, Valid
<1>8. RunsSelected'
  <2>1. running' = Selected(slot')
    BY <1>1, <1>5
  <2> QED
    BY <2>1, Zenon DEF RunsSelected, Selected, ActiveSeq, IsActive, Valid
<1>9. Written' /\ SwitchTakes'
  BY <1>1 DEF Written, SwitchTakes
<1>10. SelectedBoots'
  <2>1. part'[Selected(slot')] \in Fit
    BY <1>1, <1>3
  <2> QED
    BY <2>1, Zenon DEF SelectedBoots, Selected, ActiveSeq, IsActive, Valid
<1>11. ASSUME Rollback, NEW i \in Slots, Valid(r, i), r[i].state \in {"new", "pending"}
       PROVE  /\ IsActive(s, i) /\ IsActive(r, i) /\ r[i].state = "pending"
              /\ s[i].state = "new" /\ Selected(r) = Selected(s)
              /\ [r EXCEPT ![i] = Erased] = [s EXCEPT ![i] = Erased]
  <2>1. PICK j \in Slots : j # i
    BY DEF Slots
  <2>2. Valid(s, i)
    BY <1>2, <1>11 DEF Probed, Valid, OtaData, Entries, SlotStates, IsActive
  <2>3. IsActive(s, i)
    BY <1>11, <2>2 DEF Probed, FlashIInv, OneTrial
  <2>4. s[i].state = "new" /\ r[i].state = "pending"
    BY <1>2, <1>11, <2>2, <2>3 DEF FlashIInv, OneTrial, Probed, OtaData, Entries, Valid
  <2>5. ~IsActive(s, j)
    BY <1>2, <2>1, <2>3 DEF FlashIInv, SeqsDiffer, IsActive, Valid, OtaData, Slots, Entries
  <2>6. r[j] = s[j]
    BY <2>5 DEF Probed
  <2>7. r[i].seq = s[i].seq
    BY <1>2, <2>2, <2>3, <2>4 DEF Probed, OtaData, Entries, Valid
  <2>8. \A k \in Slots : (Valid(r, k) <=> Valid(s, k)) /\ (Valid(s, k) => r[k].seq = s[k].seq)
    BY <1>11, <2>1, <2>2, <2>6, <2>7 DEF Valid, Slots
  <2>9. IsActive(r, i) /\ Selected(r) = Selected(s)
    BY <1>2, <2>3, <2>8, SameSeqs
  <2>10. [r EXCEPT ![i] = Erased] = [s EXCEPT ![i] = Erased]
    <3>1. /\ [r EXCEPT ![i] = Erased] = [k \in Slots |-> IF k = i THEN Erased ELSE r[k]]
          /\ [s EXCEPT ![i] = Erased] = [k \in Slots |-> IF k = i THEN Erased ELSE s[k]]
      BY <1>2, Zenon DEF OtaData
    <3>2. \A k \in Slots : k # i => r[k] = s[k]
      BY <2>1, <2>6 DEF Slots
    <3> HIDE DEF r, s
    <3> QED
      BY <3>1, <3>2
  <2> QED
    BY <2>3, <2>4, <2>9, <2>10
<1>12. OneTrial'
  <2>1. Rollback => \A i \in Slots : Valid(r, i) =>
            /\ r[i].state \in {"new", "pending"} => IsActive(r, i)
            /\ r[i].state # "new"
    BY <1>11
  <2> QED
    BY <1>1, <2>1, Zenon DEF OneTrial, IsActive, Valid
<1>13. FallbackBoots'
  <2>1. ASSUME Rollback, NEW i \in Slots, IsActive(slot', i), slot'[i].state \in {"new", "pending"}
        PROVE  /\ Selected([slot' EXCEPT ![i] = Erased]) # Selected(slot')
               /\ part'[Selected([slot' EXCEPT ![i] = Erased])] \in Fit
    <3>1. Valid(r, i) /\ r[i].state \in {"new", "pending"}
      BY <1>1, <2>1 DEF IsActive
    <3> HIDE DEF r
    <3>2. /\ IsActive(s, i) /\ s[i].state = "new" /\ Selected(r) = Selected(s)
          /\ [r EXCEPT ![i] = Erased] = [s EXCEPT ![i] = Erased]
      BY <1>11, <2>1, <3>1
    <3>3. Selected(Without(i)) # Selected(slot) /\ part[Selected(Without(i))] \in Fit
      BY <2>1, <3>2 DEF FlashIInv, FallbackBoots
    <3> QED
      BY <1>1, <3>2, <3>3 DEF Without
  <2> QED
    BY <2>1, Zenon DEF FallbackBoots, Without, Selected, ActiveSeq, IsActive, Valid
<1> QED
  BY <1>6, <1>7, <1>8, <1>9, <1>10, <1>12, <1>13 DEF FlashIInv

LEMMA AppStartsStep == ASSUME FlashIInv, AppStarts PROVE FlashIInv'
<1> DEFINE s == slot
<1> DEFINE r == [i \in Slots |->
                   IF IsActive(slot, i) /\ slot[i].state = "pending"
                   THEN [slot[i] EXCEPT !.state = "valid"] ELSE slot[i]]
<1>1. slot' = r /\ stage = "starting" /\ stage' = "idle" /\ UNCHANGED <<part, running, file, pos>>
  BY DEF AppStarts
<1>2. s \in OtaData /\ r \in OtaData
  BY DEF FlashIInv, FlashTypeOK, OtaData, Slots, Entries, SlotStates, IsActive, Valid
<1>3. \A i \in Slots : (Valid(r, i) <=> Valid(s, i)) /\ (Valid(s, i) => r[i].seq = s[i].seq)
  BY <1>2, ErasedAssumption DEF Valid, OtaData, Entries, SlotStates, IsActive
<1>4. Selected(r) = Selected(s)
  BY <1>2, <1>3, SameSeqs
<1>5. FlashTypeOK'
  BY <1>1, <1>2 DEF FlashIInv, FlashTypeOK, OtaData, Stages
<1>6. SeqsDiffer'
  <2>1. ~(Valid(r, 0) /\ Valid(r, 1) /\ r[0].seq = r[1].seq)
    BY <1>3 DEF FlashIInv, SeqsDiffer, Slots
  <2> QED
    BY <1>1, <2>1, Zenon DEF SeqsDiffer, Valid
<1>7. RunsSelected'
  <2>1. running' = Selected(slot')
    BY <1>1, <1>4 DEF FlashIInv, RunsSelected
  <2> QED
    BY <2>1, Zenon DEF RunsSelected, Selected, ActiveSeq, IsActive, Valid
<1>8. Written' /\ SwitchTakes'
  BY <1>1 DEF Written, SwitchTakes
<1>9. ASSUME Rollback, NEW i \in Slots, Valid(r, i) PROVE r[i].state \notin {"new", "pending"}
  <2>1. Valid(s, i)
    BY <1>3, <1>9
  <2>2. s[i].state # "new" /\ (s[i].state = "pending" => IsActive(s, i))
    BY <1>1, <1>9, <2>1 DEF FlashIInv, OneTrial
  <2> QED
    BY <1>2, <2>1, <2>2 DEF OtaData, Entries, Valid
<1>10. OneTrial' /\ FallbackBoots'
  <2>1. \A i \in Slots : Rollback /\ Valid(slot', i) => slot'[i].state \notin {"new", "pending"}
    BY <1>1, <1>9
  <2>2. stage' # "starting"
    BY <1>1
  <2> QED
    BY <2>1, <2>2, Zenon DEF OneTrial, FallbackBoots, IsActive, Valid
<1>11. SelectedBoots'
  <2>1. part'[Selected(slot')] \in Fit
    BY <1>1, <1>4 DEF FlashIInv, SelectedBoots
  <2> QED
    BY <2>1, Zenon DEF SelectedBoots, Selected, ActiveSeq, IsActive, Valid
<1> QED
  BY <1>5, <1>6, <1>7, <1>8, <1>10, <1>11 DEF FlashIInv

(* The switch. *)
LEMMA SwitchErasesStep == ASSUME FlashIInv, SwitchErases PROVE FlashIInv'
<1> DEFINE t == TargetSlot(slot)
<1> DEFINE r == [slot EXCEPT ![t] = Erased]
<1>1. slot' = r /\ stage = "erase" /\ stage' = "write" /\ UNCHANGED <<part, running, file, pos>>
  BY DEF SwitchErases
<1>2. slot \in OtaData
  BY DEF FlashIInv, FlashTypeOK, OtaData
<1>3. t \in Slots /\ ~IsActive(slot, t)
  BY <1>2, TargetNotActive DEF FlashIInv, SeqsDiffer
<1>4. r \in OtaData /\ ~Valid(r, t) /\ \A j \in Slots : j # t => r[j] = slot[j]
  BY <1>2, <1>3 DEF OtaData, Valid
<1>5. Selected(r) = Selected(slot)
  <2>1. PICK j \in Slots : j # t
    BY DEF Slots
  <2> HIDE DEF t, r
  <2> QED
    BY <1>2, <1>3, <1>4, <2>1, OthersDecide
<1>6. FlashTypeOK'
  BY <1>1, <1>4 DEF FlashIInv, FlashTypeOK, OtaData, Stages, Installing
<1>7. SeqsDiffer'
  <2>1. ~(Valid(r, 0) /\ Valid(r, 1))
    BY <1>3, <1>4 DEF Slots
  <2> QED
    BY <1>1, <2>1, Zenon DEF SeqsDiffer, Valid
<1>8. RunsSelected'
  <2>1. running' = Selected(slot')
    BY <1>1, <1>5 DEF FlashIInv, RunsSelected
  <2> QED
    BY <2>1, Zenon DEF RunsSelected, Selected, ActiveSeq, IsActive, Valid
<1>9. Written' /\ SwitchTakes'
  BY <1>1 DEF FlashIInv, Written, SwitchTakes, Dest
<1>10. OneTrial' /\ FallbackBoots'
  <2>1. \A i \in Slots : Rollback /\ Valid(slot', i) => slot'[i].state \notin {"new", "pending"}
    <3>1. \A i \in Slots : Valid(r, i) => r[i] = slot[i] /\ Valid(slot, i)
      BY <1>4 DEF Valid
    <3>2. \A i \in Slots : Rollback /\ Valid(slot, i) => slot[i].state \notin {"new", "pending"}
      BY <1>1, TrialOver
    <3> HIDE DEF r
    <3> QED
      BY <1>1, <3>1, <3>2
  <2>2. stage' # "starting"
    BY <1>1
  <2> QED
    BY <2>1, <2>2, Zenon DEF OneTrial, FallbackBoots, IsActive, Valid
<1>11. SelectedBoots'
  <2>1. part'[Selected(slot')] \in Fit
    BY <1>1, <1>5 DEF FlashIInv, SelectedBoots
  <2> QED
    BY <2>1, Zenon DEF SelectedBoots, Selected, ActiveSeq, IsActive, Valid
<1> QED
  BY <1>6, <1>7, <1>8, <1>9, <1>10, <1>11 DEF FlashIInv

LEMMA SwitchWritesStep == ASSUME FlashIInv, SwitchWrites PROVE FlashIInv'
<1>0. PICK t, r : t = TargetSlot(slot) /\ r = [slot EXCEPT ![t] = [seq |-> NewSeq(slot, Dest), state |-> "new"]]
  OBVIOUS
<1>1. slot' = r /\ stage = "write" /\ stage' = "done" /\ UNCHANGED <<part, running, file, pos>>
  BY <1>0 DEF SwitchWrites
<1>2. slot \in OtaData /\ Dest \in Partitions /\ Dest # running
  BY DEF FlashIInv, FlashTypeOK, OtaData, Dest, Partitions
<1>3. t \in Slots /\ ~IsActive(slot, t)
  BY <1>0, <1>2, TargetNotActive DEF FlashIInv, SeqsDiffer
<1>4. /\ r \in OtaData /\ Valid(r, t) /\ IsActive(r, t) /\ Selected(r) = Dest
      /\ \A j \in Slots : j # t => r[j] = slot[j] /\ ~IsActive(r, j)
      /\ Valid(r, 0) /\ Valid(r, 1) => r[0].seq # r[1].seq
  <2>1. /\ r[t] = [seq |-> NewSeq(slot, Dest), state |-> "new"]
        /\ \A j \in Slots : j # t => r[j] = slot[j]
    BY <1>0, <1>2, <1>3 DEF OtaData
  <2>2. [seq |-> NewSeq(slot, Dest), state |-> "new"] \in Entries
    BY <1>2, NewSeqSelects DEF Entries, SlotStates
  <2>3. r \in OtaData
    BY <1>0, <1>2, <1>3, <2>2 DEF OtaData
  <2> QED
    BY <1>2, <1>3, <2>1, <2>3, WrittenSelects
<1>5. running = Selected(slot) /\ part[Selected(slot)] \in Fit /\ part[Dest] = file /\ file \in Fit
  BY <1>1 DEF FlashIInv, RunsSelected, SelectedBoots, Written
<1>6. FlashTypeOK'
  BY <1>1, <1>4 DEF FlashIInv, FlashTypeOK, OtaData, Stages
<1>7. SeqsDiffer'
  BY <1>1, <1>4, Zenon DEF SeqsDiffer, Valid
<1>8. RunsSelected' /\ Written'
  BY <1>1, <1>5 DEF RunsSelected, Written, Dest
<1>9. SwitchTakes'
  <2>1. Selected(slot') = Dest' /\ part'[Dest'] = file'
    BY <1>1, <1>4, <1>5 DEF Dest
  <2> QED
    BY <2>1, Zenon DEF SwitchTakes, Selected, ActiveSeq, IsActive, Valid
<1>10. SelectedBoots'
  <2>1. part'[Selected(slot')] \in Fit
    BY <1>1, <1>4, <1>5
  <2> QED
    BY <2>1, Zenon DEF SelectedBoots, Selected, ActiveSeq, IsActive, Valid
<1>11. OneTrial'
  <2>1. ASSUME Rollback, NEW i \in Slots, Valid(r, i), r[i].state \in {"new", "pending"}
        PROVE  IsActive(r, i)
    <3>1. CASE i = t
      BY <1>4, <3>1
    <3>2. CASE i # t
      <4>1. r[i] = slot[i]
        BY <1>4, <3>2
      <4>2. Valid(slot, i) /\ slot[i].state \in {"new", "pending"}
        BY <2>1, <4>1 DEF Valid
      <4> QED
        BY <1>1, <2>1, <4>2, TrialOver
    <3> QED
      BY <3>1, <3>2
  <2>2. stage' = "done"
    BY <1>1
  <2> QED
    BY <1>1, <2>1, <2>2, Zenon DEF OneTrial, IsActive, Valid
<1>12. FallbackBoots'
  <2>1. ASSUME Rollback, NEW i \in Slots, IsActive(slot', i)
        PROVE  /\ Selected([slot' EXCEPT ![i] = Erased]) # Selected(slot')
               /\ part'[Selected([slot' EXCEPT ![i] = Erased])] \in Fit
    <3> DEFINE q == [r EXCEPT ![t] = Erased]
    <3>1. i = t
      BY <1>1, <1>4, <2>1
    <3>2. PICK j \in Slots : j # t
      BY DEF Slots
    <3>3. q \in OtaData /\ q[j] = slot[j] /\ ~Valid(q, t)
      BY <1>3, <1>4, <3>2 DEF OtaData, Valid
    <3>4. Selected(q) = Selected(slot)
      <4> HIDE DEF q
      <4> QED
        BY <1>2, <1>3, <3>2, <3>3, OthersDecide
    <3> QED
      BY <1>1, <1>2, <1>4, <1>5, <3>1, <3>4
  <2> QED
    BY <2>1, Zenon DEF FallbackBoots, Without, Selected, ActiveSeq, IsActive, Valid
<1> QED
  BY <1>6, <1>7, <1>8, <1>9, <1>10, <1>11, <1>12 DEF FlashIInv

(* Every step preserves the inductive invariant. *)
LEMMA FlashStepIInv == FlashIInv /\ [FlashNext]_flashVars => FlashIInv'
<1> SUFFICES ASSUME FlashIInv, [FlashNext]_flashVars PROVE FlashIInv'
  OBVIOUS
<1> USE DEF Dest
<1>0. FlashTypeOK /\ Written
  BY DEF FlashIInv
<1>1. CASE Bootloader
  BY <1>1, BootloaderStep
<1>2. CASE AppStarts
  BY <1>2, AppStartsStep
<1>3. CASE FlashReset
  <2>1. FlashTypeOK' /\ Written' /\ stage' = "off" /\ UNCHANGED <<part, slot, running>>
    BY <1>0, <1>3 DEF FlashReset, FlashTypeOK, Written, Stages
  <2> QED
    BY <2>1, StageMoves
<1>4. CASE \E img \in Images : PickFile(img)
  <2>1. /\ FlashTypeOK' /\ Written' /\ UNCHANGED <<part, slot, running>>
        /\ {stage, stage'} \cap {"off", "starting", "done"} = {}
    BY <1>0, <1>4 DEF PickFile, FlashTypeOK, Written, Stages
  <2> QED
    BY <2>1, StageMoves
<1>5. CASE Decline
  <2>1. /\ FlashTypeOK' /\ Written' /\ UNCHANGED <<part, slot, running>>
        /\ {stage, stage'} \cap {"off", "starting", "done"} = {}
    BY <1>0, <1>5 DEF Decline, FlashTypeOK, Written, Stages
  <2> QED
    BY <2>1, StageMoves
<1>6. CASE \E img \in Images : Confirm(img)
  <2>1. /\ FlashTypeOK' /\ Written' /\ UNCHANGED <<part, slot, running>>
        /\ {stage, stage'} \cap {"off", "starting", "done"} = {}
    BY <1>0, <1>6 DEF Confirm, Passes, FlashTypeOK, Written, Stages, Installing
  <2> QED
    BY <2>1, StageMoves
<1>7. CASE CopyBlock \/ StreamBlock
  <2>1. PICK now : part' = [part EXCEPT ![Dest] = now]
    BY <1>7 DEF CopyBlock, StreamBlock, WriteBlock
  <2>2. FlashTypeOK' /\ Written'
    BY <1>0, <1>7 DEF CopyBlock, StreamBlock, WriteBlock, FlashTypeOK, Written, Partitions
  <2>3. /\ UNCHANGED <<slot, running>>
        /\ stage \notin {"off", "starting", "done"} /\ stage' \notin {"off", "starting", "done"}
    BY <1>7 DEF CopyBlock, StreamBlock, WriteBlock
  <2> QED
    BY <2>1, <2>2, <2>3, DestWritten
<1>8. CASE CopyFails
  <2>1. PICK now \in {part[Dest], Broken} : part' = [part EXCEPT ![Dest] = now]
    BY <1>8 DEF CopyFails
  <2>2. FlashTypeOK' /\ Written'
    BY <1>0, <1>8, <2>1 DEF CopyFails, FlashTypeOK, Written, Partitions, Stages
  <2>3. /\ UNCHANGED <<slot, running>>
        /\ stage \notin {"off", "starting", "done"} /\ stage' \notin {"off", "starting", "done"}
    BY <1>8 DEF CopyFails
  <2> QED
    BY <2>1, <2>2, <2>3, DestWritten
<1>9. CASE CopyEnds
  <2>1. /\ FlashTypeOK' /\ Written' /\ UNCHANGED <<part, slot, running>>
        /\ {stage, stage'} \cap {"off", "starting", "done"} = {}
    BY <1>0, <1>9 DEF CopyEnds, FlashTypeOK, Written, Stages, Installing
  <2> QED
    BY <2>1, StageMoves
<1>10. CASE \E img \in Images : OtaBegin(img)
  <2>1. part' = [part EXCEPT ![Dest] = Broken]
    BY <1>10 DEF OtaBegin
  <2>2. FlashTypeOK' /\ Written'
    BY <1>0, <1>10 DEF OtaBegin, FlashTypeOK, Written, Partitions, Stages, Installing
  <2>3. /\ UNCHANGED <<slot, running>>
        /\ stage \notin {"off", "starting", "done"} /\ stage' \notin {"off", "starting", "done"}
    BY <1>10 DEF OtaBegin
  <2> QED
    BY <2>1, <2>2, <2>3, DestWritten
<1>11. CASE StreamAborts
  <2>1. /\ FlashTypeOK' /\ Written' /\ UNCHANGED <<part, slot, running>>
        /\ {stage, stage'} \cap {"off", "starting", "done"} = {}
    BY <1>0, <1>11 DEF StreamAborts, FlashTypeOK, Written, Stages
  <2> QED
    BY <2>1, StageMoves
<1>12. CASE StreamEnds
  <2>1. /\ FlashTypeOK' /\ Written' /\ UNCHANGED <<part, slot, running>>
        /\ {stage, stage'} \cap {"off", "starting", "done"} = {}
    BY <1>0, <1>12 DEF StreamEnds, Passes, FlashTypeOK, Written, Stages, Installing
  <2> QED
    BY <2>1, StageMoves
<1>13. CASE SwitchErases
  BY <1>13, SwitchErasesStep
<1>14. CASE SwitchWrites
  BY <1>14, SwitchWritesStep
<1>15. CASE SwitchFails
  <2>1. /\ FlashTypeOK' /\ Written' /\ UNCHANGED <<part, slot, running>>
        /\ {stage, stage'} \cap {"off", "starting", "done"} = {}
    BY <1>0, <1>15 DEF SwitchFails, FlashTypeOK, Written, Stages
  <2> QED
    BY <2>1, StageMoves
<1>16. CASE UNCHANGED flashVars
  <2>1. FlashTypeOK' /\ Written' /\ UNCHANGED <<part, slot, running, stage, file>>
    BY <1>0, <1>16 DEF flashVars, FlashTypeOK, Written
  <2>2. SeqsDiffer' /\ OneTrial'
    BY <2>1 DEF FlashIInv, SeqsDiffer, OneTrial, IsActive, Valid
  <2>3. RunsSelected' /\ SelectedBoots' /\ SwitchTakes'
    BY <2>1 DEF FlashIInv, RunsSelected, SelectedBoots, SwitchTakes, Selected, ActiveSeq,
        IsActive, Valid
  <2>4. FallbackBoots'
    BY <2>1 DEF FlashIInv, FallbackBoots, Without, Selected, ActiveSeq, IsActive, Valid
  <2> QED
    BY <2>1, <2>2, <2>3, <2>4 DEF FlashIInv
<1> QED
  BY <1>1, <1>2, <1>3, <1>4, <1>5, <1>6, <1>7, <1>8, <1>9, <1>10, <1>11, <1>12, <1>13,
     <1>14, <1>15, <1>16 DEF FlashNext, Update

-----------------------------------------------------------------------------
(* The theorems. *)

LEMMA FlashInvariant == FlashSpec => []FlashIInv
BY FlashInitIInv, FlashStepIInv, PTL DEF FlashSpec

(* Every variable of the update stays in its type. *)
THEOREM FlashTypeCorrect == FlashSpec => []FlashTypeOK
<1>1. FlashIInv => FlashTypeOK
  BY DEF FlashIInv
<1> QED
  BY <1>1, FlashInvariant, PTL

(* Whenever power is lost, otadata selects a whole image for this device. *)
THEOREM AlwaysBoots == FlashSpec => []SelectedBoots
<1>1. FlashIInv => SelectedBoots
  BY DEF FlashIInv
<1> QED
  BY <1>1, FlashInvariant, PTL

(* An update that reports success is what starts next. *)
THEOREM SwitchSafe == FlashSpec => []SwitchTakes
<1>1. FlashIInv => SwitchTakes
  BY DEF FlashIInv
<1> QED
  BY <1>1, FlashInvariant, PTL

(* A new image that does not come up can be given up for the one before it. *)
THEOREM FallbackSafe == FlashSpec => []FallbackBoots
<1>1. FlashIInv => FallbackBoots
  BY DEF FlashIInv
<1> QED
  BY <1>1, FlashInvariant, PTL

=============================================================================
