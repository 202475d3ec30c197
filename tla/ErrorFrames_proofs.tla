------------------------- MODULE ErrorFrames_proofs -------------------------
(***************************************************************************)
(* Proofs about ErrorFrames, for every set of addresses, cleanups and      *)
(* statuses and every bound on depth, sequence numbers and cleanups.       *)
(*                                                                         *)
(* The inductive invariant is IInv.  None of its parts is inductive alone: *)
(* what jb_frame_abandon() releases is right only because the list agrees  *)
(* with the flags and the marks are ordered, and the list agrees with the  *)
(* flags after the outermost frame is left only because every listed block *)
(* was numbered inside it.                                                 *)
(***************************************************************************)
EXTENDS ErrorFrames, TLAPS, SequenceTheorems

IInv == TypeOK /\ ListMatchesFlags /\ TrackedInsideCalls /\ MarksOrdered

(* Popping the innermost frame, or the cleanups above a mark, keeps a prefix. *)
LEMMA PrefixFacts ==
  ASSUME NEW S, NEW s \in Seq(S), NEW n \in Nat, n <= Len(s)
  PROVE  /\ SubSeq(s, 1, n) \in Seq(S)
         /\ Len(SubSeq(s, 1, n)) = n
         /\ \A i \in 1..n : SubSeq(s, 1, n)[i] = s[i]
  BY SubSeqProperties

LEMMA AppendFacts ==
  ASSUME NEW S, NEW s \in Seq(S), NEW e \in S
  PROVE  /\ Append(s, e) \in Seq(S)
         /\ Len(Append(s, e)) = Len(s) + 1
         /\ Append(s, e)[Len(s) + 1] = e
         /\ \A i \in 1..Len(s) : Append(s, e)[i] = s[i]
  OBVIOUS

LEMMA ReverseType ==
  ASSUME NEW S, NEW s \in Seq(S)
  PROVE  Reverse(s) \in Seq(S)
  BY DEF Reverse

-----------------------------------------------------------------------------
LEMMA InitInv == Init => IInv
  BY DEF Init, IInv, TypeOK, ListMatchesFlags, TrackedInsideCalls, MarksOrdered,
         Statuses, InFrame, Depth

LEMMA NoFrames ==
  ASSUME TypeOK
  PROVE  /\ Depth \in Nat
         /\ InFrame <=> Depth # 0
         /\ \A i \in 1..Depth : frames[i] \in Frame
  BY DEF TypeOK, InFrame, Depth

(* Abandoning the innermost frame, whatever the list of a refused           *)
(* reallocation: Relinked() gives back the list itself.                     *)
LEMMA RelinkedIsList ==
  ASSUME TypeOK, ListMatchesFlags, NEW b \in live
  PROVE  Relinked(b) = list
  BY DEF Relinked, Link, Unlink, TypeOK, ListMatchesFlags

(* Leaving a frame with a part L of the list and the cleanups below the     *)
(* frame's mark keeps the invariant, whether the frame succeeds or fails.   *)
Popped(L) ==
  /\ InFrame
  /\ Unwind
  /\ HandOver(L, tracked \ (list \ L))
  /\ cleanups' = SubSeq(cleanups, 1, Innermost.cleanupMark)
  /\ sequence' = sequence

LEMMA PoppedInv ==
  ASSUME IInv, NEW L \in SUBSET list, Popped(L),
         live' \subseteq live, L \subseteq live', number' \in [live' -> Nat],
         \A b \in L : number'[b] = number[b],
         outcome' \in [by : {"die", "return"}, status : Statuses, ran : Seq(Cleanups)]
  PROVE  IInv'
<1> USE DEF IInv, InFrame
<1>1. Depth \in Nat /\ Depth # 0 /\ Innermost \in Frame /\ Innermost = frames[Depth]
  BY DEF Popped, TypeOK, Depth, Innermost
<1>2. /\ frames' \in Seq(Frame) /\ Depth' = Depth - 1
      /\ \A i \in 1..(Depth - 1) : frames'[i] = frames[i]
  <2>1. Depth - 1 \in Nat /\ Depth - 1 <= Len(frames)
    BY <1>1 DEF Depth
  <2>2. frames \in Seq(Frame) /\ frames' = SubSeq(frames, 1, Depth - 1)
    BY DEF Popped, Unwind, TypeOK
  <2>3. /\ Len(frames') = Depth - 1
        /\ frames' \in Seq(Frame) /\ \A i \in 1..(Depth - 1) : frames'[i] = frames[i]
    <3> DEFINE n == Depth - 1
    <3>1. n \in Nat /\ n <= Len(frames) /\ frames' = SubSeq(frames, 1, n)
      BY Zenon, <2>1, <2>2
    <3> HIDE DEF n
    <3>2. /\ Len(SubSeq(frames, 1, n)) = n /\ SubSeq(frames, 1, n) \in Seq(Frame)
          /\ \A i \in 1..n : SubSeq(frames, 1, n)[i] = frames[i]
      BY <2>2, <3>1, PrefixFacts
    <3>3. QED
      BY Zenon, <3>1, <3>2 DEF n
  <2>4. QED
    BY <2>3 DEF Depth
<1>3. Innermost.cleanupMark \in Nat /\ Innermost.cleanupMark <= Len(cleanups)
  BY <1>1 DEF MarksOrdered, Frame
<1>4. cleanups' \in Seq(Cleanups) /\ Len(cleanups') = Innermost.cleanupMark
  BY <1>3, PrefixFacts DEF Popped, TypeOK
<1>5. TypeOK'
  <2>1. status' \in Statuses
    BY <1>1 DEF Popped, Unwind, Frame
  <2>2. tracked' \subseteq live' /\ list' \subseteq live'
    BY DEF Popped, HandOver, TypeOK, ListMatchesFlags
  <2>3. live' \subseteq Blocks /\ sequence' \in Nat
    BY DEF Popped, TypeOK
  <2>4. QED
    BY <1>2, <1>4, <2>1, <2>2, <2>3 DEF TypeOK, Statuses, Frame
<1>6. ListMatchesFlags'
  BY DEF Popped, HandOver, ListMatchesFlags
<1>7. TrackedInsideCalls'
  <2>1. CASE Depth = 1
    BY <2>1 DEF Popped, HandOver, TrackedInsideCalls
  <2>2. CASE Depth # 1
    <3>1. Depth' # 0 /\ frames' # <<>> /\ frames'[1] = frames[1]
      BY <1>1, <1>2, <2>2 DEF Depth
    <3>2. list' = L /\ \A b \in list' : number'[b] = number[b]
      BY <2>2 DEF Popped, HandOver
    <3>3. QED
      BY <3>1, <3>2 DEF Popped, TrackedInsideCalls
  <2>3. QED
    BY <2>1, <2>2
<1>8. MarksOrdered'
  <2>1. ASSUME NEW i \in 1..Depth'
        PROVE  /\ i \in 1..(Depth - 1) /\ i \in 1..Depth
               /\ frames'[i] = frames[i] /\ frames[i] \in Frame
    <3>1. i \in 1..(Depth - 1) /\ i \in 1..Depth
      BY <1>1, <1>2
    <3>2. QED
      BY <1>2, <3>1 DEF TypeOK, Depth
  <2>2. ASSUME NEW i \in 1..Depth'
        PROVE  frames'[i].mark <= sequence' /\ frames'[i].cleanupMark <= Len(cleanups')
    BY <1>1, <1>4, <2>1 DEF Popped, MarksOrdered
  <2>3. ASSUME NEW i \in 1..Depth', NEW j \in 1..Depth', i <= j
        PROVE  /\ frames'[i].mark <= frames'[j].mark
               /\ frames'[i].cleanupMark <= frames'[j].cleanupMark
    BY <2>1, <2>3 DEF MarksOrdered
  <2>4. CASE Depth = 1
    BY <1>1, <1>2, <1>4, <2>2, <2>3, <2>4 DEF MarksOrdered, Depth
  <2>5. CASE Depth # 1
    <3>1. frames' # <<>> /\ frames'[1] = frames[1]
      BY <1>1, <1>2, <2>5 DEF Depth
    <3>2. frames[1].cleanupMark = 0
      BY DEF Popped, MarksOrdered
    <3>3. QED
      BY <2>2, <2>3, <3>1, <3>2 DEF MarksOrdered
  <2>6. QED
    BY <2>4, <2>5
<1>9. QED
  BY <1>5, <1>6, <1>7, <1>8

LEMMA AbandonInv ==
  ASSUME IInv, NEW by \in {"die", "return"}, NEW s \in Statuses,
         FrameAbandon(list, by, s)
  PROVE  IInv'
<1> DEFINE L == list \ Doomed(list)
<1>1. Doomed(list) \subseteq list /\ L \subseteq list /\ list \ L = Doomed(list)
  BY DEF Doomed
<1>2. Popped(L)
  BY <1>1 DEF FrameAbandon, Popped
<1>3. RunOrder \in Seq(Cleanups)
  <2>1. Depth \in Nat /\ Depth \in 1..Depth /\ Innermost \in Frame
    BY NoFrames DEF FrameAbandon, Innermost, IInv
  <2>2. Innermost.cleanupMark \in Nat /\ Innermost.cleanupMark <= Len(cleanups)
    BY <2>1 DEF IInv, MarksOrdered, Innermost, Frame
  <2>3. SubSeq(cleanups, Innermost.cleanupMark + 1, Len(cleanups)) \in Seq(Cleanups)
    BY <2>2, SubSeqProperties DEF IInv, TypeOK
  <2>4. QED
    BY <2>3, ReverseType DEF RunOrder
<1>4. /\ live' \subseteq live /\ L \subseteq live' /\ number' \in [live' -> Nat]
      /\ \A b \in L : number'[b] = number[b]
  BY <1>1 DEF FrameAbandon, Restrict, IInv, TypeOK
<1>5. outcome' \in [by : {"die", "return"}, status : Statuses, ran : Seq(Cleanups)]
  BY <1>3 DEF FrameAbandon
<1>6. QED
  BY <1>1, <1>2, <1>4, <1>5, PoppedInv

(* die(), die_status(), a refused reallocation, and giving up. *)
LEMMA AbandonsInv ==
  ASSUME IInv,
         \/ Die
         \/ \E s \in Raised : DieStatus(s)
         \/ DieStatus(Internal)
         \/ GiveUp
         \/ \E b \in Blocks : ReallocateFails(b)
  PROVE  IInv'
<1>1. CASE Die
  BY <1>1, AbandonInv DEF Die, IInv, TypeOK
<1>2. ASSUME NEW s \in Raised, DieStatus(s)
      PROVE  IInv'
  BY <1>2, AbandonInv DEF DieStatus, Statuses
<1>3. CASE DieStatus(Internal)
  BY <1>2, <1>3, FrameAssumption
<1>4. CASE GiveUp
  <2>1. PICK s \in {Invalid, outcome.status} : FrameAbandon(list, "return", s)
    BY <1>4 DEF GiveUp
  <2>2. s \in Statuses
    BY DEF IInv, TypeOK, Statuses
  <2>3. QED
    BY <2>1, <2>2, AbandonInv
<1>5. ASSUME NEW b \in Blocks, ReallocateFails(b)
      PROVE  IInv'
  <2>1. Relinked(b) = list
    BY <1>5, RelinkedIsList DEF ReallocateFails, IInv
  <2>2. FrameAbandon(list, "die", OutOfMemory)
    BY <1>5, <2>1 DEF ReallocateFails
  <2>3. QED
    BY <2>2, AbandonInv, FrameAssumption DEF Statuses
<1>6. QED
  BY <1>1, <1>2, <1>3, <1>4, <1>5

LEMMA EnterInv ==
  ASSUME IInv, NEW s \in Defaults, FrameEnter(s)
  PROVE  IInv'
<1> DEFINE f == [mark |-> sequence, previousStatus |-> status,
                 cleanupMark |-> Len(cleanups)]
<1>1. f \in Frame /\ Depth \in Nat /\ Len(cleanups) \in Nat /\ sequence \in Nat
  BY DEF IInv, TypeOK, Frame, Depth
<1>2. /\ frames' \in Seq(Frame) /\ Depth' = Depth + 1
      /\ frames'[Depth + 1] = f
      /\ \A i \in 1..Depth : frames'[i] = frames[i] /\ frames[i] \in Frame
  BY <1>1, AppendFacts DEF FrameEnter, IInv, TypeOK, Depth
<1> HIDE DEF f
<1>3. f.mark = sequence /\ f.cleanupMark = Len(cleanups)
  BY DEF f
<1>4. TypeOK' /\ ListMatchesFlags'
  BY <1>2 DEF FrameEnter, memory, IInv, TypeOK, ListMatchesFlags, Statuses
<1>5. TrackedInsideCalls'
  <2>1. ASSUME NEW b \in list
        PROVE  /\ InFrame' /\ frames'[1].mark < number'[b] /\ number'[b] <= sequence'
    <3>1. InFrame /\ frames[1].mark < number[b] /\ number[b] <= sequence
      BY DEF IInv, TrackedInsideCalls
    <3>2. frames'[1] = frames[1] /\ frames' # <<>>
      BY <1>1, <1>2, <3>1 DEF InFrame, Depth, IInv, TypeOK
    <3>3. QED
      BY <3>1, <3>2 DEF InFrame, FrameEnter, memory
  <2>2. QED
    BY <2>1 DEF TrackedInsideCalls, FrameEnter, memory
<1>6. MarksOrdered'
  <2>1. ASSUME NEW i \in 1..Depth'
        PROVE  /\ i \in 1..Depth \/ frames'[i] = f
               /\ frames'[i] \in Frame
    BY <1>1, <1>2
  <2>2. ASSUME NEW i \in 1..Depth'
        PROVE  frames'[i].mark <= sequence' /\ frames'[i].cleanupMark <= Len(cleanups')
    <3>1. sequence' = sequence /\ cleanups' = cleanups
      BY DEF FrameEnter, memory
    <3>2. CASE i \in 1..Depth
      BY <1>2, <3>1, <3>2 DEF IInv, MarksOrdered
    <3>3. CASE i \notin 1..Depth
      BY <1>1, <1>3, <2>1, <3>1, <3>3
    <3>4. QED
      BY <3>2, <3>3
  <2>3. ASSUME NEW i \in 1..Depth', NEW j \in 1..Depth', i <= j
        PROVE  /\ frames'[i].mark <= frames'[j].mark
               /\ frames'[i].cleanupMark <= frames'[j].cleanupMark
    <3>1. CASE j = Depth + 1
      BY <1>1, <1>2, <1>3, <2>2, <3>1 DEF FrameEnter, memory
    <3>2. CASE j # Depth + 1
      BY <1>1, <1>2, <2>3, <3>2 DEF IInv, MarksOrdered
    <3>3. QED
      BY <3>1, <3>2
  <2>4. InFrame' /\ frames'[1].cleanupMark = 0
    <3>1. InFrame'
      BY <1>1, <1>2 DEF InFrame, Depth
    <3>2. CASE Depth = 0
      <4>1. cleanups = <<>>
        BY <3>2, NoFrames DEF IInv, MarksOrdered
      <4>2. QED
        BY <1>2, <1>3, <3>1, <3>2, <4>1
    <3>3. CASE Depth # 0
      BY <1>1, <1>2, <3>1, <3>3, NoFrames DEF IInv, MarksOrdered
    <3>4. QED
      BY <3>1, <3>2, <3>3
  <2>5. QED
    BY <2>2, <2>3, <2>4 DEF MarksOrdered
<1>7. QED
  BY <1>4, <1>5, <1>6 DEF IInv

LEMMA LeaveInv ==
  ASSUME IInv, FrameLeave
  PROVE  IInv'
<1>1. CASE Armed /\ DieStatus(Internal)
  BY <1>1, AbandonsInv
<1>2. CASE /\ ~Armed
           /\ HandOver(list, tracked)
           /\ Unwind
           /\ UNCHANGED <<sequence, live, number, cleanups, outcome>>
  <2>1. Depth \in 1..Depth /\ Innermost \in Frame
    BY NoFrames DEF FrameLeave, Innermost, IInv
  <2>2. Len(cleanups) = Innermost.cleanupMark
    BY <1>2, <2>1 DEF Armed, Innermost, Frame, IInv, TypeOK, MarksOrdered
  <2>3. cleanups = SubSeq(cleanups, 1, Innermost.cleanupMark)
    BY <2>2 DEF IInv, TypeOK
  <2>4. Popped(list)
    BY <1>2, <2>3 DEF FrameLeave, Popped
  <2>5. QED
    BY <1>2, <2>4, PoppedInv DEF IInv, TypeOK
<1>3. QED
  BY <1>1, <1>2 DEF FrameLeave

-----------------------------------------------------------------------------
(* A step that touches neither frames nor cleanups keeps the marks ordered  *)
(* as long as the sequence does not go back.                                *)
LEMMA MarksKept ==
  ASSUME IInv, sequence' \in Nat, sequence <= sequence',
         frames' = frames, cleanups' = cleanups
  PROVE  MarksOrdered'
<1>1. \A i \in 1..Depth : frames[i] \in Frame
  BY NoFrames DEF IInv
<1>2. \A i \in 1..Depth : frames[i].mark <= sequence'
  BY <1>1 DEF IInv, MarksOrdered, TypeOK, Frame
<1>3. QED
  BY <1>2 DEF IInv, MarksOrdered, Depth, InFrame

LEMMA AllocateInv ==
  ASSUME IInv, NEW b \in Blocks, Allocate(b)
  PROVE  IInv'
<1> USE DEF Allocate, Link
<1>1. sequence \in Nat /\ sequence' = sequence + 1
  BY DEF IInv, TypeOK
<1>2. number' \in [live' -> Nat]
  BY <1>1 DEF IInv, TypeOK
<1>3. TypeOK'
  BY <1>1, <1>2 DEF IInv, TypeOK, Statuses
<1>4. ListMatchesFlags'
  BY DEF IInv, ListMatchesFlags
<1>5. TrackedInsideCalls'
  <2>1. frames[1] \in Frame /\ frames[1].mark <= sequence
    <3>1. 1 \in 1..Depth
      BY NoFrames DEF IInv
    <3>2. QED
      BY <3>1, NoFrames DEF IInv, MarksOrdered
  <2>2. ASSUME NEW d \in list'
        PROVE  frames[1].mark < number'[d] /\ number'[d] <= sequence + 1
    <3>1. d \in live'
      BY <1>3 DEF TypeOK
    <3>2. CASE d = b
      BY <1>1, <2>1, <3>1, <3>2 DEF Frame
    <3>3. CASE d # b
      <4>1. d \in list /\ d \in live /\ number'[d] = number[d] /\ number[d] \in Nat
        BY <3>1, <3>3 DEF IInv, TypeOK
      <4>2. frames[1].mark < number[d] /\ number[d] <= sequence
        BY <4>1 DEF IInv, TrackedInsideCalls
      <4>3. QED
        BY <1>1, <2>1, <4>1, <4>2
    <3>4. QED
      BY <3>2, <3>3
  <2>3. QED
    BY <1>1, <2>2 DEF TrackedInsideCalls, InFrame
<1>6. MarksOrdered'
  BY <1>1, MarksKept
<1>7. QED
  BY <1>3, <1>4, <1>5, <1>6 DEF IInv

LEMMA ReallocateInv ==
  ASSUME IInv, NEW b \in Blocks, NEW c \in Blocks, Reallocate(b, c)
  PROVE  IInv'
<1> USE DEF Reallocate, Moved, MovedNumber, Link, Unlink
<1>1. b \in live /\ number[b] \in Nat
  BY DEF IInv, TypeOK
<1>2. number' \in [live' -> Nat]
  BY <1>1 DEF IInv, TypeOK
<1>3. tracked' = list'
  BY DEF IInv, ListMatchesFlags
<1>4. TypeOK'
  BY <1>2, <1>3 DEF IInv, TypeOK, Statuses
<1>5. ASSUME NEW d \in list'
      PROVE  \E e \in list : number'[d] = number[e]
  <2>1. d \in live'
    BY <1>4 DEF TypeOK
  <2>2. CASE d = c
    <3>1. b \in list
      BY <2>2 DEF IInv, ListMatchesFlags, TypeOK
    <3>2. QED
      BY <2>1, <2>2, <3>1
  <2>3. CASE d # c
    BY <2>1, <2>3
  <2>4. QED
    BY <2>2, <2>3
<1>6. TrackedInsideCalls'
  BY <1>5 DEF IInv, TrackedInsideCalls, InFrame
<1>7. MarksOrdered'
  BY MarksKept DEF IInv, TypeOK
<1>8. QED
  BY <1>3, <1>4, <1>6, <1>7 DEF IInv, ListMatchesFlags

LEMMA ReleaseInv ==
  ASSUME IInv, NEW b \in Blocks, Release(b) \/ Untrack(b)
  PROVE  IInv'
<1> USE DEF Release, Untrack, Unlink
<1>1. number' \in [live' -> Nat]
  BY DEF Restrict, IInv, TypeOK
<1>2. tracked' = list'
  BY DEF IInv, ListMatchesFlags
<1>3. list' \subseteq list /\ list' \subseteq live' /\ live' \subseteq live
  BY DEF IInv, TypeOK, ListMatchesFlags
<1>4. TypeOK'
  BY <1>1, <1>2, <1>3 DEF IInv, TypeOK, Statuses
<1>5. \A d \in list' : number'[d] = number[d]
  BY <1>3 DEF Restrict
<1>6. TrackedInsideCalls'
  BY <1>3, <1>5 DEF IInv, TrackedInsideCalls, InFrame
<1>7. MarksOrdered'
  BY MarksKept DEF IInv, TypeOK
<1>8. QED
  BY <1>2, <1>4, <1>6, <1>7 DEF IInv, ListMatchesFlags

-----------------------------------------------------------------------------
(* A step that only arms or disarms cleanups above the innermost mark. *)
LEMMA CleanupsKept ==
  ASSUME IInv, InFrame, cleanups' \in Seq(Cleanups),
         Innermost.cleanupMark <= Len(cleanups'),
         UNCHANGED <<frames, status, memory, outcome>>
  PROVE  IInv'
<1>1. Depth \in Nat /\ Depth \in 1..Depth /\ 1 \in 1..Depth /\ Len(cleanups') \in Nat
  BY NoFrames DEF IInv
<1>2. \A i \in 1..Depth : frames[i] \in Frame
  BY NoFrames DEF IInv
<1>3. TypeOK' /\ ListMatchesFlags' /\ TrackedInsideCalls'
  BY DEF memory, IInv, TypeOK, Statuses, ListMatchesFlags, TrackedInsideCalls, InFrame
<1>4. ASSUME NEW i \in 1..Depth
      PROVE  frames[i].cleanupMark <= Len(cleanups')
  <2>1. frames[i].cleanupMark <= frames[Depth].cleanupMark
    BY <1>1 DEF IInv, MarksOrdered
  <2>2. frames[i].cleanupMark \in Nat /\ frames[Depth].cleanupMark \in Nat
    BY <1>1, <1>2 DEF Frame
  <2>3. QED
    BY <1>1, <2>1, <2>2 DEF Innermost
<1>5. MarksOrdered'
  BY <1>4 DEF memory, IInv, MarksOrdered, Depth, InFrame
<1>6. QED
  BY <1>3, <1>5 DEF IInv

LEMMA CleanupInv ==
  ASSUME IInv, NEW c \in Cleanups, CleanupPush(c) \/ CleanupDisarm(c)
  PROVE  IInv'
<1>1. /\ InFrame /\ Innermost.cleanupMark \in Nat /\ Len(cleanups) \in Nat
      /\ Innermost.cleanupMark <= Len(cleanups)
  <2>1. InFrame
    BY DEF CleanupPush, CleanupDisarm
  <2>2. Depth \in 1..Depth /\ Innermost \in Frame
    BY <2>1, NoFrames DEF IInv, Innermost
  <2>3. QED
    BY <2>1, <2>2 DEF IInv, TypeOK, MarksOrdered, Innermost, Frame
<1>2. CASE DieStatus(Internal)
  BY <1>2, AbandonsInv
<1>3. CASE cleanups' = Append(cleanups, c) /\ UNCHANGED <<frames, status, memory, outcome>>
  <2>1. cleanups' \in Seq(Cleanups) /\ Len(cleanups') = Len(cleanups) + 1
    BY <1>3 DEF IInv, TypeOK
  <2>2. QED
    BY <1>1, <1>3, <2>1, CleanupsKept
<1>4. CASE /\ CanDisarm(c)
           /\ cleanups' = SubSeq(cleanups, 1, Len(cleanups) - 1)
           /\ UNCHANGED <<frames, status, memory, outcome>>
  <2>1. Len(cleanups) > Innermost.cleanupMark
    BY <1>4 DEF CanDisarm, Armed
  <2>2. cleanups \in Seq(Cleanups) /\ Len(cleanups) - 1 \in Nat
    BY <1>1, <2>1 DEF IInv, TypeOK
  <2>3. cleanups' \in Seq(Cleanups) /\ Len(cleanups') = Len(cleanups) - 1
    <3>1. cleanups' = SubSeq(cleanups, 1, Len(cleanups) - 1)
      BY <1>4
    <3>2. Len(cleanups) - 1 <= Len(cleanups)
      BY <1>1
    <3>3. QED
      BY <2>2, <3>1, <3>2, PrefixFacts
  <2>4. QED
    BY <1>1, <1>4, <2>1, <2>3, CleanupsKept
<1>5. QED
  BY <1>2, <1>3, <1>4 DEF CleanupPush, CleanupDisarm

-----------------------------------------------------------------------------
LEMMA NextInv == IInv /\ [Next]_vars => IInv'
<1> SUFFICES ASSUME IInv, [Next]_vars PROVE IInv'
  OBVIOUS
<1>1. CASE \E s \in Defaults : FrameEnter(s)
  BY <1>1, EnterInv
<1>2. CASE FrameLeave
  BY <1>2, LeaveInv
<1>3. CASE Die \/ (\E s \in Raised : DieStatus(s)) \/ GiveUp
  BY <1>3, AbandonsInv
<1>4. ASSUME NEW b \in Blocks,
             Allocate(b) \/ ReallocateFails(b) \/ Release(b) \/ Untrack(b)
      PROVE  IInv'
  BY <1>4, AllocateInv, AbandonsInv, ReleaseInv
<1>5. CASE \E b, c \in Blocks : Reallocate(b, c)
  BY <1>5, ReallocateInv
<1>6. CASE \E c \in Cleanups : CleanupPush(c) \/ CleanupDisarm(c)
  BY <1>6, CleanupInv
<1>7. CASE UNCHANGED vars
  BY <1>7 DEF vars, IInv, TypeOK, Statuses, ListMatchesFlags, TrackedInsideCalls,
              MarksOrdered, InFrame, Depth
<1>8. QED
  BY <1>1, <1>2, <1>3, <1>4, <1>5, <1>6, <1>7 DEF Next

(* Every reachable state of a thread satisfies the invariant, however deep  *)
(* its calls nest and however many blocks they allocate: what jb_release()  *)
(* and jb_frame_abandon() unlink is linked, what they free was allocated by *)
(* a call still under way, and the marks of nested calls never cross.       *)
THEOREM Invariant == Spec => []IInv
  BY InitInv, NextInv, PTL DEF Spec

(* Type correctness of the frame, allocation and cleanup state. *)
THEOREM TypeCorrect == Spec => []TypeOK
<1>1. IInv => TypeOK
  BY DEF IInv
<1>2. QED
  BY <1>1, Invariant, PTL

(* jb_release() and xrealloc() unlink a block exactly when it is linked. *)
THEOREM FlagsCorrect == Spec => []ListMatchesFlags
<1>1. IInv => ListMatchesFlags
  BY DEF IInv
<1>2. QED
  BY <1>1, Invariant, PTL

(* After the outermost call nothing is tracked, and what is tracked during  *)
(* it was allocated during it: a caller's block is never freed by a later   *)
(* failure.                                                                 *)
THEOREM CallersKeepTheirBlocks == Spec => []TrackedInsideCalls
<1>1. IInv => TrackedInsideCalls
  BY DEF IInv
<1>2. QED
  BY <1>1, Invariant, PTL

(* The allocation and cleanup marks of nested frames are ordered. *)
THEOREM MarksCorrect == Spec => []MarksOrdered
<1>1. IInv => MarksOrdered
  BY DEF IInv
<1>2. QED
  BY <1>1, Invariant, PTL

-----------------------------------------------------------------------------
(* ErrorFrames implements CallOwnership, for every set of addresses,         *)
(* cleanups and statuses and every bound: each step of a thread, seen        *)
(* through the calls its frames stand for, is a step that CallOwnership      *)
(* allows, or changes nothing it sees.                                       *)
(*                                                                           *)
(* IInv bounds a block's number by the outermost mark; that some call under  *)
(* way owns every listed block is Covered, and is what makes an address that *)
(* is not live a free one.                                                   *)

Covered == \A b \in list : \E i \in 1..Depth : b \in OwnedBy(i)

Inv == IInv /\ Covered

CallRecord == [owned : SUBSET Blocks, armed : Seq(Cleanups), status : Statuses]

CallOf(i) == [owned |-> OwnedBy(i), armed |-> ArmedBy(i), status |-> StatusOf(i)]

-----------------------------------------------------------------------------
(* Sequences. *)

LEMMA SamePart ==
  ASSUME NEW S, NEW s \in Seq(S), NEW t \in Seq(S), NEW a \in Nat, NEW b \in Nat,
         a >= 1, b <= Len(s), b <= Len(t), \A i \in 1..b : s[i] = t[i]
  PROVE  SubSeq(s, a, b) = SubSeq(t, a, b)
<1>1. /\ \A i \in a..b : s[i] \in S
      /\ \A i \in a..b : t[i] \in S
  BY ElementOfSeq
<1>2. /\ SubSeq(s, a, b) \in Seq(S) /\ SubSeq(t, a, b) \in Seq(S)
      /\ Len(SubSeq(s, a, b)) = Len(SubSeq(t, a, b))
      /\ Len(SubSeq(s, a, b)) = IF a <= b THEN b - a + 1 ELSE 0
  BY <1>1, SubSeqProperties
<1>3. \A i \in 1..(b - a + 1) : /\ SubSeq(s, a, b)[i] = s[a + i - 1]
                                /\ SubSeq(t, a, b)[i] = t[a + i - 1]
  BY <1>1, SubSeqProperties
<1>4. \A i \in 1..Len(SubSeq(s, a, b)) : SubSeq(s, a, b)[i] = SubSeq(t, a, b)[i]
  BY <1>2, <1>3
<1> QED
  BY <1>2, <1>4, SeqEqual

(* What is armed last is the last of the innermost call's cleanups. *)
LEMMA AppendedPart ==
  ASSUME NEW S, NEW s \in Seq(S), NEW c \in S, NEW a \in Nat, a >= 1, a <= Len(s) + 1
  PROVE  SubSeq(Append(s, c), a, Len(s) + 1) = Append(SubSeq(s, a, Len(s)), c)
<1> DEFINE u == Append(s, c)
           l == SubSeq(u, a, Len(s) + 1)
           r == SubSeq(s, a, Len(s))
<1>1. u \in Seq(S) /\ Len(u) = Len(s) + 1 /\ u[Len(s) + 1] = c
      /\ \A i \in 1..Len(s) : u[i] = s[i]
  BY AppendFacts
<1>2. Len(s) \in Nat
  OBVIOUS
<1> HIDE DEF u
<1>3. /\ \A i \in a..(Len(s) + 1) : u[i] \in S
      /\ \A i \in a..Len(s) : s[i] \in S
  BY <1>1, <1>2, ElementOfSeq
<1>4. /\ l \in Seq(S) /\ Len(l) = Len(s) + 1 - a + 1
      /\ \A i \in 1..(Len(s) + 1 - a + 1) : l[i] = u[a + i - 1]
  BY <1>2, <1>3, SubSeqProperties
<1>5. /\ r \in Seq(S) /\ Len(r) = Len(s) - a + 1
      /\ \A i \in 1..(Len(s) - a + 1) : r[i] = s[a + i - 1]
  BY <1>2, <1>3, SubSeqProperties
<1> HIDE DEF l, r
<1> DEFINE v == Append(r, c)
<1>6. /\ v \in Seq(S) /\ Len(v) = Len(r) + 1 /\ v[Len(r) + 1] = c
      /\ \A i \in 1..Len(r) : v[i] = r[i]
  BY <1>5, AppendFacts
<1> HIDE DEF v
<1>7. /\ Len(l) = Len(v) /\ Len(l) = Len(r) + 1
      /\ Len(r) = Len(s) - a + 1 /\ Len(r) \in Nat
  BY <1>2, <1>4, <1>5, <1>6
<1>8. ASSUME NEW i \in 1..Len(l)
      PROVE  l[i] = v[i]
  <2>1. l[i] = u[a + i - 1]
    BY <1>4
  <2>2. CASE i = Len(r) + 1
    BY <1>1, <1>2, <1>5, <1>6, <2>1, <2>2
  <2>3. CASE i # Len(r) + 1
    <3>1. i \in 1..Len(r) /\ a + i - 1 \in 1..Len(s)
      BY <1>2, <1>7, <2>3
    <3>2. r[i] = s[a + i - 1] /\ u[a + i - 1] = s[a + i - 1] /\ v[i] = r[i]
      BY <1>1, <1>5, <1>6, <3>1
    <3> QED
      BY <2>1, <3>2
  <2> QED
    BY <2>2, <2>3
<1>9. l = v
  BY <1>4, <1>6, <1>7, <1>8, SeqEqual
<1> QED
  BY <1>9 DEF l, r, u, v

(* And what is disarmed was. *)
LEMMA ShortenedPart ==
  ASSUME NEW S, NEW s \in Seq(S), NEW t \in Seq(S), Len(t) = Len(s) - 1,
         \A i \in 1..(Len(s) - 1) : t[i] = s[i],
         NEW a \in Nat, a >= 1, a <= Len(s)
  PROVE  /\ SubSeq(s, a, Len(s)) # <<>>
         /\ SubSeq(t, a, Len(s) - 1)
              = SubSeq(SubSeq(s, a, Len(s)), 1, Len(SubSeq(s, a, Len(s))) - 1)
<1> DEFINE n == Len(s)
           r == SubSeq(s, a, n)
<1>1. n \in Nat /\ n - 1 \in Nat /\ a <= n
  OBVIOUS
<1>2. r \in Seq(S) /\ Len(r) = n - a + 1
  <2>1. \A i \in a..n : s[i] \in S
    BY <1>1, ElementOfSeq
  <2> QED
    BY <1>1, <2>1, SubSeqProperties
<1>3. r # <<>>
  <2>1. Len(r) # 0
    BY <1>1, <1>2
  <2> HIDE DEF r
  <2> QED
    BY <2>1
<1>4. SubSeq(t, a, n - 1) = SubSeq(s, a, n - 1)
  BY <1>1, SamePart
<1>5. SubSeq(r, 1, n - a) = SubSeq(s, a, n - 1)
  <2>1. CASE a = n
    <3>1. n - a = 0 /\ n - 1 < a
      BY <1>1, <2>1
    <3> HIDE DEF r, n
    <3>2. SubSeq(r, 1, n - a) = <<>> /\ SubSeq(s, a, n - 1) = <<>>
      BY <1>1, <3>1, SubSeqEmpty
    <3> QED
      BY <3>2
  <2>2. CASE a # n
    <3>1. /\ a \in 1..Len(s) /\ n \in 1..Len(s)
          /\ 1 \in 1..(n - a + 1) /\ n - a \in 1..(n - a + 1)
      BY <1>1, <2>2
    <3>2. SubSeq(SubSeq(s, a, n), 1, n - a) = SubSeq(s, a + 1 - 1, a + (n - a) - 1)
      BY <3>1, SubSeqOfSubSeq
    <3>3. a + 1 - 1 = a /\ a + (n - a) - 1 = n - 1
      BY <1>1
    <3> QED
      BY <3>2, <3>3
  <2> QED
    BY <2>1, <2>2
<1>6. Len(r) - 1 = n - a
  BY <1>1, <1>2
<1> QED
  BY <1>3, <1>4, <1>5, <1>6

-----------------------------------------------------------------------------
LEMMA CallsFacts ==
  ASSUME IInv
  PROVE  /\ Depth \in Nat
         /\ \A i \in 1..Depth : CallOf(i) \in CallRecord
         /\ Calls = [i \in 1..Depth |-> CallOf(i)]
         /\ Calls \in Seq(CallRecord) /\ Len(Calls) = Depth /\ DOMAIN Calls = 1..Depth
         /\ \A i \in 1..Depth : Calls[i] = CallOf(i)
<1>1. Depth \in Nat /\ \A i \in 1..Depth : frames[i] \in Frame
  BY NoFrames DEF IInv
<1>2. ASSUME NEW i \in 1..Depth
      PROVE  CallOf(i) \in CallRecord
  <2>1. OwnedBy(i) \in SUBSET Blocks
    BY DEF OwnedBy, IInv, TypeOK
  <2>2. StatusOf(i) \in Statuses
    BY <1>1 DEF StatusOf, IInv, TypeOK, Frame
  <2>3. ArmedBy(i) \in Seq(Cleanups)
    <3> DEFINE n == IF i < Depth THEN frames[i + 1].cleanupMark ELSE Len(cleanups)
    <3>1. frames[i].cleanupMark + 1 \in Nat \ {0} /\ n \in Nat /\ n <= Len(cleanups)
      <4>1. /\ frames[i].cleanupMark \in Nat
            /\ i < Depth => i + 1 \in 1..Depth /\ frames[i + 1].cleanupMark \in Nat
        BY <1>1 DEF Frame
      <4>2. i < Depth => frames[i + 1].cleanupMark <= Len(cleanups)
        BY <4>1 DEF IInv, MarksOrdered
      <4>3. Len(cleanups) \in Nat
        BY DEF IInv, TypeOK
      <4>4. QED
        BY <4>1, <4>2, <4>3
    <3> HIDE DEF n
    <3>2. \A k \in (frames[i].cleanupMark + 1)..n : cleanups[k] \in Cleanups
      BY <3>1, ElementOfSeq DEF IInv, TypeOK
    <3>3. SubSeq(cleanups, frames[i].cleanupMark + 1, n) \in Seq(Cleanups)
      BY <3>1, <3>2, SubSeqProperties
    <3> QED
      BY <3>3 DEF ArmedBy, n
  <2> QED
    BY <2>1, <2>2, <2>3 DEF CallOf, CallRecord
<1>3. Calls = [i \in 1..Depth |-> CallOf(i)]
  BY DEF Calls, CallOf
<1>4. Calls \in Seq(CallRecord) /\ Len(Calls) = Depth
  BY <1>1, <1>2, <1>3
<1> QED
  BY <1>1, <1>2, <1>3, <1>4

(* Who is owned, and what is free. *)
LEMMA OwnedFacts ==
  ASSUME Inv
  PROVE  /\ Ownership!Owned = list
         /\ Ownership!Top = Depth
         /\ (live \ list) \cup list = live
         /\ Ownership!Free = Blocks \ live
<1>1. /\ DOMAIN Calls = 1..Depth /\ Len(Calls) = Depth
      /\ \A i \in 1..Depth : Calls[i] = CallOf(i)
  BY CallsFacts DEF Inv
<1>2. Ownership!Owned = UNION {OwnedBy(i) : i \in 1..Depth}
  BY <1>1 DEF Ownership!Owned, CallOf
<1>3. Ownership!Owned = list
  BY <1>2 DEF Inv, Covered, OwnedBy
<1>4. (live \ list) \cup list = live
  BY DEF Inv, IInv, TypeOK
<1> QED
  BY <1>1, <1>3, <1>4 DEF Ownership!Top, Ownership!Free

(* Marks are numbers up to the sequence, and grow inwards. *)
LEMMA MarkFacts ==
  ASSUME IInv
  PROVE  /\ Depth \in Nat /\ sequence \in Nat /\ Len(cleanups) \in Nat
         /\ \A i \in 1..Depth : /\ frames[i].mark \in Nat /\ frames[i].mark <= sequence
                                /\ frames[i].cleanupMark \in Nat
                                /\ frames[i].cleanupMark <= Len(cleanups)
         /\ \A b \in list : b \in live /\ number[b] \in Nat /\ number[b] <= sequence
  BY NoFrames DEF IInv, MarksOrdered, Frame, TypeOK, TrackedInsideCalls

LEMMA CallsNext == Calls' = [i \in 1..Depth' |-> CallOf(i)']
  BY DEF Calls, CallOf

(* A step that leaves the frames and what they fail with. *)
SameFrames == frames' = frames /\ status' = status

LEMMA SameFramesFacts ==
  ASSUME SameFrames
  PROVE  /\ Depth' = Depth
         /\ \A i \in 1..Depth : StatusOf(i)' = StatusOf(i)
         /\ cleanups' = cleanups => \A i \in 1..Depth : ArmedBy(i)' = ArmedBy(i)
  BY DEF SameFrames, Depth, StatusOf, ArmedBy

LEMMA AllocateStep ==
  ASSUME Inv, NEW b \in Blocks, Allocate(b)
  PROVE  Ownership!Allocate(b) /\ Covered'
<1>1. SameFrames /\ cleanups' = cleanups /\ Depth \in 1..Depth /\ Depth' = Depth
  BY NoFrames DEF Allocate, SameFrames, Inv, IInv, Depth
<1>2. /\ list' = list \cup {b} /\ b \notin list /\ b \notin live /\ live' = live \cup {b}
      /\ number'[b] = sequence + 1
      /\ \A d \in list : number'[d] = number[d]
  BY MarkFacts DEF Allocate, Link, Inv, IInv, TypeOK
<1>3. ASSUME NEW i \in 1..Depth
      PROVE  OwnedBy(i)' = IF i = Depth THEN OwnedBy(i) \cup {b} ELSE OwnedBy(i)
  <2>1. i < Depth => i + 1 \in 1..Depth
    BY MarkFacts DEF Inv
  <2>2. /\ frames[i].mark < sequence + 1
        /\ i < Depth => ~(sequence + 1 <= frames[i + 1].mark)
    BY <2>1, MarkFacts DEF Inv
  <2>3. \A d \in list : d \in OwnedBy(i)' <=> d \in OwnedBy(i)
    BY <1>1, <1>2 DEF OwnedBy, SameFrames
  <2>4. b \in OwnedBy(i)' <=> ~(i < Depth)
    BY <1>1, <1>2, <2>2 DEF OwnedBy, SameFrames
  <2>5. OwnedBy(i) \subseteq list /\ OwnedBy(i)' \subseteq list \cup {b}
    BY <1>2 DEF OwnedBy
  <2>6. i < Depth <=> i # Depth
    BY MarkFacts DEF Inv
  <2> QED
    BY <1>2, <2>3, <2>4, <2>5, <2>6
<1>4. Calls' = [Calls EXCEPT ![Depth].owned = @ \cup {b}]
  <2>1. \A i \in 1..Depth : CallOf(i)' = IF i = Depth
                                          THEN [CallOf(i) EXCEPT !.owned = @ \cup {b}]
                                          ELSE CallOf(i)
    BY <1>1, <1>3, SameFramesFacts DEF CallOf
  <2>2. Calls = [i \in 1..Depth |-> CallOf(i)]
    BY CallsFacts DEF Inv
  <2> QED
    BY <1>1, <2>1, <2>2, CallsNext
<1>5. Covered'
  BY <1>1, <1>2, <1>3 DEF Covered, Inv
<1>6. live' \ list' = live \ list
  BY <1>2
<1>7. Calls # <<>>
  BY <1>1, CallsFacts DEF Inv
<1>8. b \in Ownership!Free
  BY <1>2, OwnedFacts
<1> QED
  BY <1>4, <1>5, <1>6, <1>7, <1>8, OwnedFacts DEF Ownership!Allocate, Allocate

(* jb_release() and jb_untrack() take a block from its owner. *)
LEMMA TakenAway ==
  ASSUME Inv, NEW b \in live, SameFrames, cleanups' = cleanups, list' = list \ {b},
         \A d \in list' : number'[d] = number[d]
  PROVE  Calls' = Ownership!Without(b) /\ Covered'
<1>1. Depth' = Depth
  BY SameFramesFacts
<1>2. \A i \in 1..Depth : OwnedBy(i)' = OwnedBy(i) \ {b}
  BY <1>1 DEF OwnedBy, SameFrames
<1>3. Calls' = Ownership!Without(b)
  <2>1. \A i \in 1..Depth : CallOf(i)' = [CallOf(i) EXCEPT !.owned = @ \ {b}]
    BY <1>2, SameFramesFacts DEF CallOf
  <2>2. DOMAIN Calls = 1..Depth /\ \A i \in 1..Depth : Calls[i] = CallOf(i)
    BY CallsFacts DEF Inv
  <2> QED
    BY <1>1, <2>1, <2>2, CallsNext DEF Ownership!Without
<1> QED
  BY <1>1, <1>2, <1>3 DEF Covered, Inv

LEMMA ReleaseStep ==
  ASSUME Inv, NEW b \in Blocks, Release(b)
  PROVE  Ownership!Release(b) /\ Covered'
<1>1. tracked = list /\ list \subseteq live /\ b \in live
  BY DEF Inv, IInv, ListMatchesFlags, TypeOK, Release
<1>2. SameFrames /\ cleanups' = cleanups /\ list' = list \ {b} /\ live' = live \ {b}
  BY <1>1 DEF Release, SameFrames, Unlink
<1>3. \A d \in list' : number'[d] = number[d]
  BY <1>1, <1>2 DEF Release, Restrict
<1>4. Calls' = Ownership!Without(b) /\ Covered'
  BY <1>1, <1>2, <1>3, TakenAway
<1>5. live' \ list' = (live \ list) \ {b}
  BY <1>2
<1> QED
  BY <1>1, <1>4, <1>5, OwnedFacts DEF Ownership!Release, Release

LEMMA UntrackStep ==
  ASSUME Inv, NEW b \in Blocks, Untrack(b)
  PROVE  (Ownership!Next \/ UNCHANGED Ownership!vars) /\ Covered'
<1>1. tracked = list /\ list \subseteq live /\ b \in live
  BY DEF Inv, IInv, ListMatchesFlags, TypeOK, Untrack
<1>2. SameFrames /\ cleanups' = cleanups /\ list' = list \ {b} /\ UNCHANGED <<live, number, outcome>>
  BY <1>1 DEF Untrack, SameFrames, Unlink
<1>3. Calls' = Ownership!Without(b) /\ Covered'
  BY <1>1, <1>2, TakenAway
<1>4. CASE b \in list
  <2>1. live' \ list' = (live \ list) \cup {b}
    BY <1>1, <1>2
  <2>2. Ownership!Keep(b)
    BY <1>2, <1>3, <1>4, <2>1, OwnedFacts DEF Ownership!Keep
  <2> QED
    BY <1>3, <2>2 DEF Ownership!Next
<1>5. CASE b \notin list
  <2>1. list' = list
    BY <1>2, <1>5
  <2>2. Calls' = Calls
    BY <1>2, <2>1, SameFramesFacts DEF Calls, OwnedBy, SameFrames
  <2> QED
    BY <1>2, <1>3, <2>1, <2>2 DEF Ownership!vars
<1> QED
  BY <1>4, <1>5

LEMMA ReallocateStep ==
  ASSUME Inv, NEW b \in Blocks, NEW c \in Blocks, Reallocate(b, c)
  PROVE  Ownership!Move(b, c) /\ Covered'
<1>1. /\ tracked = list /\ list \subseteq live /\ b \in live
      /\ c \notin live \/ c = b
  BY DEF Inv, IInv, ListMatchesFlags, TypeOK, Reallocate
<1>2. SameFrames /\ cleanups' = cleanups /\ live' = (live \ {b}) \cup {c}
  BY <1>1 DEF Reallocate, SameFrames, Moved
<1>3. list' = IF b \in list THEN (list \ {b}) \cup {c} ELSE list
  BY <1>1 DEF Reallocate, Link, Unlink
<1>4. /\ number'[c] = number[b]
      /\ \A d \in list \ {b} : d # c /\ number'[d] = number[d]
  BY <1>1, <1>2 DEF Reallocate, MovedNumber
<1>5. Depth' = Depth
  BY <1>2, SameFramesFacts
<1>6. ASSUME NEW i \in 1..Depth
      PROVE  OwnedBy(i)' = IF b \in OwnedBy(i) THEN (OwnedBy(i) \ {b}) \cup {c} ELSE OwnedBy(i)
  <2>1. \A d \in list \ {b} : d \in OwnedBy(i)' <=> d \in OwnedBy(i)
    BY <1>2, <1>3, <1>4, <1>5 DEF OwnedBy, SameFrames
  <2>2. c \in OwnedBy(i)' <=> b \in OwnedBy(i)
    BY <1>1, <1>2, <1>3, <1>4, <1>5 DEF OwnedBy, SameFrames
  <2>3. OwnedBy(i) \subseteq list /\ OwnedBy(i)' \subseteq (list \ {b}) \cup {c}
    BY <1>3 DEF OwnedBy
  <2>4. c \notin list \ {b}
    BY <1>1
  <2> QED
    BY <2>1, <2>2, <2>3, <2>4
<1>7. Calls' = [i \in DOMAIN Calls |->
                 [Calls[i] EXCEPT !.owned = IF b \in @ THEN (@ \ {b}) \cup {c} ELSE @]]
  <2>1. \A i \in 1..Depth :
          CallOf(i)' = [CallOf(i) EXCEPT !.owned = IF b \in @ THEN (@ \ {b}) \cup {c} ELSE @]
    BY <1>2, <1>6, SameFramesFacts DEF CallOf
  <2>2. DOMAIN Calls = 1..Depth /\ \A i \in 1..Depth : Calls[i] = CallOf(i)
    BY CallsFacts DEF Inv
  <2> QED
    BY <1>5, <2>1, <2>2, CallsNext
<1>8. live' \ list' = IF b \in live \ list THEN ((live \ list) \ {b}) \cup {c} ELSE live \ list
  BY <1>1, <1>2, <1>3
<1>9. Covered'
  BY <1>3, <1>5, <1>6 DEF Covered, Inv
<1> QED
  BY <1>1, <1>7, <1>8, <1>9, OwnedFacts DEF Ownership!Move, Reallocate

-----------------------------------------------------------------------------
(* A step that only changes the cleanups: the blocks stay whose they are. *)
LEMMA OnlyCleanups ==
  ASSUME Inv, SameFrames, UNCHANGED memory
  PROVE  /\ Depth' = Depth /\ Covered' /\ live' \ list' = live \ list
         /\ \A i \in 1..Depth : OwnedBy(i)' = OwnedBy(i)
<1>1. Depth' = Depth
  BY SameFramesFacts
<1>2. \A i \in 1..Depth : OwnedBy(i)' = OwnedBy(i)
  BY <1>1 DEF OwnedBy, SameFrames, memory
<1> QED
  BY <1>1, <1>2 DEF memory, Covered, Inv

(* The cleanups of the calls around the innermost one lie below its mark.   *)
LEMMA ArmedBelow ==
  ASSUME IInv, cleanups' \in Seq(Cleanups), frames' = frames, InFrame,
         Innermost.cleanupMark <= Len(cleanups'),
         \A k \in 1..Innermost.cleanupMark : cleanups'[k] = cleanups[k]
  PROVE  \A i \in 1..(Depth - 1) : ArmedBy(i)' = ArmedBy(i)
<1> SUFFICES ASSUME NEW i \in 1..(Depth - 1) PROVE ArmedBy(i)' = ArmedBy(i)
  OBVIOUS
<1> DEFINE a == frames[i].cleanupMark + 1
           n == frames[i + 1].cleanupMark
<1>1. Depth \in Nat /\ Depth \in 1..Depth /\ i \in 1..Depth /\ i + 1 \in 1..Depth /\ i < Depth
  BY NoFrames DEF IInv
<1>2. a \in Nat /\ a >= 1 /\ n \in Nat
  BY <1>1, MarkFacts
<1>3. n <= Innermost.cleanupMark /\ Innermost.cleanupMark \in Nat
      /\ Innermost.cleanupMark <= Len(cleanups) /\ Len(cleanups) \in Nat
  BY <1>1, MarkFacts DEF IInv, MarksOrdered, Innermost
<1>4. ArmedBy(i) = SubSeq(cleanups, a, n) /\ ArmedBy(i)' = SubSeq(cleanups', a, n)
  BY <1>1 DEF ArmedBy, Depth
<1> HIDE DEF a, n
<1>5. cleanups \in Seq(Cleanups) /\ Len(cleanups') \in Nat
  BY DEF IInv, TypeOK
<1>6. n <= Len(cleanups) /\ n <= Len(cleanups')
  BY <1>2, <1>3, <1>5
<1>7. \A k \in 1..n : cleanups[k] = cleanups'[k]
  BY <1>2, <1>3
<1>8. SubSeq(cleanups, a, n) = SubSeq(cleanups', a, n)
  BY <1>2, <1>5, <1>6, <1>7, SamePart
<1> QED
  BY <1>4, <1>8

LEMMA InnermostArmed ==
  ASSUME IInv, InFrame
  PROVE  /\ ArmedBy(Depth) = SubSeq(cleanups, Innermost.cleanupMark + 1, Len(cleanups))
         /\ frames' = frames =>
              ArmedBy(Depth)' = SubSeq(cleanups', Innermost.cleanupMark + 1, Len(cleanups'))
<1>1. Depth \in Nat /\ ~(Depth < Depth) /\ (frames' = frames => Depth' = Depth)
  BY NoFrames DEF IInv, Depth
<1> QED
  BY <1>1 DEF ArmedBy, Innermost

LEMMA ArmStep ==
  ASSUME Inv, InFrame, NEW c \in Cleanups, cleanups' = Append(cleanups, c),
         UNCHANGED <<frames, status, memory, outcome>>
  PROVE  Ownership!Arm(c) /\ Covered'
<1>1. SameFrames /\ Depth \in 1..Depth
  BY NoFrames DEF SameFrames, Inv, IInv
<1>2. /\ Depth' = Depth /\ Covered' /\ live' \ list' = live \ list
      /\ \A i \in 1..Depth : OwnedBy(i)' = OwnedBy(i)
  BY <1>1, OnlyCleanups
<1>3. /\ cleanups \in Seq(Cleanups) /\ cleanups' \in Seq(Cleanups)
      /\ Len(cleanups') = Len(cleanups) + 1
      /\ \A k \in 1..Len(cleanups) : cleanups'[k] = cleanups[k]
  BY AppendFacts DEF Inv, IInv, TypeOK
<1>4. Innermost.cleanupMark \in Nat /\ Innermost.cleanupMark <= Len(cleanups)
      /\ Len(cleanups) \in Nat
  BY <1>1, MarkFacts DEF Inv, Innermost
<1>5. \A i \in 1..(Depth - 1) : ArmedBy(i)' = ArmedBy(i)
  BY <1>3, <1>4, ArmedBelow DEF Inv
<1>6. ArmedBy(Depth)' = Append(ArmedBy(Depth), c)
  <2>1. /\ ArmedBy(Depth) = SubSeq(cleanups, Innermost.cleanupMark + 1, Len(cleanups))
        /\ ArmedBy(Depth)' = SubSeq(cleanups', Innermost.cleanupMark + 1, Len(cleanups) + 1)
    BY <1>3, InnermostArmed DEF Inv
  <2>2. Innermost.cleanupMark + 1 \in Nat /\ Innermost.cleanupMark + 1 >= 1
        /\ Innermost.cleanupMark + 1 <= Len(cleanups) + 1
    BY <1>4
  <2> QED
    BY <1>3, <2>1, <2>2, AppendedPart
<1>7. Calls' = [Calls EXCEPT ![Depth].armed = Append(@, c)]
  <2>1. \A i \in 1..Depth : CallOf(i)' = IF i = Depth
                                          THEN [CallOf(i) EXCEPT !.armed = Append(@, c)]
                                          ELSE CallOf(i)
    <3>1. \A i \in 1..Depth : i = Depth \/ i \in 1..(Depth - 1)
      BY <1>1
    <3> QED
      BY <1>1, <1>2, <1>5, <1>6, <3>1, SameFramesFacts DEF CallOf
  <2>2. Calls = [i \in 1..Depth |-> CallOf(i)]
    BY CallsFacts DEF Inv
  <2> QED
    BY <1>1, <1>2, <2>1, <2>2, CallsNext
<1>8. Calls # <<>>
  BY <1>1, CallsFacts DEF Inv
<1> QED
  BY <1>2, <1>7, <1>8, OwnedFacts DEF Ownership!Arm

LEMMA DisarmStep ==
  ASSUME Inv, InFrame, Armed, cleanups' = SubSeq(cleanups, 1, Len(cleanups) - 1),
         UNCHANGED <<frames, status, memory, outcome>>
  PROVE  Ownership!Disarm /\ Covered'
<1>1. SameFrames /\ Depth \in 1..Depth
  BY NoFrames DEF SameFrames, Inv, IInv
<1>2. /\ Depth' = Depth /\ Covered' /\ live' \ list' = live \ list
      /\ \A i \in 1..Depth : OwnedBy(i)' = OwnedBy(i)
  BY <1>1, OnlyCleanups
<1> DEFINE m == Innermost.cleanupMark
           n == Len(cleanups)
<1>3. m \in Nat /\ n \in Nat /\ m <= n - 1 /\ n - 1 \in Nat /\ cleanups \in Seq(Cleanups)
  BY <1>1, MarkFacts DEF Inv, IInv, TypeOK, Innermost, Armed
<1>4. /\ cleanups' \in Seq(Cleanups) /\ Len(cleanups') = n - 1
      /\ \A k \in 1..(n - 1) : cleanups'[k] = cleanups[k]
  <2>1. n - 1 \in Nat /\ n - 1 <= Len(cleanups) /\ cleanups' = SubSeq(cleanups, 1, n - 1)
    BY <1>3
  <2> HIDE DEF n
  <2> QED
    BY <1>3, <2>1, PrefixFacts
<1>5. \A i \in 1..(Depth - 1) : ArmedBy(i)' = ArmedBy(i)
  BY <1>3, <1>4, ArmedBelow DEF Inv
<1>6. /\ ArmedBy(Depth) = SubSeq(cleanups, m + 1, n)
      /\ ArmedBy(Depth)' = SubSeq(cleanups', m + 1, n - 1)
  BY <1>4, InnermostArmed DEF Inv
<1> HIDE DEF m, n
<1>7. ArmedBy(Depth) # <<>> /\ ArmedBy(Depth)' = SubSeq(ArmedBy(Depth), 1, Len(ArmedBy(Depth)) - 1)
  <2>1. m + 1 \in Nat /\ m + 1 >= 1 /\ m + 1 <= Len(cleanups)
    BY <1>3 DEF n
  <2>2. /\ SubSeq(cleanups, m + 1, n) # <<>>
        /\ SubSeq(cleanups', m + 1, n - 1)
             = SubSeq(SubSeq(cleanups, m + 1, n), 1, Len(SubSeq(cleanups, m + 1, n)) - 1)
    BY <1>3, <1>4, <2>1, ShortenedPart DEF n
  <2> QED
    BY <1>6, <2>2
<1>8. Calls' = [Calls EXCEPT ![Depth].armed = SubSeq(@, 1, Len(@) - 1)]
  <2>1. \A i \in 1..Depth : CallOf(i)' = IF i = Depth
                                          THEN [CallOf(i) EXCEPT !.armed = SubSeq(@, 1, Len(@) - 1)]
                                          ELSE CallOf(i)
    <3>1. \A i \in 1..Depth : i = Depth \/ i \in 1..(Depth - 1)
      BY <1>1
    <3> QED
      BY <1>1, <1>2, <1>5, <1>7, <3>1, SameFramesFacts DEF CallOf
  <2>2. Calls = [i \in 1..Depth |-> CallOf(i)]
    BY CallsFacts DEF Inv
  <2> QED
    BY <1>1, <1>2, <2>1, <2>2, CallsNext
<1>9. Calls # <<>> /\ Calls[Depth].armed # <<>>
  BY <1>1, <1>7, CallsFacts DEF Inv, CallOf
<1> QED
  BY <1>2, <1>8, <1>9, OwnedFacts DEF Ownership!Disarm

-----------------------------------------------------------------------------
(* jb_frame_enter() begins a call that owns nothing; what was allocated and  *)
(* armed before is that of the calls around it.                             *)
LEMMA EnterStep ==
  ASSUME Inv, NEW s \in Defaults, FrameEnter(s)
  PROVE  Ownership!Begin(s) /\ Covered'
<1> DEFINE f == [mark |-> sequence, previousStatus |-> status, cleanupMark |-> Len(cleanups)]
           e == [owned |-> {}, armed |-> <<>>, status |-> s]
<1>1. f \in Frame /\ Depth \in Nat
  BY DEF Inv, IInv, TypeOK, Frame, Depth
<1>a. PICK d \in Nat : d = Depth + 1
  BY <1>1
<1>2. /\ Depth' = d /\ frames'[d] = f
      /\ \A i \in 1..Depth : frames'[i] = frames[i]
      /\ status' = s /\ UNCHANGED <<list, live, number, cleanups, sequence, outcome>>
  BY <1>1, <1>a, AppendFacts DEF FrameEnter, memory, Inv, IInv, TypeOK, Depth
<1>3. f.mark = sequence /\ f.cleanupMark = Len(cleanups) /\ f.previousStatus = status
  OBVIOUS
<1> HIDE DEF f
<1>4. ASSUME NEW i \in 1..Depth
      PROVE  CallOf(i)' = CallOf(i) /\ OwnedBy(i)' = OwnedBy(i)
  <2>1. CASE i < Depth
    <3>1. i + 1 \in 1..Depth /\ i < d
      BY <1>1, <1>a, <2>1
    <3> QED
      BY <1>2, <2>1, <3>1 DEF CallOf, OwnedBy, ArmedBy, StatusOf
  <2>2. CASE i = Depth
    <3>1. ~(Depth < Depth) /\ Depth < d
      BY <1>1, <1>a
    <3>2. OwnedBy(i)' = OwnedBy(i)
      BY <1>2, <1>3, <1>a, <2>2, <3>1, MarkFacts DEF OwnedBy, Inv
    <3>3. ArmedBy(i)' = ArmedBy(i) /\ StatusOf(i)' = StatusOf(i)
      BY <1>2, <1>3, <1>a, <2>2, <3>1 DEF ArmedBy, StatusOf
    <3> QED
      BY <3>2, <3>3 DEF CallOf
  <2> QED
    BY <1>1, <2>1, <2>2
<1>5. CallOf(d)' = e
  <2>1. ~(d < d)
    OBVIOUS
  <2>2. OwnedBy(d)' = {}
    BY <1>2, <1>3, <2>1, MarkFacts DEF OwnedBy, Inv
  <2>3. ArmedBy(d)' = <<>>
    <3>1. ArmedBy(d)' = SubSeq(cleanups, Len(cleanups) + 1, Len(cleanups))
      BY <1>2, <1>3, <2>1 DEF ArmedBy
    <3>2. Len(cleanups) \in Int /\ Len(cleanups) + 1 \in Int /\ Len(cleanups) < Len(cleanups) + 1
      BY MarkFacts DEF Inv
    <3> QED
      BY <3>1, <3>2, SubSeqEmpty
  <2>4. StatusOf(d)' = s
    BY <1>2, <2>1 DEF StatusOf
  <2> QED
    BY <2>2, <2>3, <2>4 DEF CallOf
<1>6. e \in CallRecord
  BY DEF CallRecord, Statuses
<1> HIDE DEF e
<1>7. Calls' = Append(Calls, e)
  <2>1. /\ Calls \in Seq(CallRecord) /\ Len(Calls) = Depth
        /\ \A i \in 1..Depth : Calls[i] = CallOf(i) /\ CallOf(i) \in CallRecord
    BY CallsFacts DEF Inv
  <2>2. Calls' = [i \in 1..d |-> IF i = d THEN e ELSE Calls[i]]
    <3>1. \A i \in 1..d : i = d \/ i \in 1..Depth
      BY <1>1, <1>a
    <3>2. \A i \in 1..d : CallOf(i)' = IF i = d THEN e ELSE Calls[i]
      BY <1>1, <1>a, <1>4, <1>5, <2>1, <3>1
    <3> QED
      BY <1>2, <3>2, CallsNext
  <2>3. Calls' \in Seq(CallRecord) /\ Len(Calls') = d
    <3>1. \A i \in 1..d : (IF i = d THEN e ELSE Calls[i]) \in CallRecord
      BY <1>1, <1>a, <1>6, <2>1
    <3> QED
      BY <2>2, <3>1
  <2>4. /\ Append(Calls, e) \in Seq(CallRecord) /\ Len(Append(Calls, e)) = d
        /\ \A i \in 1..d : Append(Calls, e)[i] = IF i = d THEN e ELSE Calls[i]
    BY <1>1, <1>a, <1>6, <2>1, AppendFacts
  <2>5. \A i \in 1..Len(Calls') : Calls'[i] = Append(Calls, e)[i]
    BY <2>2, <2>3, <2>4
  <2> QED
    BY <2>3, <2>4, <2>5, SeqEqual
<1>8. Covered'
  <2>1. ASSUME NEW i \in 1..Depth
        PROVE  i \in 1..Depth' /\ OwnedBy(i)' = OwnedBy(i)
    BY <1>1, <1>2, <1>4, <1>a
  <2> QED
    BY <1>2, <2>1 DEF Covered, Inv
<1> QED
  BY <1>2, <1>7, <1>8 DEF Ownership!Begin, e

-----------------------------------------------------------------------------
(* What call i owns of the blocks in L when the calls up to the last remain. *)
Between(L, i, last) ==
  {b \in L : frames[i].mark < number[b] /\ (i < last => number[b] <= frames[i + 1].mark)}

(* Leaving the innermost frame leaves the cleanups and the status of the     *)
(* calls around it what they were.                                          *)
LEMMA PoppedFacts ==
  ASSUME Inv, NEW L \in SUBSET list, Popped(L), \A b \in L : number'[b] = number[b]
  PROVE  /\ Depth \in Nat /\ Depth \in 1..Depth /\ Depth' = Depth - 1
         /\ \A i \in 1..(Depth - 1) :
              /\ frames'[i] = frames[i]
              /\ StatusOf(i)' = StatusOf(i)
              /\ ArmedBy(i)' = ArmedBy(i)
              /\ OwnedBy(i)' = Between(L, i, Depth - 1)
         /\ list' = IF Depth = 1 THEN {} ELSE L
<1>1. Depth \in Nat /\ Depth # 0 /\ Depth \in 1..Depth /\ Innermost = frames[Depth]
      /\ \A i \in 1..Depth : frames[i] \in Frame
  BY NoFrames DEF Popped, Inv, IInv, Innermost
<1>2. Depth' = Depth - 1 /\ \A i \in 1..(Depth - 1) : frames'[i] = frames[i]
  <2>1. Depth - 1 \in Nat /\ Depth - 1 <= Len(frames)
    BY <1>1 DEF Depth
  <2>2. frames \in Seq(Frame) /\ frames' = SubSeq(frames, 1, Depth - 1)
    BY DEF Popped, Unwind, Inv, IInv, TypeOK
  <2> QED
    BY <2>1, <2>2, PrefixFacts DEF Depth
<1>3. list' = IF Depth = 1 THEN {} ELSE L
  BY DEF Popped, HandOver
<1> DEFINE m == Innermost.cleanupMark
<1>4. m \in Nat /\ m <= Len(cleanups) /\ cleanups \in Seq(Cleanups)
  BY <1>1, MarkFacts DEF Inv, IInv, TypeOK
<1>5. /\ cleanups' \in Seq(Cleanups) /\ Len(cleanups') = m
      /\ \A k \in 1..m : cleanups'[k] = cleanups[k]
  BY <1>4, PrefixFacts DEF Popped
<1> HIDE DEF m
<1>6. ASSUME NEW i \in 1..(Depth - 1)
      PROVE  /\ StatusOf(i)' = StatusOf(i)
             /\ ArmedBy(i)' = ArmedBy(i)
             /\ OwnedBy(i)' = Between(L, i, Depth - 1)
  <2>1. i \in 1..Depth /\ i + 1 \in 1..Depth /\ i < Depth /\ Depth # 1
        /\ (i < Depth - 1 => i + 1 \in 1..(Depth - 1)) /\ (~(i < Depth - 1) => i + 1 = Depth)
    BY <1>1
  <2>2. status' = frames[Depth].previousStatus
    BY <1>1 DEF Popped, Unwind
  <2>3. StatusOf(i)' = StatusOf(i)
    BY <1>2, <2>1, <2>2 DEF StatusOf
  <2>4. OwnedBy(i)' = Between(L, i, Depth - 1)
    BY <1>2, <1>3, <2>1 DEF OwnedBy, Between
  <2>5. ArmedBy(i)' = ArmedBy(i)
    <3> DEFINE a == frames[i].cleanupMark + 1
               n == frames[i + 1].cleanupMark
    <3>1. a \in Nat /\ a >= 1 /\ n \in Nat
      BY <1>1, <2>1, MarkFacts DEF Inv
    <3>2. n <= m
      BY <1>1, <2>1 DEF Inv, IInv, MarksOrdered, m
    <3>3. ArmedBy(i) = SubSeq(cleanups, a, n)
      BY <2>1 DEF ArmedBy
    <3>4. ArmedBy(i)' = SubSeq(cleanups', a, n)
      BY <1>1, <1>2, <1>5, <2>1 DEF ArmedBy, m
    <3> HIDE DEF a, n
    <3>5. n <= Len(cleanups) /\ n <= Len(cleanups') /\ \A k \in 1..n : cleanups'[k] = cleanups[k]
      BY <1>4, <1>5, <3>1, <3>2
    <3>6. SubSeq(cleanups', a, n) = SubSeq(cleanups, a, n)
      BY <1>4, <1>5, <3>1, <3>5, SamePart
    <3> QED
      BY <3>3, <3>4, <3>6
  <2> QED
    BY <2>3, <2>4, <2>5
<1> QED
  BY <1>1, <1>2, <1>3, <1>6

(* A call that succeeds hands its blocks to the one around it or the caller. *)
LEMMA LeaveStep ==
  ASSUME Inv, InFrame, ~Armed, HandOver(list, tracked), Unwind,
         UNCHANGED <<sequence, live, number, cleanups, outcome>>
  PROVE  Ownership!Succeed /\ Covered'
<1>1. Depth \in Nat /\ Depth \in 1..Depth /\ Innermost = frames[Depth]
  BY NoFrames DEF Inv, IInv, Innermost
<1>2. /\ Innermost.cleanupMark \in Nat /\ Len(cleanups) = Innermost.cleanupMark
      /\ cleanups \in Seq(Cleanups)
  BY <1>1, MarkFacts DEF Inv, IInv, TypeOK, Armed
<1>3. Popped(list)
  <2>1. cleanups = SubSeq(cleanups, 1, Innermost.cleanupMark)
    BY <1>2
  <2>2. tracked \ (list \ list) = tracked
    OBVIOUS
  <2> QED
    BY <2>1, <2>2 DEF Popped
<1>4. /\ Depth' = Depth - 1
      /\ \A i \in 1..(Depth - 1) : /\ StatusOf(i)' = StatusOf(i)
                                   /\ ArmedBy(i)' = ArmedBy(i)
                                   /\ OwnedBy(i)' = Between(list, i, Depth - 1)
      /\ list' = IF Depth = 1 THEN {} ELSE list
  BY <1>3, PoppedFacts
<1>5. ArmedBy(Depth) = <<>>
  <2>1. ArmedBy(Depth) = SubSeq(cleanups, Len(cleanups) + 1, Len(cleanups))
    BY <1>2, InnermostArmed DEF Inv
  <2>2. Len(cleanups) \in Int /\ Len(cleanups) + 1 \in Int /\ Len(cleanups) < Len(cleanups) + 1
    BY <1>2
  <2> QED
    BY <2>1, <2>2, SubSeqEmpty
<1>6. /\ Calls = [i \in 1..Depth |-> CallOf(i)] /\ Ownership!Top = Depth
      /\ Calls[Depth].armed = <<>> /\ Calls # <<>>
      /\ \A i \in 1..Depth : Calls[i] = CallOf(i) /\ Calls[i].owned = OwnedBy(i)
  BY <1>1, <1>5, CallsFacts, OwnedFacts DEF Inv, CallOf
<1>7. CASE Depth = 1
  <2>1. Calls' = <<>>
    BY <1>4, <1>7, CallsNext
  <2>2. OwnedBy(1) = list
    BY <1>7 DEF Inv, Covered, OwnedBy
  <2>3. list \subseteq live
    BY DEF Inv, IInv, TypeOK
  <2>4. live' \ list' = (live \ list) \cup Calls[1].owned
    BY <1>4, <1>6, <1>7, <2>2, <2>3
  <2>5. Covered'
    BY <1>4, <1>7 DEF Covered
  <2> QED
    BY <1>6, <1>7, <2>1, <2>4, <2>5 DEF Ownership!Succeed
<1>8. CASE Depth # 1
  <2>1. ASSUME NEW i \in 1..(Depth - 1)
        PROVE  OwnedBy(i)' = IF i = Depth - 1 THEN OwnedBy(i) \cup OwnedBy(Depth) ELSE OwnedBy(i)
    <3>1. i \in 1..Depth /\ i + 1 \in 1..Depth /\ i < Depth /\ ~(Depth < Depth)
      BY <1>1
    <3>2. CASE i # Depth - 1
      <4>1. i < Depth - 1
        BY <1>1, <3>2
      <4> QED
        BY <1>4, <3>1, <3>2, <4>1 DEF Between, OwnedBy
    <3>3. CASE i = Depth - 1
      <4>1. i + 1 = Depth /\ ~(i < Depth - 1)
        BY <1>1, <3>3
      <4>2. \A b : b \in OwnedBy(i)' <=> b \in list /\ frames[i].mark < number[b]
        BY <1>4, <4>1 DEF Between
      <4>3. \A b : /\ (b \in OwnedBy(i)) <=> (b \in list /\ frames[i].mark < number[b] /\ number[b] <= frames[Depth].mark)
                   /\ (b \in OwnedBy(Depth)) <=> (b \in list /\ frames[Depth].mark < number[b])
        BY <3>1, <4>1 DEF OwnedBy
      <4>4. frames[i].mark <= frames[Depth].mark
        BY <1>1, <3>1 DEF Inv, IInv, MarksOrdered
      <4>5. /\ frames[i].mark \in Nat /\ frames[Depth].mark \in Nat
            /\ \A b \in list : number[b] \in Nat
        BY <1>1, <3>1, MarkFacts DEF Inv
      <4>6. \A b \in list : /\ frames[Depth].mark < number[b] => frames[i].mark < number[b]
                            /\ number[b] <= frames[Depth].mark \/ frames[Depth].mark < number[b]
        BY <4>4, <4>5
      <4>7. \A b : b \in OwnedBy(i)' <=> b \in OwnedBy(i) \/ b \in OwnedBy(Depth)
        BY <4>2, <4>3, <4>6
      <4>8. OwnedBy(i)' = OwnedBy(i) \cup OwnedBy(Depth)
        BY <4>7
      <4> QED
        BY <3>3, <4>8
    <3> QED
      BY <3>2, <3>3
  <2>2. Calls' = [i \in 1..(Depth - 1) |->
                   IF i = Depth - 1 THEN [Calls[i] EXCEPT !.owned = @ \cup Calls[Depth].owned]
                   ELSE Calls[i]]
    <3>1. \A i \in 1..(Depth - 1) : i \in 1..Depth
      BY <1>1
    <3>2. ASSUME NEW i \in 1..(Depth - 1)
          PROVE  CallOf(i)' = IF i = Depth - 1
                                THEN [CallOf(i) EXCEPT !.owned = @ \cup OwnedBy(Depth)]
                                ELSE CallOf(i)
      BY <1>4, <2>1 DEF CallOf
    <3> QED
      BY <1>1, <1>4, <1>6, <3>1, <3>2, CallsNext
  <2>3. live' \ list' = live \ list
    BY <1>4, <1>8
  <2>4. Covered'
    <3>1. ASSUME NEW b \in list, NEW i \in 1..Depth, b \in OwnedBy(i)
          PROVE  \E j \in 1..(Depth - 1) : b \in OwnedBy(j)'
      <4>1. CASE i = Depth
        <5>1. Depth - 1 \in 1..(Depth - 1)
          BY <1>1, <1>8
        <5> QED
          BY <2>1, <3>1, <4>1, <5>1
      <4>2. CASE i # Depth
        <5>1. i \in 1..(Depth - 1)
          BY <1>1, <4>2
        <5> QED
          BY <2>1, <3>1, <5>1
      <4> QED
        BY <4>1, <4>2
    <3> QED
      BY <1>4, <1>8, <3>1 DEF Covered, Inv
  <2> QED
    BY <1>6, <1>8, <2>2, <2>3, <2>4 DEF Ownership!Succeed
<1> QED
  BY <1>7, <1>8

(* A call that fails takes its own blocks with it, and no others; it runs    *)
(* what it armed, last first.                                               *)
LEMMA AbandonStep ==
  ASSUME Inv, NEW by, NEW s, FrameAbandon(list, by, s)
  PROVE  Ownership!End(by, s) /\ Covered'
<1> DEFINE L == list \ Doomed(list)
<1>1. Depth \in Nat /\ Depth \in 1..Depth /\ Innermost = frames[Depth]
  BY NoFrames DEF FrameAbandon, Inv, IInv, Innermost
<1>2. list \ L = Doomed(list) /\ L \subseteq list
  BY DEF Doomed
<1>3. Popped(L)
  BY <1>2 DEF FrameAbandon, Popped
<1>4. \A b : b \in L <=> b \in list /\ number[b] <= frames[Depth].mark
  BY <1>1, MarkFacts DEF Doomed, Inv
<1>5. /\ live' = live \ Doomed(list)
      /\ \A b \in L : number'[b] = number[b]
  BY <1>2 DEF FrameAbandon, Restrict, Inv, IInv, TypeOK
<1> HIDE DEF L
<1>6. /\ Depth' = Depth - 1
      /\ \A i \in 1..(Depth - 1) : /\ StatusOf(i)' = StatusOf(i)
                                   /\ ArmedBy(i)' = ArmedBy(i)
                                   /\ OwnedBy(i)' = Between(L, i, Depth - 1)
      /\ list' = IF Depth = 1 THEN {} ELSE L
  BY <1>2, <1>3, <1>5, PoppedFacts
<1>7. ASSUME NEW i \in 1..(Depth - 1)
      PROVE  OwnedBy(i)' = OwnedBy(i)
  <2>1. i \in 1..Depth /\ i + 1 \in 1..Depth /\ i < Depth
        /\ (i < Depth - 1 \/ i + 1 = Depth) /\ i + 1 <= Depth
    BY <1>1
  <2>2. /\ \A b \in list : number[b] \in Nat
        /\ frames[i + 1].mark \in Nat /\ frames[Depth].mark \in Nat
        /\ frames[i + 1].mark <= frames[Depth].mark
    BY <1>1, <2>1, MarkFacts DEF Inv, IInv, MarksOrdered
  <2>3. \A b \in list : number[b] <= frames[i + 1].mark => number[b] <= frames[Depth].mark
    BY <2>2
  <2>4. \A b : b \in OwnedBy(i)' <=> b \in OwnedBy(i)
    BY <1>4, <1>6, <2>1, <2>3 DEF Between, OwnedBy
  <2> QED
    BY <2>4
<1>8. /\ Calls = [i \in 1..Depth |-> CallOf(i)] /\ Ownership!Top = Depth /\ Calls # <<>>
      /\ Calls \in Seq(CallRecord) /\ Len(Calls) = Depth
      /\ \A i \in 1..Depth : Calls[i] = CallOf(i) /\ CallOf(i) \in CallRecord
  BY <1>1, CallsFacts, OwnedFacts DEF Inv
<1>9. Calls' = SubSeq(Calls, 1, Depth - 1)
  <2>1. Calls' = [i \in 1..(Depth - 1) |-> Calls[i]]
    <3>1. \A i \in 1..(Depth - 1) : i \in 1..Depth
      BY <1>1
    <3>2. \A i \in 1..(Depth - 1) : CallOf(i)' = Calls[i]
      BY <1>6, <1>7, <1>8, <3>1 DEF CallOf
    <3> QED
      BY <1>6, <3>2, CallsNext
  <2>2. Calls' \in Seq(CallRecord) /\ Len(Calls') = Depth - 1
    <3>1. Depth - 1 \in Nat /\ \A i \in 1..(Depth - 1) : Calls[i] \in CallRecord
      BY <1>1, <1>8
    <3> QED
      BY <2>1, <3>1
  <2>3. /\ SubSeq(Calls, 1, Depth - 1) \in Seq(CallRecord) /\ Len(SubSeq(Calls, 1, Depth - 1)) = Depth - 1
        /\ \A i \in 1..(Depth - 1) : SubSeq(Calls, 1, Depth - 1)[i] = Calls[i]
    <3>1. Depth - 1 \in Nat /\ Depth - 1 <= Len(Calls)
      BY <1>1, <1>8
    <3> QED
      BY <1>8, <3>1, PrefixFacts
  <2>4. \A i \in 1..Len(Calls') : Calls'[i] = SubSeq(Calls, 1, Depth - 1)[i]
    BY <2>1, <2>2, <2>3
  <2> QED
    BY <2>2, <2>3, <2>4, SeqEqual
<1>10. live' \ list' = live \ list
  <2>1. CASE Depth = 1
    <3>1. Doomed(list) = list
      BY <1>1, <2>1 DEF Doomed, Inv, IInv, TrackedInsideCalls
    <3> QED
      BY <1>5, <1>6, <2>1, <3>1
  <2>2. CASE Depth # 1
    BY <1>2, <1>5, <1>6, <2>2
  <2> QED
    BY <2>1, <2>2
<1>11. outcome' = [by |-> by, status |-> s, ran |-> Reverse(Calls[Depth].armed)]
  <2>1. Calls[Depth].armed = SubSeq(cleanups, Innermost.cleanupMark + 1, Len(cleanups))
    BY <1>1, <1>8, InnermostArmed DEF Inv, CallOf, FrameAbandon
  <2> QED
    BY <2>1 DEF FrameAbandon, RunOrder
<1>12. Covered'
  <2>1. CASE Depth = 1
    BY <1>6, <2>1 DEF Covered
  <2>2. CASE Depth # 1
    <3>1. ASSUME NEW b \in L
          PROVE  \E i \in 1..(Depth - 1) : b \in OwnedBy(i)'
      <4>1. PICK i \in 1..Depth : b \in OwnedBy(i)
        BY <1>2 DEF Inv, Covered
      <4>2. number[b] \in Nat /\ frames[Depth].mark \in Nat
        BY <1>1, <1>2, MarkFacts DEF Inv
      <4>3. ~(frames[Depth].mark < number[b])
        BY <1>4, <4>2
      <4>4. i # Depth
        BY <4>1, <4>3 DEF OwnedBy
      <4>5. i \in 1..(Depth - 1)
        BY <1>1, <4>4
      <4> QED
        BY <1>7, <4>1, <4>5
    <3> QED
      BY <1>6, <2>2, <3>1 DEF Covered
  <2> QED
    BY <2>1, <2>2
<1>13. Ownership!Reverse(Calls[Depth].armed) = Reverse(Calls[Depth].armed)
  BY DEF Ownership!Reverse, Reverse
<1> QED
  BY <1>8, <1>9, <1>10, <1>11, <1>12, <1>13 DEF Ownership!End

-----------------------------------------------------------------------------
(* Every failure is one CallOwnership names, with a status it allows. *)
LEMMA FailStep ==
  ASSUME Inv,
         \/ Die
         \/ \E s \in Raised : DieStatus(s)
         \/ DieStatus(Internal)
         \/ GiveUp
         \/ \E b \in Blocks : ReallocateFails(b)
  PROVE  Ownership!Next /\ Covered'
<1>1. ASSUME NEW s \in Raised, FrameAbandon(list, "die", s)
      PROVE  Ownership!Next /\ Covered'
  <2>1. Ownership!End("die", s) /\ Covered'
    BY <1>1, AbandonStep
  <2> QED
    BY <2>1 DEF Ownership!Next, Ownership!Die, Ownership!End
<1>2. CASE Die
  <2>1. Ownership!End("die", status) /\ Covered'
    BY <1>2, AbandonStep DEF Die
  <2>2. Ownership!Top = Depth /\ Calls[Depth].status = status
    <3>1. Depth \in 1..Depth /\ ~(Depth < Depth)
      BY <1>2, NoFrames DEF Die, FrameAbandon, Inv, IInv
    <3> QED
      BY <3>1, CallsFacts, OwnedFacts DEF Inv, CallOf, StatusOf
  <2> QED
    BY <2>1, <2>2 DEF Ownership!Next, Ownership!Die, Ownership!End
<1>3. CASE \E s \in Raised : DieStatus(s)
  BY <1>1, <1>3 DEF DieStatus
<1>4. CASE DieStatus(Internal)
  BY <1>1, <1>4, FrameAssumption DEF DieStatus
<1>5. CASE GiveUp
  <2>1. PICK s \in {Invalid, outcome.status} : FrameAbandon(list, "return", s)
    BY <1>5 DEF GiveUp
  <2>2. Ownership!End("return", s) /\ Covered'
    BY <2>1, AbandonStep
  <2> QED
    BY <2>2 DEF Ownership!Next, Ownership!GiveUp
<1>6. ASSUME NEW b \in Blocks, ReallocateFails(b)
      PROVE  Ownership!Next /\ Covered'
  <2>1. FrameAbandon(list, "die", OutOfMemory)
    BY <1>6, RelinkedIsList DEF ReallocateFails, Inv, IInv
  <2> QED
    BY <1>1, <2>1, FrameAssumption
<1> QED
  BY <1>2, <1>3, <1>4, <1>5, <1>6

LEMMA StepMaps == Inv /\ [Next]_vars => [Ownership!Next]_(Ownership!vars) /\ Covered'
<1> SUFFICES ASSUME Inv, [Next]_vars
             PROVE  (Ownership!Next \/ UNCHANGED Ownership!vars) /\ Covered'
  OBVIOUS
<1>1. CASE \E s \in Defaults : FrameEnter(s)
  BY <1>1, EnterStep DEF Ownership!Next
<1>2. CASE FrameLeave
  BY <1>2, LeaveStep, FailStep DEF FrameLeave, Ownership!Next
<1>3. CASE Die \/ (\E s \in Raised : DieStatus(s)) \/ GiveUp
  BY <1>3, FailStep
<1>4. ASSUME NEW b \in Blocks, Allocate(b) \/ Release(b)
      PROVE  Ownership!Next /\ Covered'
  BY <1>4, AllocateStep, ReleaseStep DEF Ownership!Next
<1>5. ASSUME NEW b \in Blocks, ReallocateFails(b) \/ Untrack(b)
      PROVE  (Ownership!Next \/ UNCHANGED Ownership!vars) /\ Covered'
  BY <1>5, FailStep, UntrackStep
<1>6. ASSUME NEW b \in Blocks, NEW c \in Blocks, Reallocate(b, c)
      PROVE  Ownership!Next /\ Covered'
  BY <1>6, ReallocateStep DEF Ownership!Next
<1>7. ASSUME NEW c \in Cleanups, CleanupPush(c)
      PROVE  Ownership!Next /\ Covered'
  BY <1>7, ArmStep, FailStep DEF CleanupPush, Ownership!Next
<1>8. ASSUME NEW c \in Cleanups, CleanupDisarm(c)
      PROVE  Ownership!Next /\ Covered'
  BY <1>8, DisarmStep, FailStep DEF CleanupDisarm, CanDisarm, Ownership!Next
<1>9. CASE UNCHANGED vars
  <2>1. Depth' = Depth /\ \A i \in 1..Depth : CallOf(i)' = CallOf(i) /\ OwnedBy(i)' = OwnedBy(i)
    BY <1>9 DEF vars, CallOf, OwnedBy, ArmedBy, StatusOf, Depth
  <2>2. Calls' = Calls
    BY <2>1, CallsNext, CallsFacts DEF Inv
  <2> QED
    BY <1>9, <2>1, <2>2 DEF vars, Ownership!vars, Covered, Inv
<1> QED
  BY <1>1, <1>2, <1>3, <1>4, <1>5, <1>6, <1>7, <1>8, <1>9 DEF Next

LEMMA InitMaps == Init => Ownership!Init /\ Covered
  BY DEF Init, Ownership!Init, Covered, Calls, Depth

(* Every listed block has an owner among the calls under way: jb_frame_abandon *)
(* of some frame, or the outermost success, takes it off the list            *)
(* (foundation.inc:207-221).                                                *)
THEOREM EveryBlockOwned == Spec => []Inv
  BY InitMaps, StepMaps, InitInv, NextInv, PTL DEF Spec, Inv

(* Marks, numbers and one list implement ownership by call: whatever calls  *)
(* nest, and wherever they fail, a failed call releases the blocks it       *)
(* allocated and did not hand on and no others, runs the cleanups it armed, *)
(* last first, and reports its own status (foundation.inc:207-221).         *)
THEOREM Refinement == Spec => ImplementsOwnership
<1>1. Init => Ownership!Init
  BY InitMaps
<1>2. Inv /\ [Next]_vars => [Ownership!Next]_(Ownership!vars)
  BY StepMaps
<1> QED
  BY <1>1, <1>2, EveryBlockOwned, PTL DEF Spec, ImplementsOwnership, Ownership!Spec
=============================================================================
