--------------------------- MODULE Sessions_proofs ---------------------------
(***************************************************************************)
(* Proofs about Sessions for any threads, sessions and bounds, with and    *)
(* without an accelerator.                                                 *)
(*                                                                         *)
(* Only the innermost call of a thread can be working; those under it are  *)
(* in their log callbacks.  So the invariant speaks of one call for each   *)
(* thread, and a step of one thread leaves what it says of the others.     *)
(***************************************************************************)
EXTENDS Sessions, RefCount, TLAPS, SequenceTheorems, FiniteSetTheorems

Types ==
  /\ accelerated \in BOOLEAN
  /\ session \in [Ids -> Session]
  /\ mutex \in Threads \cup {None}
  /\ context \in [Threads -> Contexts]
  /\ message \in [Threads -> Messages]
  /\ stack \in [Threads -> Seq(Call)]
  /\ latest \in [Ids -> Messages]
  /\ calls \in Messages
  /\ held \subseteq Handles
  /\ destructions \in {0, 1}

(* The innermost call of t has its session. *)
Working(t) == Depth(t) > 0 /\ Current(t).at # "log"

(* The phases a call may be in, in the order they began. *)
BegunSoFar(batch) ==
  IF batch THEN {<<>>, <<"control">>, <<"control", "kv">>, <<"control", "kv", "work">>}
           ELSE {<<>>, <<"kv">>, <<"kv", "work">>}

Elements(q) == {q[i] : i \in 1..Len(q)}

(* Call c with its session's record r: its phases are active while it is    *)
(* executing, and none before, after, or once it has failed.                *)
PhasesSound(c, r) ==
  /\ c.at \notin {"execute", "release"} => c.begun = <<>>
  /\ c.at = "execute" => /\ c.begun \in BegunSoFar(c.batch)
                         /\ r.phases = Elements(c.begun)
                         /\ "work" \in r.phases => c.passes > 0
  /\ c.at # "execute" => r.phases = {}
  /\ c.at \in {"lock", "context", "prepare", "execute", "format"} => c.rows > 0

(* The session is poisoned only as the call gives it back, by a failure in  *)
(* a phase, or was when the call found it.                                  *)
PoisonSound(c, r) ==
  /\ c.at # "release" => c.failure = "none"
  /\ c.at \notin {"ready", "release"} => ~r.poisoned
  /\ c.at = "release" /\ c.failure \in {"request", "resource"}
       => (r.poisoned <=> c.begun # <<>>)
  /\ c.at = "release" /\ c.failure = "request" => ~r.poisoned

Runs == {"prepare", "execute", "format", "finish"}

(* The cleanup record of thread t's call knows of the lock exactly while    *)
(* the call runs, and knows the context it was made in.                     *)
LockSound(t, acc, mx, c, r, ctx) ==
  /\ mx = t <=> acc /\ c.at \in Runs \cup {"context"}
  /\ c.at = "context" => acc
  /\ c.at \in Runs \cup {"lock", "context"} => (r.locked <=> acc /\ c.at \in Runs)
  /\ IF acc /\ c.at \in Runs THEN ctx = "cuda" /\ r.saved = c.caller
                             ELSE ctx = c.caller

Sound(t, acc, mx, c, r, ctx, msg) ==
  /\ r.live
  /\ r.busy
  /\ PhasesSound(c, r)
  /\ PoisonSound(c, r)
  /\ LockSound(t, acc, mx, c, r, ctx)
  /\ c.at = "release" /\ c.failure # "none" => msg = c.number

ThreadSound(t) ==
  /\ Depth(t) <= MaxNesting
  /\ \A i \in 1..Depth(t) : i < Depth(t) => stack[t][i].at = "log"
  /\ \A i \in 1..Depth(t) : stack[t][i].at = "log" => <<t, i>> \in held
  /\ Working(t) => Sound(t, accelerated, mutex, Current(t), Mine(t), context[t], message[t])
  /\ ~Working(t) => mutex # t

WorksOn(t, s) == Working(t) /\ Current(t).session = s

Exclusive ==
  \A s \in Ids : \A t, u \in Threads : WorksOn(t, s) /\ WorksOn(u, s) => t = u

(* What holds of session s whether a call works on it or not. *)
SessionSound(s) ==
  /\ session[s].live => s \in held
  /\ session[s].poisoned => session[s].live
  /\ (\A t \in Threads : ~WorksOn(t, s))
       => ~session[s].busy /\ session[s].phases = {} /\ session[s].error = latest[s]

IInv ==
  /\ Types
  /\ \A t \in Threads : ThreadSound(t)
  /\ \A s \in Ids : SessionSound(s)
  /\ Exclusive
  /\ held # {} => destructions = 0


-----------------------------------------------------------------------------
(* A sequence whose last element is replaced. *)
LEMMA TopReplaced ==
  ASSUME NEW S, NEW q \in Seq(S), Len(q) > 0, NEW c \in S
  PROVE  LET p == [q EXCEPT ![Len(q)] = c]
         IN  /\ p \in Seq(S)
             /\ Len(p) = Len(q)
             /\ p[Len(p)] = c
             /\ \A i \in 1..Len(p) : i < Len(p) => p[i] = q[i]
  BY LenProperties

(* A sequence with one more element, and with one fewer. *)
LEMMA TopPushed ==
  ASSUME NEW S, NEW q \in Seq(S), NEW c \in S
  PROVE  LET p == Append(q, c)
         IN  /\ p \in Seq(S)
             /\ Len(p) = Len(q) + 1
             /\ p[Len(p)] = c
             /\ \A i \in 1..Len(p) : i < Len(p) => p[i] = q[i]
  BY AppendProperties, LenProperties

LEMMA TopPopped ==
  ASSUME NEW S, NEW q \in Seq(S), Len(q) > 0
  PROVE  LET p == SubSeq(q, 1, Len(q) - 1)
         IN  /\ p \in Seq(S)
             /\ Len(p) = Len(q) - 1
             /\ \A i \in 1..Len(p) : p[i] = q[i]
<1> DEFINE n == Len(q) - 1
<1>1. n \in Nat /\ 1 \in Int /\ \A i \in 1..n : q[i] \in S
  BY LenProperties, ElementOfSeq
<1>2. Len(q) - 1 = n
  OBVIOUS
<1> HIDE DEF n
<1>3. /\ SubSeq(q, 1, n) \in Seq(S)
      /\ Len(SubSeq(q, 1, n)) = n
      /\ \A i \in 1..n : SubSeq(q, 1, n)[i] = q[i]
  BY <1>1, SubSeqProperties, SMTT(20)
<1>4. QED
  BY <1>2, <1>3

(* The innermost call of a thread that is in one. *)
LEMMA CurrentTyped ==
  ASSUME Types, NEW t \in Threads
  PROVE  /\ stack[t] \in Seq(Call)
         /\ Depth(t) \in Nat
         /\ Depth(t) > 0 => /\ Current(t) \in Call
                            /\ Current(t).session \in Ids
                            /\ Mine(t) \in Session
<1>1. stack[t] \in Seq(Call)
  BY DEF Types
<1>2. Depth(t) \in Nat
  BY <1>1, LenProperties DEF Depth
<1>3. ASSUME Depth(t) > 0
      PROVE  Current(t) \in Call
  BY <1>1, <1>2, <1>3, ElementOfSeq DEF Depth, Current
<1>4. ASSUME Current(t) \in Call
      PROVE  Current(t).session \in Ids /\ Mine(t) \in Session
  BY <1>4 DEF Call, Types, Mine
<1>5. QED
  BY <1>1, <1>2, <1>3, <1>4

(* What the invariant says of a thread, and of a session, is not disturbed  *)
(* by a step of another thread on another session.                          *)
LEMMA ThreadKept ==
  ASSUME NEW u \in Threads, ThreadSound(u),
         UNCHANGED <<accelerated, stack[u]>>,
         Working(u) => /\ UNCHANGED <<context[u], message[u]>>
                       /\ session'[Current(u).session] = session[Current(u).session],
         mutex' = u <=> mutex = u,
         \A i \in 1..Depth(u) : <<u, i>> \in held => <<u, i>> \in held'
  PROVE  ThreadSound(u)' /\ Working(u)' = Working(u) /\ Current(u)' = Current(u)
<1>1. Depth(u)' = Depth(u) /\ Current(u)' = Current(u) /\ stack'[u] = stack[u]
  BY DEF Depth, Current
<1>2. Working(u)' = Working(u)
  BY <1>1 DEF Working
<1>3. /\ (Depth(u) <= MaxNesting)'
      /\ (\A i \in 1..Depth(u) : i < Depth(u) => stack[u][i].at = "log")'
      /\ (\A i \in 1..Depth(u) : stack[u][i].at = "log" => <<u, i>> \in held)'
  BY <1>1 DEF ThreadSound
<1>4. (Working(u) => Sound(u, accelerated, mutex, Current(u), Mine(u), context[u], message[u]))'
  <2>1. ASSUME Working(u)
        PROVE  Sound(u, accelerated, mutex', Current(u), Mine(u), context[u], message[u])
    BY <2>1 DEF ThreadSound, Sound, LockSound
  <2>2. ASSUME Working(u)
        PROVE  Mine(u)' = Mine(u)
    BY <2>2, <1>1 DEF Mine
  <2>3. QED
    BY <1>1, <1>2, <2>1, <2>2
<1>5. (~Working(u) => mutex # u)'
  BY <1>2 DEF ThreadSound
<1>6. QED
  BY <1>1, <1>2, <1>3, <1>4, <1>5 DEF ThreadSound

(* What a step may do to the sessions it leaves live: none is mended. *)
Kept ==
  \A s \in Ids : session[s].poisoned /\ session'[s].live => session'[s].poisoned

(* A step of thread t whose innermost call goes on: it becomes c, its       *)
(* session's record r.  What is sound of these alone makes all of it sound. *)
LEMMA Advance ==
  ASSUME IInv, NEW t \in Threads, Working(t),
         NEW c \in Call, NEW r \in Session,
         c.at # "log",
         c.session = Current(t).session,
         Continue(t, c),
         session' = [session EXCEPT ![Current(t).session] = r],
         Mine(t).poisoned => r.poisoned,
         \/ mutex' = mutex
         \/ mutex = None /\ mutex' = t
         \/ mutex = t /\ mutex' = None,
         context' \in [Threads -> Contexts],
         message' \in [Threads -> Messages],
         \A u \in Threads : u # t => UNCHANGED <<context[u], message[u]>>,
         Sound(t, accelerated, mutex', c, r, context'[t], message'[t]),
         UNCHANGED <<accelerated, latest, calls, held, destructions>>
  PROVE  IInv' /\ Kept
<1> DEFINE id == Current(t).session
<1>1. /\ Types /\ Exclusive
      /\ stack[t] \in Seq(Call) /\ Depth(t) \in Nat /\ Depth(t) > 0
      /\ id \in Ids /\ Mine(t) \in Session
  BY CurrentTyped DEF IInv, Working
<1>2. /\ stack' \in [Threads -> Seq(Call)]
      /\ Depth(t)' = Depth(t)
      /\ Current(t)' = c
      /\ \A i \in 1..Depth(t) : i < Depth(t) => stack'[t][i] = stack[t][i]
      /\ \A u \in Threads : u # t => stack'[u] = stack[u]
  <2> DEFINE p == [stack[t] EXCEPT ![Len(stack[t])] = c]
  <2>1. stack' = [stack EXCEPT ![t] = p]
    BY DEF Continue, Depth
  <2>2. /\ p \in Seq(Call) /\ Len(p) = Len(stack[t]) /\ p[Len(p)] = c
        /\ \A i \in 1..Len(p) : i < Len(p) => p[i] = stack[t][i]
    BY <1>1, TopReplaced DEF Depth
  <2> HIDE DEF p
  <2>3. stack \in [Threads -> Seq(Call)]
    BY <1>1 DEF Types
  <2>4. stack'[t] = p
    BY <2>1, <2>3
  <2>5. QED
    BY <2>1, <2>2, <2>3, <2>4 DEF Depth, Current
<1>3. /\ session' \in [Ids -> Session]
      /\ session'[id] = r
      /\ \A s \in Ids : s # id => session'[s] = session[s]
  BY <1>1 DEF Types
<1>4. mutex' \in Threads \cup {None} /\ \A u \in Threads : u # t => (mutex' = u <=> mutex = u)
  BY <1>1, SessionsAssumption DEF Types
<1>5. Types'
  BY <1>1, <1>2, <1>3, <1>4 DEF Types
<1>6. Working(t)' /\ \A s \in Ids : WorksOn(t, s)' <=> WorksOn(t, s)
  BY <1>1, <1>2 DEF Working, WorksOn
<1>7. ThreadSound(t)'
  <2>1. Mine(t)' = r
    BY <1>2, <1>3 DEF Mine
  <2>2. (Working(t) => Sound(t, accelerated, mutex, Current(t), Mine(t), context[t], message[t]))'
    BY <1>2, <2>1
  <2>3. ThreadSound(t)
    BY DEF IInv
  <2>4. /\ (\A i \in 1..Depth(t) : i < Depth(t) => stack[t][i].at = "log")'
        /\ (\A i \in 1..Depth(t) : stack[t][i].at = "log" => <<t, i>> \in held)'
    <3>1. stack'[t][Depth(t)] = c
      BY <1>2 DEF Current
    <3>2. ASSUME NEW i \in 1..Depth(t), i < Depth(t)
          PROVE  stack'[t][i].at = "log" /\ <<t, i>> \in held'
      BY <1>1, <1>2, <2>3, <3>2 DEF ThreadSound
    <3>3. ASSUME NEW i \in 1..Depth(t)
          PROVE  i < Depth(t) \/ stack'[t][i].at # "log"
      BY <1>1, <3>1
    <3>4. QED
      BY <1>2, <3>2, <3>3
  <2>5. QED
    BY <1>2, <1>6, <2>2, <2>3, <2>4 DEF ThreadSound
<1>8. ASSUME NEW u \in Threads, u # t
      PROVE  /\ ThreadSound(u)'
             /\ \A s \in Ids : WorksOn(u, s)' <=> WorksOn(u, s)
  <2>1. ASSUME Working(u)
        PROVE  session'[Current(u).session] = session[Current(u).session]
    <3>1. Current(u).session \in Ids
      BY <1>1, <2>1, CurrentTyped DEF Working
    <3>2. Current(u).session # id
      BY <1>1, <1>8, <2>1 DEF Exclusive, WorksOn
    <3>3. QED
      BY <1>3, <3>1, <3>2
  <2>2. ThreadSound(u)
    BY DEF IInv
  <2>3. ThreadSound(u)' /\ Working(u)' = Working(u) /\ Current(u)' = Current(u)
    BY <1>2, <1>4, <1>8, <2>1, <2>2, ThreadKept
  <2>4. QED
    BY <2>3 DEF WorksOn
<1>9. Exclusive'
  BY <1>1, <1>6, <1>8 DEF Exclusive
<1>10. ASSUME NEW s \in Ids
       PROVE  SessionSound(s)' /\ (session[s].poisoned => session'[s].poisoned)
  <2>1. SessionSound(s)
    BY DEF IInv
  <2>2. CASE s = id
    <3>1. (\E u \in Threads : WorksOn(u, s))'
      BY <1>1, <1>6, <2>2 DEF WorksOn
    <3>2. /\ session[s].live /\ session'[s].live
          /\ session[s].poisoned => session'[s].poisoned
      <4>1. ThreadSound(t)
        BY DEF IInv
      <4>2. session[s] = Mine(t)
        BY <2>2 DEF Mine
      <4>3. QED
        BY <1>3, <2>2, <4>1, <4>2 DEF ThreadSound, Sound
    <3>3. QED
      BY <2>1, <3>1, <3>2 DEF SessionSound
  <2>3. CASE s # id
    <3>1. UNCHANGED <<session[s], latest[s]>>
      BY <1>3, <2>3
    <3>2. (\A u \in Threads : ~WorksOn(u, s))' => \A u \in Threads : ~WorksOn(u, s)
      BY <1>6, <1>8
    <3>3. QED
      BY <2>1, <3>1, <3>2 DEF SessionSound
  <2>4. QED
    BY <2>2, <2>3
<1>11. IInv'
  BY <1>5, <1>7, <1>8, <1>9, <1>10 DEF IInv
<1>12. QED
  BY <1>10, <1>11 DEF Kept

-----------------------------------------------------------------------------
(* The phases a call is in, one by one. *)
LEMMA PhasesOf ==
  /\ Elements(<<>>) = {}
  /\ Elements(<<"kv">>) = {"kv"}
  /\ Elements(<<"kv", "work">>) = {"kv", "work"}
  /\ Elements(<<"control">>) = {"control"}
  /\ Elements(<<"control", "kv">>) = {"control", "kv"}
  /\ Elements(<<"control", "kv", "work">>) = {"control", "kv", "work"}
  BY DEF Elements

LEMMA PhasesGrow ==
  /\ Append(<<>>, "kv") = <<"kv">>
  /\ Append(<<"kv">>, "work") = <<"kv", "work">>
  /\ Append(<<>>, "control") = <<"control">>
  /\ Append(<<"control">>, "kv") = <<"control", "kv">>
  /\ Append(<<"control", "kv">>, "work") = <<"control", "kv", "work">>
<1>1. Append(<<>>, "kv") = <<"kv">>
  OBVIOUS
<1>2. Append(<<"kv">>, "work") = <<"kv", "work">>
  <2>1. ASSUME NEW q, q = <<"kv", "work">>
        PROVE  q = Append(<<"kv">>, "work")
    BY <2>1
  <2>2. QED
    BY <2>1
<1>3. Append(<<>>, "control") = <<"control">>
  OBVIOUS
<1>4. Append(<<"control">>, "kv") = <<"control", "kv">>
  <2>1. ASSUME NEW q, q = <<"control", "kv">>
        PROVE  q = Append(<<"control">>, "kv")
    BY <2>1
  <2>2. QED
    BY <2>1
<1>5. Append(<<"control", "kv">>, "work") = <<"control", "kv", "work">>
  <2>1. ASSUME NEW q, q = <<"control", "kv", "work">>
        PROVE  q = Append(<<"control", "kv">>, "work")
    BY <2>1
  <2>2. QED
    BY <2>1
<1>6. QED
  BY <1>1, <1>2, <1>3, <1>4, <1>5

LEMMA PhasesNone ==
  ASSUME NEW batch \in BOOLEAN, NEW q \in BegunSoFar(batch)
  PROVE  q \in Seq(Phases) /\ (Elements(q) = {} <=> q = <<>>)
<1>1. q \in {<<>>, <<"kv">>, <<"kv", "work">>, <<"control">>, <<"control", "kv">>,
            <<"control", "kv", "work">>}
  BY DEF BegunSoFar
<1>2. q \in Seq(Phases)
  <2>1. /\ <<>> \in Seq(Phases)
        /\ \A e \in Phases : <<e>> \in Seq(Phases)
        /\ \A e, f \in Phases : <<e, f>> \in Seq(Phases)
        /\ \A e, f, g \in Phases : <<e, f, g>> \in Seq(Phases)
    OBVIOUS
  <2>2. "kv" \in Phases /\ "work" \in Phases /\ "control" \in Phases
    BY DEF Phases
  <2>3. QED
    BY <1>1, <2>1, <2>2
<1>3. Elements(q) = {} => q = <<>>
  <2>1. ASSUME q # <<>>
        PROVE  Len(q) > 0
    BY <1>1, <2>1
  <2>2. ASSUME q # <<>>
        PROVE  q[1] \in Elements(q)
    BY <1>2, <2>1, <2>2, LenProperties DEF Elements
  <2>3. QED
    BY <2>2
<1>4. q = <<>> => Elements(q) = {}
  BY PhasesOf
<1>5. QED
  BY <1>2, <1>3, <1>4

(* One phase more: the next of those the call goes through. *)
LEMMA PhaseMore ==
  ASSUME NEW c \in Call, c.begun \in BegunSoFar(c.batch), Len(c.begun) < Len(Nested(c))
  PROVE  /\ NextPhase(c) \in Phases
         /\ Append(c.begun, NextPhase(c)) \in BegunSoFar(c.batch)
         /\ Elements(Append(c.begun, NextPhase(c))) = Elements(c.begun) \cup {NextPhase(c)}
<1>1. CASE c.batch
  <2>1. Nested(c) = <<"control", "kv", "work">>
    BY <1>1 DEF Nested
  <2>2. CASE c.begun = <<>>
    <3>1. Len(c.begun) = 0 /\ NextPhase(c) = "control"
      BY <2>1, <2>2 DEF NextPhase
    <3>2. QED
      BY <1>1, <2>2, <3>1, PhasesOf, PhasesGrow DEF BegunSoFar, Phases
  <2>3. CASE c.begun = <<"control">>
    <3>1. Len(c.begun) = 1 /\ NextPhase(c) = "kv"
      BY <2>1, <2>3 DEF NextPhase
    <3>2. QED
      BY <1>1, <2>3, <3>1, PhasesOf, PhasesGrow DEF BegunSoFar, Phases
  <2>4. CASE c.begun = <<"control", "kv">>
    <3>1. Len(c.begun) = 2 /\ NextPhase(c) = "work"
      BY <2>1, <2>4 DEF NextPhase
    <3>2. QED
      BY <1>1, <2>4, <3>1, PhasesOf, PhasesGrow DEF BegunSoFar, Phases
  <2>5. ASSUME c.begun = <<"control", "kv", "work">>
        PROVE  FALSE
    <3>1. Len(c.begun) = 3 /\ Len(Nested(c)) = 3
      BY <2>1, <2>5
    <3>2. QED
      BY <3>1
  <2>6. QED
    BY <1>1, <2>2, <2>3, <2>4, <2>5 DEF BegunSoFar
<1>2. CASE ~c.batch
  <2>1. Nested(c) = <<"kv", "work">>
    BY <1>2 DEF Nested
  <2>2. CASE c.begun = <<>>
    <3>1. Len(c.begun) = 0 /\ NextPhase(c) = "kv"
      BY <2>1, <2>2 DEF NextPhase
    <3>2. QED
      BY <1>2, <2>2, <3>1, PhasesOf, PhasesGrow DEF BegunSoFar, Phases
  <2>3. CASE c.begun = <<"kv">>
    <3>1. Len(c.begun) = 1 /\ NextPhase(c) = "work"
      BY <2>1, <2>3 DEF NextPhase
    <3>2. QED
      BY <1>2, <2>3, <3>1, PhasesOf, PhasesGrow DEF BegunSoFar, Phases
  <2>4. ASSUME c.begun = <<"kv", "work">>
        PROVE  FALSE
    <3>1. Len(c.begun) = 2 /\ Len(Nested(c)) = 2
      BY <2>1, <2>4
    <3>2. QED
      BY <3>1
  <2>5. QED
    BY <1>2, <2>2, <2>3, <2>4 DEF BegunSoFar
<1>3. QED
  BY <1>1, <1>2

(* One phase less: the last that began. *)
LEMMA FrontOfAppend ==
  ASSUME NEW S, NEW q \in Seq(S), NEW e \in S
  PROVE  Front(Append(q, e)) = q /\ Last(Append(q, e)) = e
<1> DEFINE p == Append(q, e)
<1>1. /\ p \in Seq(S) /\ Len(p) = Len(q) + 1 /\ p[Len(q) + 1] = e
      /\ Len(q) \in Nat
      /\ \A i \in 1..Len(q) : p[i] = q[i]
  BY AppendProperties, LenProperties
<1>2. \A i \in 1..Len(q) : p[i] \in S
  BY <1>1, ElementOfSeq
<1> HIDE DEF p
<1>3. /\ SubSeq(p, 1, Len(q)) \in Seq(S)
      /\ Len(SubSeq(p, 1, Len(q))) = Len(q)
      /\ \A i \in 1..Len(q) : SubSeq(p, 1, Len(q))[i] = p[i]
  BY <1>1, <1>2, SubSeqProperties
<1>4. SubSeq(p, 1, Len(q)) = q
  BY <1>1, <1>3, SeqEqual
<1>5. Front(p) = q /\ Last(p) = e
  BY <1>1, <1>4 DEF Front, Last
<1>6. QED
  BY <1>5 DEF p

LEMMA PhaseLess ==
  ASSUME NEW batch \in BOOLEAN, NEW q \in BegunSoFar(batch), q # <<>>
  PROVE  /\ Front(q) \in BegunSoFar(batch)
         /\ Elements(Front(q)) = Elements(q) \ {Last(q)}
         /\ Last(q) \in Phases
         /\ "work" \in Elements(q) => Last(q) = "work"
         /\ Len(q) = 1 => Front(q) = <<>>
<1>1. PICK p \in BegunSoFar(batch), e \in Phases :
        /\ q = Append(p, e)
        /\ p = <<>> \/ p = <<"kv">> \/ p = <<"control">> \/ p = <<"control", "kv">>
        /\ e \notin Elements(p)
        /\ "work" \in Elements(q) => e = "work"
  <2>1. CASE q = <<"control">>
    <3>1. q = Append(<<>>, "control")
      BY <2>1
    <3>2. QED
      BY <2>1, <3>1, PhasesOf DEF BegunSoFar, Phases
  <2>2. CASE q = <<"control", "kv">>
    <3>1. q = Append(<<"control">>, "kv")
      BY <2>2
    <3>2. QED
      BY <2>2, <3>1, PhasesOf DEF BegunSoFar, Phases
  <2>3. CASE q = <<"control", "kv", "work">>
    <3>1. q = Append(<<"control", "kv">>, "work")
      BY <2>3
    <3>2. QED
      BY <2>3, <3>1, PhasesOf DEF BegunSoFar, Phases
  <2>4. CASE q = <<"kv">>
    <3>1. q = Append(<<>>, "kv")
      BY <2>4
    <3>2. QED
      BY <2>4, <3>1, PhasesOf DEF BegunSoFar, Phases
  <2>5. CASE q = <<"kv", "work">>
    <3>1. q = Append(<<"kv">>, "work")
      BY <2>5
    <3>2. QED
      BY <2>5, <3>1, PhasesOf DEF BegunSoFar, Phases
  <2>6. QED
    BY <2>1, <2>2, <2>3, <2>4, <2>5 DEF BegunSoFar
<1>2. p \in Seq(Phases)
  BY PhasesNone
<1>3. Front(q) = p /\ Last(q) = e
  BY <1>1, <1>2, FrontOfAppend
<1>4. /\ Elements(q) = Elements(p) \cup {e}
      /\ Len(q) = 1 => p = <<>>
  <2>1. /\ q \in Seq(Phases) /\ Len(q) = Len(p) + 1 /\ q[Len(q)] = e
        /\ \A i \in 1..Len(q) : i < Len(q) => q[i] = p[i]
    BY <1>1, <1>2, TopPushed
  <2>2. Len(p) \in Nat
    BY <1>2, LenProperties
  <2>3. \A i \in 1..Len(q) : i \in 1..Len(p) \/ i = Len(q)
    BY <2>1, <2>2
  <2>4. \A i \in 1..Len(p) : i \in 1..Len(q) /\ i < Len(q)
    BY <2>1, <2>2
  <2>5. Len(q) \in 1..Len(q)
    BY <2>1, <2>2
  <2>6. Elements(q) = Elements(p) \cup {e}
    BY <2>1, <2>3, <2>4, <2>5 DEF Elements
  <2>7. Len(q) = 1 => p = <<>>
    BY <1>1, <2>1
  <2>8. QED
    BY <2>6, <2>7
<1>5. QED
  BY <1>1, <1>3, <1>4

-----------------------------------------------------------------------------
(* A thread at a step of a call, and what is sound of that call. *)
LEMMA AtWork ==
  ASSUME IInv, NEW t \in Threads, NEW step, At(t, step), step # "log"
  PROVE  /\ Types
         /\ Working(t)
         /\ Current(t).at = step
         /\ Current(t) \in Call
         /\ Mine(t) \in Session
         /\ session = [session EXCEPT ![Current(t).session] = Mine(t)]
         /\ Sound(t, accelerated, mutex, Current(t), Mine(t), context[t], message[t])
<1>1. /\ Types /\ Depth(t) > 0 /\ Current(t).at = step
      /\ Current(t) \in Call /\ Mine(t) \in Session /\ Current(t).session \in Ids
  BY CurrentTyped DEF At, IInv
<1>2. Working(t)
  BY <1>1 DEF Working
<1>3. session = [session EXCEPT ![Current(t).session] = Mine(t)]
  BY <1>1 DEF Types, Mine
<1>4. ThreadSound(t)
  BY DEF IInv
<1>5. Sound(t, accelerated, mutex, Current(t), Mine(t), context[t], message[t])
  BY <1>2, <1>4 DEF ThreadSound
<1>6. QED
  BY <1>1, <1>2, <1>3, <1>5

(* The accelerator's lock and the caller's context are given back exactly   *)
(* when the call has taken them.                                            *)
LEMMA UnlockSound ==
  ASSUME Types, NEW t \in Threads, Current(t) \in Call,
         Sound(t, accelerated, mutex, Current(t), Mine(t), context[t], message[t]),
         Current(t).at \in Runs \cup {"lock"},
         Unlock(t)
  PROVE  /\ \/ mutex' = mutex
            \/ mutex = t /\ mutex' = None
         /\ mutex' # t
         /\ context' \in [Threads -> Contexts]
         /\ context'[t] = Current(t).caller
         /\ \A u \in Threads : u # t => UNCHANGED context[u]
<1> DEFINE c == Current(t)
           r == Mine(t)
<1>1. LockSound(t, accelerated, mutex, c, r, context[t])
  BY DEF Sound
<1>2. CASE r.locked
  <2>1. mutex' = None /\ context' = [context EXCEPT ![t] = r.saved]
    BY <1>2 DEF Unlock
  <2>2. accelerated /\ c.at \in Runs
    BY <1>1, <1>2 DEF LockSound
  <2>3. mutex = t /\ r.saved = c.caller
    BY <1>1, <2>2 DEF LockSound
  <2>4. c.caller \in Contexts /\ context \in [Threads -> Contexts]
    BY DEF Call, Types
  <2>5. QED
    BY <2>1, <2>3, <2>4, SessionsAssumption
<1>3. CASE ~r.locked
  <2>1. UNCHANGED <<mutex, context>>
    BY <1>3 DEF Unlock, accelerator
  <2>2. ~(accelerated /\ c.at \in Runs)
    BY <1>1, <1>3 DEF LockSound
  <2>3. mutex # t /\ context[t] = c.caller
    BY <1>1, <2>2 DEF LockSound, Runs
  <2>4. QED
    BY <2>1, <2>3 DEF Types
<1>4. QED
  BY <1>2, <1>3

(* A failure once the cleanup is armed, wherever the call has got to. *)
LEMMA FailSound ==
  ASSUME IInv, NEW t \in Threads,
         NEW step \in {"lock", "prepare", "execute", "format"}, At(t, step),
         NEW failure \in {"request", "resource"},
         failure = "request" => step = "prepare",
         Fail(t, failure),
         UNCHANGED <<accelerated, latest, calls, held, destructions>>
  PROVE  IInv' /\ Kept
<1> DEFINE c == Current(t)
           r == Mine(t)
           d == [c EXCEPT !.at = "release", !.failure = failure]
           q == [r EXCEPT !.poisoned = r.poisoned \/ r.phases # {}, !.phases = {}]
<1>1. /\ Types /\ Working(t) /\ c.at = step /\ c \in Call /\ r \in Session
      /\ Sound(t, accelerated, mutex, c, r, context[t], message[t])
  BY AtWork
<1>2. /\ session' = [session EXCEPT ![c.session] = q]
      /\ Continue(t, d)
      /\ message' = [message EXCEPT ![t] = c.number]
      /\ Unlock(t)
  BY DEF Fail, CleanedUp, Mine
<1>3. d \in Call /\ q \in Session
  BY <1>1 DEF Call, Session
<1>4. /\ d.at = "release" /\ d.failure = failure /\ d.begun = c.begun
      /\ d.caller = c.caller /\ d.number = c.number /\ d.session = c.session
  BY <1>1 DEF Call
<1>5. /\ q.live = r.live /\ q.busy = r.busy /\ q.phases = {}
      /\ q.poisoned <=> r.poisoned \/ r.phases # {}
  BY <1>1 DEF Session
<1>6. c.batch \in BOOLEAN
  BY <1>1 DEF Call
<1>7. PhasesSound(d, q)
  BY <1>4, <1>5 DEF PhasesSound
<1>8. PoisonSound(d, q)
  <2>1. ~r.poisoned /\ PhasesSound(c, r)
    BY <1>1 DEF Sound, PoisonSound
  <2>2. r.phases # {} <=> c.begun # <<>>
    BY <1>1, <1>6, <2>1, PhasesNone DEF PhasesSound
  <2>3. step # "execute" => r.phases = {}
    BY <1>1, <2>1 DEF PhasesSound
  <2>4. QED
    BY <1>4, <1>5, <2>1, <2>2, <2>3 DEF PoisonSound
<1>9. /\ \/ mutex' = mutex
         \/ mutex = t /\ mutex' = None
      /\ mutex' # t
      /\ context' \in [Threads -> Contexts]
      /\ context'[t] = c.caller
      /\ \A u \in Threads : u # t => UNCHANGED context[u]
  BY <1>1, <1>2, UnlockSound DEF Runs
<1>10. LockSound(t, accelerated, mutex', d, q, context'[t])
  BY <1>4, <1>9 DEF LockSound, Runs
<1>11. /\ message' \in [Threads -> Messages]
       /\ message'[t] = c.number
       /\ \A u \in Threads : u # t => UNCHANGED message[u]
  <2>1. c.number \in Messages
    BY <1>1, SessionsAssumption DEF Call, Messages
  <2>2. QED
    BY <1>1, <1>2, <2>1 DEF Types
<1>12. Sound(t, accelerated, mutex', d, q, context'[t], message'[t])
  BY <1>1, <1>4, <1>5, <1>7, <1>8, <1>10, <1>11 DEF Sound
<1>13. d.at # "log" /\ (r.poisoned => q.poisoned)
  BY <1>4, <1>5
<1> HIDE DEF d, q
<1>14. QED
  BY <1>1, <1>2, <1>3, <1>4, <1>9, <1>11, <1>12, <1>13, Advance

(* A step that touches neither the accelerator nor any message. *)
LEMMA AdvanceQuietly ==
  ASSUME IInv, NEW t \in Threads, NEW step, At(t, step), step # "log",
         NEW c \in Call, NEW r \in Session,
         c.at # "log",
         c.session = Current(t).session,
         Continue(t, c),
         session' = [session EXCEPT ![Current(t).session] = r],
         Mine(t).poisoned => r.poisoned,
         Sound(t, accelerated, mutex, c, r, context[t], message[t]),
         UNCHANGED <<accelerated, mutex, context, message, latest, calls, held, destructions>>
  PROVE  IInv' /\ Kept
<1>1. Working(t) /\ Types
  BY AtWork
<1>2. /\ context' \in [Threads -> Contexts]
      /\ message' \in [Threads -> Messages]
      /\ \A u \in Threads : UNCHANGED <<context[u], message[u]>>
  BY <1>1 DEF Types
<1>3. Sound(t, accelerated, mutex', c, r, context'[t], message'[t])
  OBVIOUS
<1>4. mutex' = mutex
  OBVIOUS
<1>5. QED
  BY <1>1, <1>2, <1>3, <1>4, Advance

(* A call that is refused before its cleanup is armed. *)
LEMMA RejectSound ==
  ASSUME IInv, NEW t \in Threads, NEW step \in {"ready", "validate"}, At(t, step),
         NEW failure \in {"unusable", "request"},
         step = "ready" => failure = "unusable",
         NEW r \in Session, r \in {Mine(t), ResetCleanup(Mine(t))},
         session' = [session EXCEPT ![Current(t).session] = r],
         Reject(t, failure),
         UNCHANGED <<accelerated, latest, calls, held, destructions>>
  PROVE  IInv' /\ Kept
<1> DEFINE c == Current(t)
           d == [c EXCEPT !.at = "release", !.failure = failure]
<1>1. /\ Types /\ Working(t) /\ c.at = step /\ c \in Call /\ Mine(t) \in Session
      /\ Sound(t, accelerated, mutex, c, Mine(t), context[t], message[t])
  BY AtWork
<1>2. /\ Continue(t, d)
      /\ message' = [message EXCEPT ![t] = c.number]
      /\ UNCHANGED <<mutex, context>>
  BY DEF Reject, accelerator
<1>3. d \in Call
  BY <1>1 DEF Call
<1>4. /\ d.at = "release" /\ d.failure = failure /\ d.begun = c.begun
      /\ d.caller = c.caller /\ d.number = c.number /\ d.session = c.session
  BY <1>1 DEF Call
<1>5. /\ r.live = Mine(t).live /\ r.busy = Mine(t).busy
      /\ r.phases = Mine(t).phases /\ r.poisoned = Mine(t).poisoned
  BY <1>1 DEF Session, ResetCleanup
<1>6. PhasesSound(d, r)
  BY <1>1, <1>4, <1>5 DEF PhasesSound, Sound
<1>7. PoisonSound(d, r)
  BY <1>1, <1>4, <1>5 DEF PoisonSound, PhasesSound, Sound
<1>8. LockSound(t, accelerated, mutex, d, r, context[t])
  BY <1>1, <1>4 DEF LockSound, Sound, Runs
<1>9. /\ context' \in [Threads -> Contexts]
      /\ message' \in [Threads -> Messages]
      /\ message'[t] = c.number
      /\ \A u \in Threads : u # t => UNCHANGED <<context[u], message[u]>>
  <2>1. c.number \in Messages
    BY <1>1, SessionsAssumption DEF Call, Messages
  <2>2. QED
    BY <1>1, <1>2, <2>1 DEF Types
<1>10. Sound(t, accelerated, mutex', d, r, context'[t], message'[t])
  BY <1>1, <1>2, <1>4, <1>5, <1>6, <1>7, <1>8, <1>9 DEF Sound
<1>11. d.at # "log" /\ (Mine(t).poisoned => r.poisoned)
  BY <1>4, <1>5
<1> HIDE DEF d
<1>12. QED
  BY <1>1, <1>2, <1>3, <1>4, <1>9, <1>10, <1>11, Advance

(* jb_session_ready *)
LEMMA ReadySound ==
  ASSUME IInv, NEW t \in Threads, Ready(t)
  PROVE  IInv' /\ Kept
<1> DEFINE c == Current(t)
           d == [c EXCEPT !.at = "validate"]
<1>1. /\ At(t, "ready")
      /\ UNCHANGED <<session, accelerated, latest, calls, held, destructions>>
  BY DEF Ready, model
<1>2. /\ Types /\ Working(t) /\ c.at = "ready" /\ c \in Call /\ Mine(t) \in Session
      /\ session = [session EXCEPT ![c.session] = Mine(t)]
      /\ Sound(t, accelerated, mutex, c, Mine(t), context[t], message[t])
  BY <1>1, AtWork
<1>3. CASE ~Mine(t).poisoned /\ Goto(t, "validate") /\ UNCHANGED <<accelerator, message>>
  <2>1. Continue(t, d) /\ UNCHANGED <<mutex, context, message>>
    BY <1>3 DEF Goto, accelerator
  <2>2. /\ d \in Call /\ d.at = "validate" /\ d.session = c.session /\ d.begun = c.begun
        /\ d.failure = c.failure /\ d.caller = c.caller
    BY <1>2 DEF Call
  <2>3. Sound(t, accelerated, mutex, d, Mine(t), context[t], message[t])
    BY <1>2, <1>3, <2>2 DEF Sound, PhasesSound, PoisonSound, LockSound, Runs
  <2>4. session' = [session EXCEPT ![c.session] = Mine(t)]
    BY <1>1, <1>2
  <2> HIDE DEF d
  <2>5. QED
    BY <1>1, <1>2, <2>1, <2>2, <2>3, <2>4, AdvanceQuietly
<1>4. CASE Reject(t, "unusable")
  <2>1. session' = [session EXCEPT ![c.session] = Mine(t)]
    BY <1>1, <1>2
  <2>2. QED
    BY <1>1, <1>2, <1>4, <2>1, RejectSound
<1>5. QED
  BY <1>3, <1>4 DEF Ready

(* The checks of a call's arguments. *)
LEMMA ValidateSound ==
  ASSUME IInv, NEW t \in Threads, Validate(t)
  PROVE  IInv' /\ Kept
<1> DEFINE c == Current(t)
           q == ResetCleanup(Mine(t))
           reset == [session EXCEPT ![c.session] = ResetCleanup(@)]
<1>1. /\ At(t, "validate")
      /\ UNCHANGED <<accelerated, latest, calls, held, destructions>>
  BY DEF Validate, model
<1>2. /\ Types /\ Working(t) /\ c.at = "validate" /\ c \in Call /\ Mine(t) \in Session
      /\ session = [session EXCEPT ![c.session] = Mine(t)]
      /\ Sound(t, accelerated, mutex, c, Mine(t), context[t], message[t])
  BY <1>1, AtWork
<1>3. reset = [session EXCEPT ![c.session] = q]
  BY DEF Mine
<1>4. /\ q \in Session /\ q.locked = FALSE
      /\ q.live = Mine(t).live /\ q.busy = Mine(t).busy
      /\ q.phases = Mine(t).phases /\ q.poisoned = Mine(t).poisoned
  BY <1>2 DEF Session, ResetCleanup, Contexts
<1>5. CASE Reject(t, "request") /\ session' \in {session, reset}
  <2>1. PICK r \in {Mine(t), q} : session' = [session EXCEPT ![c.session] = r]
    BY <1>2, <1>3, <1>5
  <2>2. r \in Session
    BY <1>2, <1>4, <2>1
  <2> HIDE DEF reset
  <2>3. QED
    BY <1>1, <1>5, <2>1, <2>2, RejectSound
<1>6. ASSUME NEW rows \in 1..MaxRows,
             session' = reset,
             Continue(t, [c EXCEPT !.at = "lock", !.rows = rows]),
             UNCHANGED <<accelerator, message>>
      PROVE  IInv' /\ Kept
  <2> DEFINE d == [c EXCEPT !.at = "lock", !.rows = rows]
  <2>1. UNCHANGED <<mutex, context, message>>
    BY <1>6 DEF accelerator
  <2>2. /\ d \in Call /\ d.at = "lock" /\ d.session = c.session /\ d.begun = c.begun
        /\ d.failure = c.failure /\ d.caller = c.caller /\ d.rows > 0
    <3>1. rows \in 0..MaxRows /\ rows > 0
      BY SessionsAssumption
    <3>2. QED
      BY <1>2, <3>1 DEF Call
  <2>3. Sound(t, accelerated, mutex, d, q, context[t], message[t])
    <3>1. PhasesSound(d, q) /\ PoisonSound(d, q)
      BY <1>2, <1>4, <2>2 DEF Sound, PhasesSound, PoisonSound
    <3>2. LockSound(t, accelerated, mutex, d, q, context[t])
      BY <1>2, <1>4, <2>2 DEF Sound, LockSound, Runs
    <3>3. QED
      BY <1>2, <1>4, <2>2, <3>1, <3>2 DEF Sound
  <2>4. Continue(t, d) /\ session' = [session EXCEPT ![c.session] = q]
    BY <1>3, <1>6
  <2> HIDE DEF d, q, reset
  <2>5. QED
    BY <1>1, <1>2, <1>4, <2>1, <2>2, <2>3, <2>4, AdvanceQuietly
<1>7. QED
  BY <1>5, <1>6 DEF Validate

(* jb_accel_call_lock up to the mutex. *)
LEMMA LockIsSound ==
  ASSUME IInv, NEW t \in Threads, Lock(t)
  PROVE  IInv' /\ Kept
<1> DEFINE c == Current(t)
<1>1. /\ At(t, "lock")
      /\ UNCHANGED <<accelerated, latest, calls, held, destructions>>
  BY DEF Lock, model
<1>2. /\ Types /\ Working(t) /\ c.at = "lock" /\ c \in Call /\ Mine(t) \in Session
      /\ session = [session EXCEPT ![c.session] = Mine(t)]
      /\ Sound(t, accelerated, mutex, c, Mine(t), context[t], message[t])
  BY <1>1, AtWork
<1>3. PICK step \in {"prepare", "context"} :
        /\ Goto(t, step)
        /\ UNCHANGED <<session, context, message>>
        /\ \/ step = "prepare" /\ ~accelerated /\ mutex' = mutex
           \/ step = "context" /\ accelerated /\ mutex = None /\ mutex' = t
  BY DEF Lock, accelerator
<1> DEFINE d == [c EXCEPT !.at = step]
<1>4. Continue(t, d) /\ session' = [session EXCEPT ![c.session] = Mine(t)]
  BY <1>2, <1>3 DEF Goto
<1>5. /\ d \in Call /\ d.at = step /\ d.session = c.session /\ d.begun = c.begun
      /\ d.failure = c.failure /\ d.caller = c.caller /\ d.rows = c.rows
  BY <1>2 DEF Call
<1> HIDE DEF d
<1>6. Sound(t, accelerated, mutex', d, Mine(t), context[t], message[t])
  <2>1. PhasesSound(d, Mine(t)) /\ PoisonSound(d, Mine(t))
    BY <1>2, <1>5 DEF Sound, PhasesSound, PoisonSound
  <2>2. LockSound(t, accelerated, mutex', d, Mine(t), context[t])
    BY <1>2, <1>3, <1>5 DEF Sound, LockSound, Runs
  <2>3. QED
    BY <1>2, <1>5, <2>1, <2>2 DEF Sound
<1>7. /\ context' \in [Threads -> Contexts] /\ message' \in [Threads -> Messages]
      /\ \A u \in Threads : UNCHANGED <<context[u], message[u]>>
  BY <1>2, <1>3 DEF Types
<1>8. Sound(t, accelerated, mutex', d, Mine(t), context'[t], message'[t])
  BY <1>6, <1>7
<1>9. QED
  BY <1>1, <1>2, <1>3, <1>4, <1>5, <1>7, <1>8, Advance

(* jb_accel_call_lock once in the mutex. *)
LEMMA EnterContextSound ==
  ASSUME IInv, NEW t \in Threads, EnterContext(t)
  PROVE  IInv' /\ Kept
<1> DEFINE c == Current(t)
           r == Mine(t)
<1>1. /\ At(t, "context")
      /\ UNCHANGED <<accelerated, latest, calls, held, destructions>>
  BY DEF EnterContext, model
<1>2. /\ Types /\ Working(t) /\ c.at = "context" /\ c \in Call /\ r \in Session
      /\ Sound(t, accelerated, mutex, c, r, context[t], message[t])
  BY <1>1, AtWork
<1>3. /\ accelerated /\ mutex = t /\ context[t] = c.caller
      /\ r.phases = {} /\ c.begun = <<>> /\ ~r.poisoned /\ c.failure = "none"
  <2>1. PhasesSound(c, r) /\ PoisonSound(c, r) /\ LockSound(t, accelerated, mutex, c, r, context[t])
    BY <1>2 DEF Sound
  <2>2. accelerated /\ mutex = t /\ context[t] = c.caller
    BY <1>2, <2>1 DEF LockSound, Runs
  <2>3. r.phases = {} /\ c.begun = <<>>
    BY <1>2, <2>1 DEF PhasesSound
  <2>4. ~r.poisoned /\ c.failure = "none"
    BY <1>2, <2>1 DEF PoisonSound
  <2>5. QED
    BY <2>2, <2>3, <2>4
<1>4. c.number \in Messages /\ c.caller \in Contexts
  BY <1>2, SessionsAssumption DEF Call, Messages
<1>5. ASSUME session' = [session EXCEPT ![c.session].locked = TRUE,
                                        ![c.session].saved = context[t]],
             context' = [context EXCEPT ![t] = "cuda"],
             Goto(t, "prepare"),
             UNCHANGED <<mutex, message>>
      PROVE  IInv' /\ Kept
  <2> DEFINE d == [c EXCEPT !.at = "prepare"]
             q == [r EXCEPT !.locked = TRUE, !.saved = c.caller]
  <2>1. Continue(t, d) /\ session' = [session EXCEPT ![c.session] = q]
    <3>1. c.session \in Ids /\ session \in [Ids -> Session]
      BY <1>2 DEF Call, Types
    <3>2. QED
      BY <1>3, <1>5, <3>1 DEF Goto, Mine
  <2>2. /\ d \in Call /\ d.at = "prepare" /\ d.session = c.session /\ d.begun = c.begun
        /\ d.failure = c.failure /\ d.caller = c.caller /\ d.rows = c.rows
    BY <1>2 DEF Call
  <2>3. /\ q \in Session /\ q.locked = TRUE /\ q.saved = c.caller
        /\ q.live = r.live /\ q.busy = r.busy
        /\ q.phases = r.phases /\ q.poisoned = r.poisoned
    BY <1>2, <1>4 DEF Session
  <2> HIDE DEF d, q
  <2>4. /\ context' \in [Threads -> Contexts] /\ message' \in [Threads -> Messages]
        /\ context'[t] = "cuda" /\ mutex' = mutex
        /\ \A u \in Threads : u # t => UNCHANGED <<context[u], message[u]>>
    BY <1>2, <1>5 DEF Types, Contexts
  <2>5. Sound(t, accelerated, mutex', d, q, context'[t], message'[t])
    <3>1. PhasesSound(d, q) /\ PoisonSound(d, q)
      BY <1>2, <1>3, <2>2, <2>3 DEF Sound, PhasesSound, PoisonSound
    <3>2. LockSound(t, accelerated, mutex', d, q, context'[t])
      BY <1>3, <2>2, <2>3, <2>4 DEF LockSound, Runs
    <3>3. QED
      BY <1>2, <2>2, <2>3, <3>1, <3>2 DEF Sound
  <2>6. QED
    BY <1>1, <1>2, <2>1, <2>2, <2>3, <2>4, <2>5, Advance
<1>6. ASSUME session' = [session EXCEPT ![c.session] = CleanedUp(@)],
             mutex' = None,
             message' = [message EXCEPT ![t] = c.number],
             Continue(t, [c EXCEPT !.at = "release", !.failure = "resource"]),
             UNCHANGED context
      PROVE  IInv' /\ Kept
  <2> DEFINE d == [c EXCEPT !.at = "release", !.failure = "resource"]
             q == CleanedUp(r)
  <2>1. Continue(t, d) /\ session' = [session EXCEPT ![c.session] = q]
    BY <1>6 DEF Mine
  <2>2. /\ d \in Call /\ d.at = "release" /\ d.session = c.session /\ d.begun = c.begun
        /\ d.failure = "resource" /\ d.caller = c.caller /\ d.number = c.number
    BY <1>2 DEF Call
  <2>3. /\ q \in Session /\ q.live = r.live /\ q.busy = r.busy /\ q.phases = {}
        /\ q.poisoned = FALSE
    BY <1>2, <1>3 DEF Session, CleanedUp
  <2> HIDE DEF d, q
  <2>4. /\ context' \in [Threads -> Contexts] /\ message' \in [Threads -> Messages]
        /\ context'[t] = c.caller /\ message'[t] = c.number
        /\ mutex' # t
        /\ \A u \in Threads : u # t => UNCHANGED <<context[u], message[u]>>
    BY <1>2, <1>3, <1>4, <1>6, SessionsAssumption DEF Types
  <2>5. Sound(t, accelerated, mutex', d, q, context'[t], message'[t])
    <3>1. PhasesSound(d, q) /\ PoisonSound(d, q)
      BY <1>3, <2>2, <2>3 DEF PhasesSound, PoisonSound
    <3>2. LockSound(t, accelerated, mutex', d, q, context'[t])
      BY <2>2, <2>4 DEF LockSound, Runs
    <3>3. QED
      BY <1>2, <2>2, <2>3, <2>4, <3>1, <3>2 DEF Sound
  <2>6. mutex = t /\ mutex' = None /\ (r.poisoned => q.poisoned) /\ d.at # "log"
    BY <1>3, <1>6, <2>2
  <2>7. QED
    BY <1>1, <1>2, <2>1, <2>2, <2>3, <2>4, <2>5, <2>6, Advance
<1>7. QED
  BY <1>5, <1>6 DEF EnterContext

LEMMA LockFailsSound ==
  ASSUME IInv, NEW t \in Threads, LockFails(t)
  PROVE  IInv' /\ Kept
  BY FailSound DEF LockFails, model

(* A call that stays in the accelerator, if it is on one, as it goes on.    *)
LEMMA StillLocked ==
  ASSUME NEW t \in Threads, NEW c, NEW d, NEW r, NEW q,
         LockSound(t, accelerated, mutex, c, r, context[t]),
         c.at \in Runs, d.at \in Runs, d.caller = c.caller,
         q.locked = r.locked, q.saved = r.saved
  PROVE  LockSound(t, accelerated, mutex, d, q, context[t])
  BY DEF LockSound, Runs

(* Preparing one request or a microbatch. *)
LEMMA PrepareSound ==
  ASSUME IInv, NEW t \in Threads, Prepare(t)
  PROVE  IInv' /\ Kept
<1> DEFINE c == Current(t)
           r == Mine(t)
<1>1. /\ At(t, "prepare")
      /\ UNCHANGED <<accelerated, latest, calls, held, destructions>>
  BY DEF Prepare, model
<1>2. /\ Types /\ Working(t) /\ c.at = "prepare" /\ c \in Call /\ r \in Session
      /\ session = [session EXCEPT ![c.session] = r]
      /\ Sound(t, accelerated, mutex, c, r, context[t], message[t])
  BY <1>1, AtWork
<1>3. CASE Fail(t, "request")
  BY <1>1, <1>3, FailSound
<1>4. CASE Fail(t, "resource")
  BY <1>1, <1>4, FailSound
<1>5. ASSUME NEW batch \in BOOLEAN, NEW passes \in 1..MaxPasses,
             Continue(t, [c EXCEPT !.at = "execute", !.batch = batch, !.passes = passes]),
             UNCHANGED <<session, accelerator, message>>
      PROVE  IInv' /\ Kept
  <2> DEFINE d == [c EXCEPT !.at = "execute", !.batch = batch, !.passes = passes]
  <2>1. passes \in 0..MaxPasses /\ passes > 0
    BY SessionsAssumption
  <2>2. /\ d \in Call /\ d.at = "execute" /\ d.session = c.session /\ d.begun = c.begun
        /\ d.failure = c.failure /\ d.caller = c.caller /\ d.rows = c.rows
        /\ d.batch = batch /\ d.passes = passes
    BY <1>2, <2>1 DEF Call
  <2>3. Continue(t, d) /\ session' = [session EXCEPT ![c.session] = r]
        /\ UNCHANGED <<mutex, context, message>>
    BY <1>2, <1>5 DEF accelerator
  <2> HIDE DEF d
  <2>4. Sound(t, accelerated, mutex, d, r, context[t], message[t])
    <3>1. PhasesSound(d, r)
      <4>1. c.begun = <<>> /\ r.phases = {} /\ c.rows > 0
        BY <1>2 DEF Sound, PhasesSound
      <4>2. <<>> \in BegunSoFar(batch)
        BY DEF BegunSoFar
      <4>3. QED
        BY <2>1, <2>2, <4>1, <4>2, PhasesOf DEF PhasesSound
    <3>2. PoisonSound(d, r)
      BY <1>2, <2>2 DEF Sound, PoisonSound
    <3>3. LockSound(t, accelerated, mutex, d, r, context[t])
      BY <1>2, <2>2, StillLocked DEF Sound, Runs
    <3>4. QED
      BY <1>2, <2>2, <3>1, <3>2, <3>3 DEF Sound
  <2>5. QED
    BY <1>1, <1>2, <2>2, <2>3, <2>4, AdvanceQuietly
<1>6. QED
  BY <1>3, <1>4, <1>5 DEF Prepare

(* The beginning of a phase of the workspace. *)
LEMMA BeginPhaseSound ==
  ASSUME IInv, NEW t \in Threads, BeginPhase(t)
  PROVE  IInv' /\ Kept
<1> DEFINE c == Current(t)
           r == Mine(t)
           phase == NextPhase(c)
           d == [c EXCEPT !.begun = Append(c.begun, phase), !.ran = TRUE]
           q == Begun(r, phase)
<1>1. /\ At(t, "execute") /\ c.passes > 0 /\ Len(c.begun) < Len(Nested(c))
      /\ UNCHANGED <<accelerated, latest, calls, held, destructions>>
  BY DEF BeginPhase, model
<1>2. /\ Types /\ Working(t) /\ c.at = "execute" /\ c \in Call /\ r \in Session
      /\ Sound(t, accelerated, mutex, c, r, context[t], message[t])
  BY <1>1, AtWork
<1>3. CASE Fail(t, "resource")
  BY <1>1, <1>3, FailSound
<1>4. ASSUME session' = [session EXCEPT ![c.session] = Begun(@, phase)],
             Continue(t, [c EXCEPT !.begun = Append(@, phase), !.ran = TRUE]),
             UNCHANGED <<accelerator, message>>
      PROVE  IInv' /\ Kept
  <2>1. /\ c.begun \in BegunSoFar(c.batch) /\ r.phases = Elements(c.begun) /\ c.rows > 0
        /\ c.batch \in BOOLEAN
    BY <1>2 DEF Sound, PhasesSound, Call
  <2>2. /\ phase \in Phases
        /\ Append(c.begun, phase) \in BegunSoFar(c.batch)
        /\ Elements(Append(c.begun, phase)) = Elements(c.begun) \cup {phase}
    BY <1>1, <1>2, <2>1, PhaseMore
  <2>3. Append(c.begun, phase) \in Seq(Phases)
    BY <2>1, <2>2, PhasesNone
  <2>4. Continue(t, d) /\ session' = [session EXCEPT ![c.session] = q]
        /\ UNCHANGED <<mutex, context, message>>
    BY <1>4 DEF accelerator, Mine
  <2> HIDE DEF phase
  <2>5. /\ d \in Call /\ d.at = "execute" /\ d.session = c.session
        /\ d.begun = Append(c.begun, phase) /\ d.batch = c.batch /\ d.passes = c.passes
        /\ d.failure = c.failure /\ d.caller = c.caller /\ d.rows = c.rows
    BY <1>2, <2>3 DEF Call
  <2>6. /\ q \in Session /\ q.phases = r.phases \cup {phase}
        /\ q.live = r.live /\ q.busy = r.busy /\ q.poisoned = r.poisoned
        /\ q.locked = r.locked /\ q.saved = r.saved
    BY <1>2, <2>2 DEF Session, Begun
  <2> HIDE DEF d, q
  <2>7. Sound(t, accelerated, mutex, d, q, context[t], message[t])
    <3>1. PhasesSound(d, q)
      BY <1>1, <2>1, <2>2, <2>5, <2>6 DEF PhasesSound
    <3>2. PoisonSound(d, q)
      BY <1>2, <2>5, <2>6 DEF Sound, PoisonSound
    <3>3. LockSound(t, accelerated, mutex, d, q, context[t])
      BY <1>2, <2>5, <2>6, StillLocked DEF Sound, Runs
    <3>4. QED
      BY <1>2, <2>5, <2>6, <3>1, <3>2, <3>3 DEF Sound
  <2>8. QED
    BY <1>1, <1>2, <2>4, <2>5, <2>6, <2>7, AdvanceQuietly
<1>5. QED
  BY <1>3, <1>4 DEF BeginPhase

(* The end of a phase of the workspace. *)
LEMMA EndPhaseSound ==
  ASSUME IInv, NEW t \in Threads, EndPhase(t)
  PROVE  IInv' /\ Kept
<1> DEFINE c == Current(t)
           r == Mine(t)
           passes == IF EndsPass(c) THEN c.passes - 1 ELSE c.passes
           at == IF Len(c.begun) = 1 THEN "format" ELSE c.at
           d == [c EXCEPT !.begun = Front(c.begun), !.passes = passes, !.at = at]
           q == Ended(r, Last(c.begun))
<1>1. /\ At(t, "execute") /\ c.begun # <<>> /\ (EndsPass(c) \/ c.passes = 0)
      /\ UNCHANGED <<accelerated, latest, calls, held, destructions>>
  BY DEF EndPhase, model
<1>2. /\ Types /\ Working(t) /\ c.at = "execute" /\ c \in Call /\ r \in Session
      /\ Sound(t, accelerated, mutex, c, r, context[t], message[t])
  BY <1>1, AtWork
<1>3. CASE Fail(t, "resource")
  BY <1>1, <1>3, FailSound
<1>4. ASSUME session' = [session EXCEPT ![c.session] = Ended(@, Last(c.begun))],
             Continue(t, [c EXCEPT !.begun = Front(@),
                                   !.passes = IF EndsPass(c) THEN @ - 1 ELSE @,
                                   !.at = IF Len(c.begun) = 1 THEN "format" ELSE @]),
             UNCHANGED <<accelerator, message>>
      PROVE  IInv' /\ Kept
  <2>1. /\ c.begun \in BegunSoFar(c.batch) /\ r.phases = Elements(c.begun) /\ c.rows > 0
        /\ "work" \in r.phases => c.passes > 0
        /\ c.batch \in BOOLEAN
    BY <1>2 DEF Sound, PhasesSound, Call
  <2>2. /\ Front(c.begun) \in BegunSoFar(c.batch)
        /\ Elements(Front(c.begun)) = r.phases \ {Last(c.begun)}
        /\ Last(c.begun) \in Phases
        /\ "work" \in r.phases => Last(c.begun) = "work"
        /\ Len(c.begun) = 1 => Front(c.begun) = <<>>
    BY <1>1, <2>1, PhaseLess
  <2>3. Front(c.begun) \in Seq(Phases)
    BY <2>1, <2>2, PhasesNone
  <2>4. passes \in 0..MaxPasses /\ at \in {"execute", "format"}
    <3>1. c.passes \in 0..MaxPasses
      BY <1>2 DEF Call
    <3>2. EndsPass(c) => "work" \in r.phases
      <4>1. Last(c.begun) \in Elements(c.begun)
        <5>1. c.begun \in Seq(Phases) /\ Len(c.begun) \in Nat
          BY <2>1, PhasesNone, LenProperties
        <5>2. Len(c.begun) # 0
          BY <1>1, <5>1, EmptySeq
        <5>3. QED
          BY <5>1, <5>2 DEF Last, Elements
      <4>2. QED
        BY <2>1, <4>1 DEF EndsPass
    <3>3. QED
      BY <1>2, <2>1, <3>1, <3>2, SessionsAssumption
  <2>5. Continue(t, d) /\ session' = [session EXCEPT ![c.session] = q]
        /\ UNCHANGED <<mutex, context, message>>
    BY <1>4 DEF accelerator, Mine
  <2>6. at = "format" => Len(c.begun) = 1
    BY <1>2
  <2> HIDE DEF passes, at
  <2>7. /\ d \in Call /\ d.at = at /\ d.session = c.session
        /\ d.begun = Front(c.begun) /\ d.batch = c.batch /\ d.passes = passes
        /\ d.failure = c.failure /\ d.caller = c.caller /\ d.rows = c.rows
    BY <1>2, <2>3, <2>4 DEF Call
  <2>8. /\ q \in Session /\ q.phases = r.phases \ {Last(c.begun)}
        /\ q.live = r.live /\ q.busy = r.busy /\ q.poisoned = r.poisoned
        /\ q.locked = r.locked /\ q.saved = r.saved
    BY <1>2 DEF Session, Ended
  <2> HIDE DEF d, q
  <2>9. Sound(t, accelerated, mutex, d, q, context[t], message[t])
    <3>1. PhasesSound(d, q)
      BY <2>1, <2>2, <2>4, <2>6, <2>7, <2>8, PhasesOf DEF PhasesSound
    <3>2. PoisonSound(d, q)
      BY <1>2, <2>4, <2>7, <2>8 DEF Sound, PoisonSound
    <3>3. LockSound(t, accelerated, mutex, d, q, context[t])
      BY <1>2, <2>4, <2>7, <2>8, StillLocked DEF Sound, Runs
    <3>4. QED
      BY <1>2, <2>4, <2>7, <2>8, <3>1, <3>2, <3>3 DEF Sound
  <2>10. d.at # "log" /\ (r.poisoned => q.poisoned)
    BY <2>4, <2>7, <2>8
  <2>11. QED
    BY <1>1, <1>2, <2>5, <2>7, <2>8, <2>9, <2>10, AdvanceQuietly
<1>5. QED
  BY <1>3, <1>4 DEF EndPhase

(* Answers are formatted; the next row, or the end. *)
LEMMA FormatSound ==
  ASSUME IInv, NEW t \in Threads, Format(t)
  PROVE  IInv' /\ Kept
<1> DEFINE c == Current(t)
           r == Mine(t)
           left == IF c.batch THEN 0 ELSE c.rows - 1
           at == IF left = 0 THEN "finish" ELSE "prepare"
           d == [c EXCEPT !.at = at, !.rows = left]
<1>1. /\ At(t, "format")
      /\ UNCHANGED <<accelerated, latest, calls, held, destructions>>
  BY DEF Format, model
<1>2. /\ Types /\ Working(t) /\ c.at = "format" /\ c \in Call /\ r \in Session
      /\ session = [session EXCEPT ![c.session] = r]
      /\ Sound(t, accelerated, mutex, c, r, context[t], message[t])
  BY <1>1, AtWork
<1>3. CASE Fail(t, "resource")
  BY <1>1, <1>3, FailSound
<1>4. ASSUME Continue(t, d), UNCHANGED <<session, accelerator, message>>
      PROVE  IInv' /\ Kept
  <2>1. c.rows > 0 /\ c.rows \in 0..MaxRows
    BY <1>2 DEF Sound, PhasesSound, Call
  <2>2. /\ left \in 0..MaxRows
        /\ at \in {"finish", "prepare"}
        /\ at = "prepare" => left > 0
    BY <2>1, SessionsAssumption
  <2> HIDE DEF left, at
  <2>3. /\ d \in Call /\ d.at = at /\ d.session = c.session /\ d.begun = c.begun
        /\ d.failure = c.failure /\ d.caller = c.caller /\ d.rows = left
    BY <1>2, <2>2 DEF Call
  <2>4. Continue(t, d) /\ session' = [session EXCEPT ![c.session] = r]
        /\ UNCHANGED <<mutex, context, message>>
    BY <1>2, <1>4 DEF accelerator
  <2> HIDE DEF d
  <2>5. Sound(t, accelerated, mutex, d, r, context[t], message[t])
    <3>1. PhasesSound(d, r) /\ PoisonSound(d, r)
      BY <1>2, <2>2, <2>3 DEF Sound, PhasesSound, PoisonSound
    <3>2. LockSound(t, accelerated, mutex, d, r, context[t])
      BY <1>2, <2>2, <2>3, StillLocked DEF Sound, Runs
    <3>3. QED
      BY <1>2, <2>2, <2>3, <3>1, <3>2 DEF Sound
  <2>6. d.at # "log"
    BY <2>2, <2>3
  <2>7. QED
    BY <1>1, <1>2, <2>3, <2>4, <2>5, <2>6, AdvanceQuietly
<1>5. QED
  BY <1>3, <1>4 DEF Format

(* The successful end of a call. *)
LEMMA FinishSound ==
  ASSUME IInv, NEW t \in Threads, Finish(t)
  PROVE  IInv' /\ Kept
<1> DEFINE c == Current(t)
           r == Mine(t)
           d == [c EXCEPT !.at = "release"]
<1>1. /\ At(t, "finish") /\ Unlock(t) /\ Continue(t, d) /\ UNCHANGED session
      /\ UNCHANGED <<accelerated, latest, calls, held, destructions>>
  BY DEF Finish, Goto, model
<1>2. /\ Types /\ Working(t) /\ c.at = "finish" /\ c \in Call /\ r \in Session
      /\ session = [session EXCEPT ![c.session] = r]
      /\ Sound(t, accelerated, mutex, c, r, context[t], message[t])
  BY <1>1, AtWork
<1>3. /\ \/ mutex' = mutex
         \/ mutex = t /\ mutex' = None
      /\ mutex' # t
      /\ context' \in [Threads -> Contexts]
      /\ context'[t] = c.caller
      /\ \A u \in Threads : u # t => UNCHANGED context[u]
  BY <1>1, <1>2, UnlockSound DEF Runs
<1>4. /\ message' \in [Threads -> Messages]
      /\ \A u \in Threads : u # t => UNCHANGED message[u]
  <2>1. PICK m \in {0, message[t]} : message' = [message EXCEPT ![t] = m]
    BY DEF Finish
  <2>2. m \in Messages
    BY <1>2, <2>1, SessionsAssumption DEF Types, Messages
  <2>3. QED
    BY <1>2, <2>1, <2>2 DEF Types
<1>5. /\ d \in Call /\ d.at = "release" /\ d.session = c.session /\ d.begun = c.begun
      /\ d.failure = c.failure /\ d.caller = c.caller
  BY <1>2 DEF Call
<1>6. session' = [session EXCEPT ![c.session] = r]
  BY <1>1, <1>2
<1> HIDE DEF d
<1>7. Sound(t, accelerated, mutex', d, r, context'[t], message'[t])
  <2>1. c.failure = "none"
    BY <1>2 DEF Sound, PoisonSound
  <2>2. PhasesSound(d, r) /\ PoisonSound(d, r)
    BY <1>2, <1>5, <2>1 DEF Sound, PhasesSound, PoisonSound
  <2>3. LockSound(t, accelerated, mutex', d, r, context'[t])
    BY <1>3, <1>5 DEF LockSound, Runs
  <2>4. QED
    BY <1>2, <1>5, <2>1, <2>2, <2>3 DEF Sound
<1>8. d.at # "log"
  BY <1>5
<1>9. QED
  BY <1>1, <1>2, <1>3, <1>4, <1>5, <1>6, <1>7, <1>8, Advance

-----------------------------------------------------------------------------
(* A session is given back: its call has ended, or goes on in its callback. *)
LEMMA GiveBackSound ==
  ASSUME IInv, NEW t \in Threads, At(t, "release"), NEW e \in Messages,
         session' = [session EXCEPT ![Current(t).session] = GivenBack(@, e)],
         latest' = [latest EXCEPT ![Current(t).session] = e],
         stack' \in [Threads -> Seq(Call)],
         \A u \in Threads : u # t => stack'[u] = stack[u],
         Depth(t)' \in 0..Depth(t),
         \A i \in 1..Len(stack'[t]) : stack'[t][i].at = "log" /\ <<t, i>> \in held',
         held \subseteq held', held' \subseteq Handles, held' # {} => destructions = 0,
         UNCHANGED <<accelerated, mutex, context, message, calls, destructions>>
  PROVE  IInv' /\ Kept
<1> DEFINE id == Current(t).session
           r == Mine(t)
           q == GivenBack(r, e)
<1>1. /\ Types /\ Working(t) /\ Current(t).at = "release" /\ r \in Session
      /\ id \in Ids /\ Exclusive /\ ThreadSound(t)
      /\ Sound(t, accelerated, mutex, Current(t), r, context[t], message[t])
  BY AtWork, CurrentTyped DEF IInv, Working
<1>2. /\ q \in Session /\ q.busy = FALSE /\ q.error = e /\ q.phases = r.phases
      /\ q.live = r.live /\ q.poisoned = r.poisoned
  BY <1>1 DEF Session, GivenBack
<1>3. r.phases = {} /\ r.live /\ mutex # t
  <2>1. PhasesSound(Current(t), r) /\ r.live
    BY <1>1 DEF Sound
  <2>2. LockSound(t, accelerated, mutex, Current(t), r, context[t])
    BY <1>1 DEF Sound
  <2>3. mutex # t
    BY <1>1, <2>2 DEF LockSound, Runs
  <2>4. QED
    BY <1>1, <2>1, <2>3 DEF PhasesSound
<1>4. /\ session' \in [Ids -> Session] /\ session'[id] = q
      /\ \A s \in Ids : s # id => session'[s] = session[s]
  <2>1. session' = [session EXCEPT ![id] = q]
    BY DEF Mine
  <2>2. QED
    BY <1>1, <1>2, <2>1 DEF Types
<1>5. /\ latest' \in [Ids -> Messages] /\ latest'[id] = e
      /\ \A s \in Ids : s # id => latest'[s] = latest[s]
  BY <1>1 DEF Types
<1> HIDE DEF q
<1>6. Types'
  BY <1>1, <1>4, <1>5 DEF Types
<1>7. ~Working(t)'
  <2>1. Len(stack'[t]) \in Nat
    BY LenProperties
  <2>2. ASSUME Len(stack'[t]) > 0
        PROVE  stack'[t][Len(stack'[t])].at = "log"
    <3>1. Len(stack'[t]) \in 1..Len(stack'[t])
      BY <2>1, <2>2
    <3>2. QED
      BY <3>1
  <2>3. QED
    BY <2>2 DEF Working, Depth, Current
<1>8. ThreadSound(t)'
  <2>1. Depth(t) \in Nat /\ Depth(t) <= MaxNesting
    BY <1>1, CurrentTyped DEF ThreadSound
  <2>2. (Depth(t) <= MaxNesting)'
    BY <2>1, SessionsAssumption
  <2>3. /\ (\A i \in 1..Depth(t) : i < Depth(t) => stack[t][i].at = "log")'
        /\ (\A i \in 1..Depth(t) : stack[t][i].at = "log" => <<t, i>> \in held)'
    BY DEF Depth
  <2>4. (mutex # t)'
    BY <1>3
  <2>5. QED
    BY <1>7, <2>2, <2>3, <2>4 DEF ThreadSound
<1>9. ASSUME NEW u \in Threads, u # t
      PROVE  /\ ThreadSound(u)'
             /\ \A s \in Ids : WorksOn(u, s)' <=> WorksOn(u, s)
             /\ ~WorksOn(u, id)
  <2>1. ~WorksOn(u, id)
    BY <1>1, <1>9 DEF Exclusive, WorksOn
  <2>2. ASSUME Working(u)
        PROVE  session'[Current(u).session] = session[Current(u).session]
    <3>1. Current(u).session \in Ids
      BY <1>1, <2>2, CurrentTyped DEF Working
    <3>2. QED
      BY <1>4, <2>1, <2>2, <3>1 DEF WorksOn
  <2>3. ThreadSound(u)
    BY DEF IInv
  <2>4. ThreadSound(u)' /\ Working(u)' = Working(u) /\ Current(u)' = Current(u)
    <3>1. /\ UNCHANGED <<accelerated, stack[u]>>
          /\ Working(u) => /\ UNCHANGED <<context[u], message[u]>>
                           /\ session'[Current(u).session] = session[Current(u).session]
          /\ mutex' = u <=> mutex = u
          /\ \A i \in 1..Depth(u) : <<u, i>> \in held => <<u, i>> \in held'
      BY <1>9, <2>2
    <3>2. QED
      BY <2>3, <3>1, ThreadKept
  <2>5. QED
    BY <2>1, <2>4 DEF WorksOn
<1>10. Exclusive'
  BY <1>1, <1>7, <1>9 DEF Exclusive, WorksOn
<1>11. ASSUME NEW s \in Ids
       PROVE  SessionSound(s)' /\ (session[s].poisoned => session'[s].poisoned)
  <2>1. SessionSound(s)
    BY DEF IInv
  <2>2. CASE s = id
    <3>1. session[s] = r
      BY <2>2 DEF Mine
    <3>2. /\ s \in held'
          /\ session'[s].live /\ ~session'[s].busy /\ session'[s].phases = {}
          /\ session'[s].error = latest'[s]
          /\ session[s].poisoned => session'[s].poisoned
      BY <1>2, <1>3, <1>4, <1>5, <2>1, <2>2, <3>1 DEF SessionSound
    <3>3. QED
      BY <3>2 DEF SessionSound
  <2>3. CASE s # id
    <3>1. UNCHANGED <<session[s], latest[s]>>
      BY <1>4, <1>5, <2>3
    <3>2. ~WorksOn(t, s)
      BY <2>3 DEF WorksOn
    <3>3. (\A u \in Threads : ~WorksOn(u, s))' => \A u \in Threads : ~WorksOn(u, s)
      BY <1>9, <3>2
    <3>4. QED
      BY <2>1, <3>1, <3>3 DEF SessionSound
  <2>4. QED
    BY <2>2, <2>3
<1>12. IInv'
  BY <1>6, <1>8, <1>9, <1>10, <1>11 DEF IInv
<1>13. QED
  BY <1>11, <1>12 DEF Kept

(* jb_session_release of a call that succeeded. *)
LEMMA ReleaseSucceededSound ==
  ASSUME IInv, NEW t \in Threads, ReleaseSucceeded(t)
  PROVE  IInv' /\ Kept
<1>1. /\ Types /\ Working(t) /\ ThreadSound(t)
      /\ stack[t] \in Seq(Call) /\ Depth(t) \in Nat /\ Depth(t) > 0
  BY AtWork, CurrentTyped DEF ReleaseSucceeded, IInv, Working
<1> DEFINE p == SubSeq(stack[t], 1, Depth(t) - 1)
<1>2. /\ p \in Seq(Call) /\ Len(p) = Depth(t) - 1
      /\ \A i \in 1..Len(p) : p[i] = stack[t][i]
  BY <1>1, TopPopped DEF Depth
<1>3. stack' = [stack EXCEPT ![t] = p]
  BY DEF ReleaseSucceeded, Return
<1> HIDE DEF p
<1>4. /\ stack' \in [Threads -> Seq(Call)] /\ stack'[t] = p
      /\ \A u \in Threads : u # t => stack'[u] = stack[u]
  BY <1>1, <1>2, <1>3 DEF Types
<1>5. Depth(t)' \in 0..Depth(t)
  BY <1>1, <1>2, <1>4 DEF Depth
<1>6. \A i \in 1..Len(stack'[t]) : stack'[t][i].at = "log" /\ <<t, i>> \in held
  BY <1>1, <1>2, <1>4 DEF ThreadSound
<1>7. /\ held \subseteq Handles /\ (held # {} => destructions = 0) /\ 0 \in Messages
  BY <1>1, SessionsAssumption DEF IInv, Types, Messages
<1>8. /\ At(t, "release")
      /\ session' = [session EXCEPT ![Current(t).session] = GivenBack(@, 0)]
      /\ latest' = [latest EXCEPT ![Current(t).session] = 0]
      /\ UNCHANGED <<accelerated, mutex, context, message, calls, held, destructions>>
  BY DEF ReleaseSucceeded, accelerator, model
<1>9. /\ \A i \in 1..Len(stack'[t]) : stack'[t][i].at = "log" /\ <<t, i>> \in held'
      /\ held \subseteq held' /\ held' \subseteq Handles /\ (held' # {} => destructions = 0)
  BY <1>6, <1>7, <1>8
<1>10. QED
  BY <1>4, <1>5, <1>7, <1>8, <1>9, GiveBackSound

(* jb_session_release of a call that failed, up to the callback. *)
LEMMA ReleaseFailedSound ==
  ASSUME IInv, NEW t \in Threads, ReleaseFailed(t)
  PROVE  IInv' /\ Kept
<1> DEFINE c == Current(t)
           d == [c EXCEPT !.at = "log"]
           h == <<t, Depth(t)>>
<1>1. /\ At(t, "release") /\ c.failure # "none"
      /\ session' = [session EXCEPT ![c.session] = GivenBack(@, message[t])]
      /\ latest' = [latest EXCEPT ![c.session] = c.number]
      /\ held # {} /\ held' = held \cup {h}
      /\ stack' = [stack EXCEPT ![t][Depth(t)] = d]
      /\ UNCHANGED <<accelerated, mutex, context, message, calls, destructions>>
  BY DEF ReleaseFailed, Goto, Continue, Model!Acquire, Transient, accelerator
<1>2. /\ Types /\ Working(t) /\ ThreadSound(t) /\ c \in Call /\ c.at = "release"
      /\ stack[t] \in Seq(Call) /\ Depth(t) \in Nat /\ Depth(t) > 0
      /\ Sound(t, accelerated, mutex, c, Mine(t), context[t], message[t])
  BY <1>1, AtWork, CurrentTyped DEF IInv, Working
<1>3. message[t] = c.number /\ message[t] \in Messages
  BY <1>1, <1>2 DEF Sound, Types
<1>4. d \in Call /\ d.at = "log"
  BY <1>2 DEF Call
<1> DEFINE p == [stack[t] EXCEPT ![Len(stack[t])] = d]
<1> HIDE DEF d
<1>5. /\ p \in Seq(Call) /\ Len(p) = Len(stack[t]) /\ p[Len(p)] = d
      /\ \A i \in 1..Len(p) : i < Len(p) => p[i] = stack[t][i]
  BY <1>2, <1>4, TopReplaced DEF Depth
<1>6. stack' = [stack EXCEPT ![t] = p]
  BY <1>1 DEF Depth
<1> HIDE DEF p
<1>7. /\ stack' \in [Threads -> Seq(Call)] /\ stack'[t] = p
      /\ \A u \in Threads : u # t => stack'[u] = stack[u]
  BY <1>2, <1>5, <1>6 DEF Types
<1>8. Depth(t)' \in 0..Depth(t) /\ Len(p) = Depth(t)
  BY <1>2, <1>5, <1>7 DEF Depth
<1>9. ASSUME NEW i \in 1..Len(stack'[t])
      PROVE  stack'[t][i].at = "log" /\ <<t, i>> \in held'
  <2>1. CASE i = Depth(t)
    BY <1>1, <1>4, <1>5, <1>7, <1>8, <2>1
  <2>2. CASE i # Depth(t)
    <3>1. i \in 1..Depth(t) /\ i < Depth(t) /\ stack'[t][i] = stack[t][i]
      BY <1>2, <1>5, <1>7, <1>8, <2>2
    <3>2. QED
      BY <1>1, <1>2, <3>1 DEF ThreadSound
  <2>3. QED
    BY <2>1, <2>2
<1>10. /\ held \subseteq held' /\ held' \subseteq Handles /\ (held' # {} => destructions = 0)
  <2>1. Depth(t) \in 1..MaxNesting
    BY <1>2, SessionsAssumption DEF ThreadSound
  <2>2. h \in Handles
    BY <2>1 DEF Handles
  <2>3. destructions = 0
    BY <1>1 DEF IInv
  <2>4. QED
    BY <1>1, <1>2, <2>2, <2>3 DEF Types
<1>11. /\ session' = [session EXCEPT ![c.session] = GivenBack(@, message[t])]
       /\ latest' = [latest EXCEPT ![c.session] = message[t]]
  BY <1>1, <1>3
<1>12. QED
  BY <1>1, <1>3, <1>7, <1>8, <1>9, <1>10, <1>11, GiveBackSound

(* The callback returns. *)
LEMMA LoggedSound ==
  ASSUME IInv, NEW t \in Threads, Logged(t)
  PROVE  IInv' /\ Kept
<1>1. /\ At(t, "log") /\ held' = held \ {<<t, Depth(t)>>}
      /\ stack' = [stack EXCEPT ![t] = SubSeq(@, 1, Depth(t) - 1)]
      /\ UNCHANGED <<accelerated, session, mutex, context, message, latest, calls, destructions>>
  BY DEF Logged, Model!Drop, Transient, Return, accelerator
<1>2. /\ Types /\ Exclusive /\ ThreadSound(t) /\ ~Working(t)
      /\ stack[t] \in Seq(Call) /\ Depth(t) \in Nat /\ Depth(t) > 0
  BY <1>1, CurrentTyped DEF IInv, At, Working
<1> DEFINE p == SubSeq(stack[t], 1, Depth(t) - 1)
<1>3. /\ p \in Seq(Call) /\ Len(p) = Depth(t) - 1
      /\ \A i \in 1..Len(p) : p[i] = stack[t][i]
  BY <1>2, TopPopped DEF Depth
<1>4. stack' = [stack EXCEPT ![t] = p]
  BY <1>1
<1> HIDE DEF p
<1>5. /\ stack' \in [Threads -> Seq(Call)] /\ stack'[t] = p
      /\ \A u \in Threads : u # t => stack'[u] = stack[u]
  BY <1>2, <1>3, <1>4 DEF Types
<1>6. Types'
  BY <1>1, <1>2, <1>5 DEF Types
<1>7. /\ Depth(t)' = Depth(t) - 1
      /\ \A i \in 1..(Depth(t) - 1) :
           /\ stack'[t][i].at = "log"
           /\ <<t, i>> \in held'
  <2>1. Depth(t)' = Depth(t) - 1
    BY <1>3, <1>5 DEF Depth
  <2>2. ASSUME NEW i \in 1..(Depth(t) - 1)
        PROVE  stack'[t][i].at = "log" /\ <<t, i>> \in held'
    <3>1. i \in 1..Depth(t) /\ i < Depth(t) /\ i # Depth(t)
      BY <1>2
    <3>2. stack'[t][i] = stack[t][i]
      BY <1>3, <1>5
    <3>3. stack[t][i].at = "log" /\ <<t, i>> \in held
      BY <1>2, <3>1 DEF ThreadSound
    <3>4. QED
      BY <1>1, <3>1, <3>2, <3>3
  <2>3. QED
    BY <2>1, <2>2
<1>8. ~Working(t)'
  <2>1. ASSUME Depth(t) - 1 > 0
        PROVE  stack'[t][Depth(t) - 1].at = "log"
    <3>1. Depth(t) - 1 \in 1..(Depth(t) - 1)
      BY <1>2, <2>1
    <3>2. QED
      BY <1>7, <3>1
  <2>2. Current(t)' = stack'[t][Depth(t) - 1]
    BY <1>7 DEF Current
  <2>3. QED
    BY <1>7, <2>1, <2>2 DEF Working
<1>9. ThreadSound(t)'
  <2>1. (Depth(t) <= MaxNesting)'
    BY <1>2, <1>7, SessionsAssumption DEF ThreadSound
  <2>2. (mutex # t)'
    BY <1>1, <1>2 DEF ThreadSound
  <2>3. QED
    BY <1>7, <1>8, <2>1, <2>2 DEF ThreadSound
<1>10. ASSUME NEW u \in Threads, u # t
       PROVE  /\ ThreadSound(u)'
              /\ \A s \in Ids : WorksOn(u, s)' <=> WorksOn(u, s)
  <2>1. ThreadSound(u)
    BY DEF IInv
  <2>2. /\ UNCHANGED <<accelerated, stack[u]>>
        /\ Working(u) => /\ UNCHANGED <<context[u], message[u]>>
                         /\ session'[Current(u).session] = session[Current(u).session]
        /\ mutex' = u <=> mutex = u
        /\ \A i \in 1..Depth(u) : <<u, i>> \in held => <<u, i>> \in held'
    BY <1>1, <1>5, <1>10
  <2>3. ThreadSound(u)' /\ Working(u)' = Working(u) /\ Current(u)' = Current(u)
    BY <2>1, <2>2, ThreadKept
  <2>4. QED
    BY <2>3 DEF WorksOn
<1>11. \A u \in Threads, s \in Ids : WorksOn(u, s)' <=> WorksOn(u, s)
  BY <1>2, <1>8, <1>10 DEF WorksOn
<1>12. Exclusive'
  BY <1>2, <1>11 DEF Exclusive
<1>13. ASSUME NEW s \in Ids
       PROVE  SessionSound(s)'
  <2>1. SessionSound(s)
    BY DEF IInv
  <2>2. s # <<t, Depth(t)>>
    <3>1. Depth(t) \in 1..MaxNesting
      BY <1>2, SessionsAssumption DEF ThreadSound
    <3>2. QED
      BY <3>1, SessionsAssumption
  <2>3. s \in held => s \in held'
    BY <1>1, <2>2
  <2>4. QED
    BY <1>1, <1>11, <2>1, <2>3 DEF SessionSound
<1>14. (held # {} => destructions = 0)'
  BY <1>1 DEF IInv
<1>15. IInv'
  BY <1>6, <1>9, <1>10, <1>12, <1>13, <1>14 DEF IInv
<1>16. QED
  BY <1>1, <1>15 DEF Kept

-----------------------------------------------------------------------------
(* A thread that may make a call has no session of its own at work. *)
LEMMA NotWorking ==
  ASSUME NEW t \in Threads, MayCall(t)
  PROVE  ~Working(t)
  BY DEF MayCall, At, Working

(* The working calls on a session are those inside it. *)
LEMMA InsideIsWorking ==
  ASSUME IInv, NEW s \in Ids
  PROVE  /\ \A t \in Threads : WorksOn(t, s) => <<t, Depth(t)>> \in Inside(s)
         /\ \A f \in Inside(s) : f[1] \in Threads /\ f[2] = Depth(f[1]) /\ WorksOn(f[1], s)
<1>1. ASSUME NEW t \in Threads, WorksOn(t, s)
      PROVE  <<t, Depth(t)>> \in Inside(s)
  <2>1. Depth(t) \in Nat /\ Depth(t) <= MaxNesting /\ Depth(t) > 0
    BY <1>1, CurrentTyped DEF IInv, ThreadSound, WorksOn, Working
  <2>2. Depth(t) \in 1..MaxNesting
    BY <2>1, SessionsAssumption
  <2>3. stack[t][Depth(t)].session = s /\ stack[t][Depth(t)].at # "log"
    BY <1>1 DEF WorksOn, Working, Current
  <2>4. QED
    BY <2>1, <2>2, <2>3 DEF Inside
<1>2. ASSUME NEW f \in Inside(s)
      PROVE  f[1] \in Threads /\ f[2] = Depth(f[1]) /\ WorksOn(f[1], s)
  <2>1. PICK t \in Threads, i \in 1..MaxNesting :
          f = <<t, i>> /\ i <= Depth(t) /\ stack[t][i].session = s /\ stack[t][i].at # "log"
    BY DEF Inside
  <2>2. Depth(t) \in Nat /\ ThreadSound(t)
    BY CurrentTyped DEF IInv
  <2>3. i \in 1..Depth(t)
    BY <2>1, <2>2
  <2>4. i = Depth(t)
    BY <2>1, <2>2, <2>3 DEF ThreadSound
  <2>5. WorksOn(t, s)
    BY <2>1, <2>2, <2>3, <2>4 DEF WorksOn, Working, Current
  <2>6. QED
    BY <2>1, <2>4, <2>5
<1>3. QED
  BY <1>1, <1>2

(* A step made outside calls, which disturbs no session at work. *)
LEMMA OutsideSound ==
  ASSUME IInv, Types',
         UNCHANGED <<accelerated, stack, mutex>>,
         \A u \in Threads :
           Working(u) => /\ UNCHANGED <<context[u], message[u]>>
                         /\ session'[Current(u).session] = session[Current(u).session],
         \A u \in Threads : \A i \in 1..Depth(u) : <<u, i>> \in held => <<u, i>> \in held',
         \A s \in Ids :
           \/ UNCHANGED <<session[s], latest[s]>> /\ (s \in held => s \in held')
           \/ /\ session'[s].live => s \in held'
              /\ ~session'[s].poisoned /\ ~session'[s].busy
              /\ session'[s].phases = {} /\ session'[s].error = latest'[s],
         held' # {} => destructions' = 0
  PROVE  IInv'
<1>1. ASSUME NEW u \in Threads
      PROVE  ThreadSound(u)' /\ \A s \in Ids : WorksOn(u, s)' <=> WorksOn(u, s)
  <2>1. ThreadSound(u) /\ UNCHANGED stack[u] /\ (mutex' = u <=> mutex = u)
    BY DEF IInv
  <2>2. ThreadSound(u)' /\ Working(u)' = Working(u) /\ Current(u)' = Current(u)
    BY <2>1, ThreadKept
  <2>3. QED
    BY <2>2 DEF WorksOn
<1>2. Exclusive'
  BY <1>1 DEF IInv, Exclusive
<1>3. ASSUME NEW s \in Ids
      PROVE  SessionSound(s)'
  <2>1. SessionSound(s)
    BY DEF IInv
  <2>2. (\A t \in Threads : ~WorksOn(t, s))' => \A t \in Threads : ~WorksOn(t, s)
    BY <1>1
  <2>3. QED
    BY <2>1, <2>2 DEF SessionSound
<1>4. QED
  BY <1>1, <1>2, <1>3 DEF IInv

(* The references of calls and those of sessions are not the same. *)
LEMMA HandlesApart ==
  ASSUME IInv, NEW u \in Threads, NEW i \in 1..Depth(u)
  PROVE  <<u, i>> # Caller /\ <<u, i>> \notin Ids
<1>1. i \in 1..MaxNesting
  BY CurrentTyped, SessionsAssumption DEF IInv, ThreadSound
<1>2. QED
  BY <1>1, SessionsAssumption

LEMMA FreshTyped == Fresh \in Session
  BY SessionsAssumption DEF Fresh, Session, Messages, Contexts

LEMMA CreateSound ==
  ASSUME IInv, NEW t \in Threads, NEW s \in Ids, Create(t, s)
  PROVE  IInv' /\ Kept
<1>1. /\ ~session[s].live /\ held # {} /\ held' = held \cup {s}
      /\ session' = [session EXCEPT ![s] = Fresh]
      /\ latest' = [latest EXCEPT ![s] = 0]
      /\ message' = [message EXCEPT ![t] = 0]
      /\ UNCHANGED <<accelerated, mutex, context, stack, calls, destructions>>
  BY DEF Create, Model!Acquire, accelerator
<1>2. Types /\ ~Working(t)
  BY NotWorking DEF IInv, Create
<1>3. Fresh \in Session /\ 0 \in Messages
  BY FreshTyped, SessionsAssumption DEF Messages
<1>4. Types'
  BY <1>1, <1>2, <1>3 DEF Types, Handles
<1>5. ASSUME NEW u \in Threads, Working(u)
      PROVE  /\ UNCHANGED <<context[u], message[u]>>
             /\ session'[Current(u).session] = session[Current(u).session]
  <2>1. Current(u).session \in Ids
    BY <1>2, <1>5, CurrentTyped DEF Working
  <2>2. Mine(u).live
    BY <1>5 DEF IInv, ThreadSound, Sound
  <2>3. Current(u).session # s /\ u # t
    BY <1>1, <1>2, <1>5, <2>2 DEF Mine
  <2>4. QED
    BY <1>1, <1>2, <2>1, <2>3 DEF Types
<1>6. ASSUME NEW x \in Ids
      PROVE  \/ UNCHANGED <<session[x], latest[x]>> /\ (x \in held => x \in held')
             \/ /\ session'[x].live => x \in held'
                /\ ~session'[x].poisoned /\ ~session'[x].busy
                /\ session'[x].phases = {} /\ session'[x].error = latest'[x]
  <2>1. CASE x = s
    <3>1. session'[x] = Fresh /\ latest'[x] = 0 /\ x \in held'
      BY <1>1, <1>2, <2>1 DEF Types
    <3>2. QED
      BY <3>1 DEF Fresh
  <2>2. CASE x # s
    BY <1>1, <1>2, <2>2 DEF Types
  <2>3. QED
    BY <2>1, <2>2
<1>7. held' # {} => destructions' = 0
  BY <1>1 DEF IInv
<1>8. \A u \in Threads : \A i \in 1..Depth(u) : <<u, i>> \in held => <<u, i>> \in held'
  BY <1>1
<1>9. IInv'
  BY <1>1, <1>4, <1>5, <1>6, <1>7, <1>8, OutsideSound
<1>10. Kept
  <2>1. ASSUME NEW x \in Ids, session[x].poisoned
        PROVE  x # s
    BY <1>1, <2>1 DEF IInv, SessionSound
  <2>2. QED
    BY <1>1, <1>2, <2>1 DEF Kept, Types
<1>11. QED
  BY <1>9, <1>10

LEMMA SessionFreeSound ==
  ASSUME IInv, NEW t \in Threads, NEW s \in Ids, SessionFree(t, s)
  PROVE  IInv' /\ Kept
<1> DEFINE q == [Fresh EXCEPT !.live = FALSE]
<1>1. /\ Inside(s) = {} /\ held' = held \ {s}
      /\ session' = [session EXCEPT ![s] = q]
      /\ latest' = [latest EXCEPT ![s] = 0]
      /\ UNCHANGED <<accelerated, mutex, message, stack, calls, destructions>>
  BY DEF SessionFree, Model!Drop
<1>2. PICK x \in {context[t], "cuda"} : context' = [context EXCEPT ![t] = x]
  BY DEF SessionFree
<1>3. Types /\ ~Working(t)
  BY NotWorking DEF IInv, SessionFree
<1>4. /\ q \in Session /\ q.live = FALSE /\ q.poisoned = FALSE /\ q.busy = FALSE
      /\ q.phases = {} /\ q.error = 0 /\ 0 \in Messages
  <2>1. /\ Fresh \in Session /\ Fresh.poisoned = FALSE /\ Fresh.busy = FALSE
        /\ Fresh.phases = {} /\ Fresh.error = 0
    BY FreshTyped DEF Fresh
  <2>2. QED
    BY <2>1, SessionsAssumption DEF Session, Messages
<1> HIDE DEF q
<1>5. Types'
  <2>1. x \in Contexts
    BY <1>3 DEF Types, Contexts
  <2>2. context' \in [Threads -> Contexts]
    BY <1>2, <1>3, <2>1 DEF Types
  <2>3. QED
    BY <1>1, <1>3, <1>4, <2>2 DEF Types
<1>6. ASSUME NEW u \in Threads, Working(u)
      PROVE  /\ UNCHANGED <<context[u], message[u]>>
             /\ session'[Current(u).session] = session[Current(u).session]
  <2>1. Current(u).session \in Ids
    BY <1>3, <1>6, CurrentTyped DEF Working
  <2>2. Current(u).session # s
    BY <1>1, <1>6, InsideIsWorking DEF WorksOn
  <2>3. u # t
    BY <1>3, <1>6
  <2>4. QED
    BY <1>1, <1>2, <1>3, <2>1, <2>2, <2>3 DEF Types
<1>7. ASSUME NEW y \in Ids
      PROVE  \/ UNCHANGED <<session[y], latest[y]>> /\ (y \in held => y \in held')
             \/ /\ session'[y].live => y \in held'
                /\ ~session'[y].poisoned /\ ~session'[y].busy
                /\ session'[y].phases = {} /\ session'[y].error = latest'[y]
  <2>1. CASE y = s
    <3>1. session'[y] = q /\ latest'[y] = 0
      BY <1>1, <1>3, <2>1 DEF Types
    <3>2. QED
      BY <1>4, <3>1
  <2>2. CASE y # s
    BY <1>1, <1>3, <2>2 DEF Types
  <2>3. QED
    BY <2>1, <2>2
<1>8. held' # {} => destructions' = 0
  BY <1>1 DEF IInv
<1>9. \A u \in Threads : \A i \in 1..Depth(u) : <<u, i>> \in held => <<u, i>> \in held'
  BY <1>1, HandlesApart
<1>10. IInv'
  BY <1>1, <1>5, <1>6, <1>7, <1>8, <1>9, OutsideSound
<1>11. Kept
  BY <1>1, <1>3, <1>4 DEF Kept, Types
<1>12. QED
  BY <1>10, <1>11

(* The caller gives up its own reference. *)
LEMMA ModelFreeSound ==
  ASSUME IInv, NEW t \in Threads, ModelFree(t)
  PROVE  IInv' /\ Kept
<1>1. /\ held' = held \ {Caller}
      /\ UNCHANGED <<accelerated, session, mutex, context, message, stack, latest, calls,
                     destructions>>
  BY DEF ModelFree, Model!Drop, accelerator
<1>2. Types'
  BY <1>1 DEF IInv, Types
<1>3. \A u \in Threads : \A i \in 1..Depth(u) : <<u, i>> \in held => <<u, i>> \in held'
  BY <1>1, HandlesApart
<1>4. \A s \in Ids : s \in held => s \in held'
  BY <1>1, SessionsAssumption
<1>5. held' # {} => destructions' = 0
  BY <1>1 DEF IInv
<1>6. IInv'
  BY <1>1, <1>2, <1>3, <1>4, <1>5, OutsideSound
<1>7. QED
  BY <1>1, <1>6 DEF Kept

LEMMA ModelDestroySound ==
  ASSUME IInv, ModelDestroy
  PROVE  IInv' /\ Kept
<1>1. /\ held = {} /\ held' = {} /\ destructions' = 1
      /\ UNCHANGED <<accelerated, session, mutex, context, message, stack, latest, calls>>
  BY DEF ModelDestroy, Model!Destroy, accelerator
<1>2. Types'
  BY <1>1 DEF IInv, Types
<1>3. IInv'
  BY <1>1, <1>2, OutsideSound
<1>4. QED
  BY <1>1, <1>3 DEF Kept

(* A decide call finds the session busy, or takes it. *)
LEMMA DecideSound ==
  ASSUME IInv, NEW t \in Threads, NEW s \in Ids, Decide(t, s)
  PROVE  IInv' /\ Kept
<1>1. /\ MayCall(t) /\ Depth(t) < MaxNesting /\ calls < MaxCalls /\ calls' = calls + 1
      /\ session[s].live
      /\ UNCHANGED <<accelerated, mutex, context, latest, held, destructions>>
  BY DEF Decide, accelerator, model
<1>2. /\ Types /\ Exclusive /\ ThreadSound(t) /\ ~Working(t)
      /\ stack[t] \in Seq(Call) /\ Depth(t) \in Nat /\ session[s] \in Session
  BY <1>1, NotWorking, CurrentTyped DEF IInv, Types
<1>3. calls' \in 1..MaxCalls /\ calls' \in Messages
  BY <1>1, <1>2, SessionsAssumption DEF Types, Messages
<1>4. ASSUME message' = [message EXCEPT ![t] = calls'], UNCHANGED <<session, stack>>
      PROVE  IInv' /\ Kept
  <2>1. Types'
    BY <1>1, <1>2, <1>3, <1>4 DEF Types
  <2>2. \A u \in Threads : Working(u) => UNCHANGED message[u]
    BY <1>2, <1>4 DEF Types
  <2>3. held' # {} => destructions' = 0
    BY <1>1 DEF IInv
  <2>4. IInv'
    BY <1>1, <1>4, <2>1, <2>2, <2>3, OutsideSound
  <2>5. QED
    BY <1>4, <2>4 DEF Kept
<1>5. ASSUME ~session[s].busy,
             session' = [session EXCEPT ![s].busy = TRUE],
             stack' = [stack EXCEPT ![t] = Append(@, Started(s, calls', context[t]))],
             UNCHANGED message
      PROVE  IInv' /\ Kept
  <2> DEFINE c == Started(s, calls', context[t])
             q == [session[s] EXCEPT !.busy = TRUE]
             p == Append(stack[t], c)
  <2>1. /\ c \in Call /\ c.session = s /\ c.at = "ready" /\ c.begun = <<>>
        /\ c.failure = "none" /\ c.caller = context[t]
    BY <1>2, <1>3, SessionsAssumption DEF Types, Started, Call
  <2>2. /\ q \in Session /\ q.busy = TRUE /\ q.live = session[s].live
        /\ q.phases = session[s].phases /\ q.poisoned = session[s].poisoned
    BY <1>2 DEF Session
  <2> HIDE DEF c
  <2>3. /\ p \in Seq(Call) /\ Len(p) = Depth(t) + 1 /\ p[Len(p)] = c
        /\ \A i \in 1..Len(p) : i < Len(p) => p[i] = stack[t][i]
    BY <1>2, <2>1, TopPushed DEF Depth
  <2>4. stack' = [stack EXCEPT ![t] = p]
    BY <1>5 DEF c
  <2> HIDE DEF p
  <2>5. /\ stack' \in [Threads -> Seq(Call)] /\ stack'[t] = p
        /\ \A u \in Threads : u # t => stack'[u] = stack[u]
    BY <1>2, <2>3, <2>4 DEF Types
  <2>6. /\ session' \in [Ids -> Session] /\ session'[s] = q
        /\ \A x \in Ids : x # s => session'[x] = session[x]
    <3>1. session' = [session EXCEPT ![s] = q]
      BY <1>5
    <3>2. QED
      BY <1>2, <2>2, <3>1 DEF Types
  <2> HIDE DEF q
  <2>7. Types'
    BY <1>1, <1>2, <1>3, <1>5, <2>5, <2>6 DEF Types
  <2>8. /\ Depth(t)' = Depth(t) + 1 /\ Current(t)' = c
        /\ Working(t)' /\ WorksOn(t, s)'
        /\ \A x \in Ids : x # s => ~WorksOn(t, x)'
    BY <1>2, <2>1, <2>3, <2>5 DEF Depth, Current, Working, WorksOn
  <2>9. \A u \in Threads : ~WorksOn(u, s)
    BY <1>5 DEF IInv, ThreadSound, Sound, WorksOn, Mine
  <2>10. session[s].phases = {} /\ session[s].live
    BY <1>1, <2>9 DEF IInv, SessionSound
  <2>11. ThreadSound(t)'
    <3>1. (Depth(t) <= MaxNesting)'
      BY <1>1, <1>2, <2>8, SessionsAssumption
    <3>2. ASSUME NEW i \in 1..(Depth(t) + 1)
          PROVE  /\ i < Depth(t) + 1 => stack'[t][i].at = "log"
                 /\ stack'[t][i].at = "log" => <<t, i>> \in held'
      <4>1. CASE i = Depth(t) + 1
        BY <1>2, <2>1, <2>3, <2>5, <4>1
      <4>2. CASE i # Depth(t) + 1
        <5>1. i \in 1..Depth(t) /\ i < Depth(t) + 1
          BY <1>2, <4>2
        <5>2. stack'[t][i] = stack[t][i]
          BY <2>3, <2>5, <5>1
        <5>3. stack[t][i].at = "log"
          <6>1. CASE i = Depth(t)
            BY <1>1, <1>2, <5>1, <6>1 DEF MayCall, At, Current
          <6>2. CASE i # Depth(t)
            BY <1>2, <5>1, <6>2 DEF ThreadSound
          <6>3. QED
            BY <6>1, <6>2
        <5>4. QED
          BY <1>1, <1>2, <5>1, <5>2, <5>3 DEF ThreadSound
      <4>3. QED
        BY <4>1, <4>2
    <3>3. /\ (\A i \in 1..Depth(t) : i < Depth(t) => stack[t][i].at = "log")'
          /\ (\A i \in 1..Depth(t) : stack[t][i].at = "log" => <<t, i>> \in held)'
      BY <2>8, <3>2
    <3>4. (Sound(t, accelerated, mutex, Current(t), Mine(t), context[t], message[t]))'
      <4>1. Mine(t)' = q
        BY <2>1, <2>6, <2>8 DEF Mine
      <4>2. PhasesSound(c, q) /\ PoisonSound(c, q)
        BY <2>1, <2>2, <2>10 DEF PhasesSound, PoisonSound
      <4>3. LockSound(t, accelerated, mutex, c, q, context[t])
        <5>1. mutex # t
          BY <1>2 DEF ThreadSound
        <5>2. QED
          BY <2>1, <5>1 DEF LockSound, Runs
      <4>4. Sound(t, accelerated, mutex, c, q, context[t], message[t])
        BY <2>1, <2>2, <2>10, <4>2, <4>3 DEF Sound
      <4>5. QED
        BY <1>1, <1>5, <2>8, <4>1, <4>4
    <3>5. QED
      BY <2>8, <3>1, <3>3, <3>4 DEF ThreadSound
  <2>12. ASSUME NEW u \in Threads, u # t
         PROVE  /\ ThreadSound(u)'
                /\ \A x \in Ids : WorksOn(u, x)' <=> WorksOn(u, x)
    <3>1. ASSUME Working(u)
          PROVE  session'[Current(u).session] = session[Current(u).session]
      <4>1. Current(u).session \in Ids
        BY <1>2, <3>1, CurrentTyped DEF Working
      <4>2. QED
        BY <2>6, <2>9, <3>1, <4>1 DEF WorksOn
    <3>2. ThreadSound(u)
      BY DEF IInv
    <3>3. /\ UNCHANGED <<accelerated, stack[u]>>
          /\ Working(u) => /\ UNCHANGED <<context[u], message[u]>>
                           /\ session'[Current(u).session] = session[Current(u).session]
          /\ mutex' = u <=> mutex = u
          /\ \A i \in 1..Depth(u) : <<u, i>> \in held => <<u, i>> \in held'
      BY <1>1, <1>5, <2>5, <2>12, <3>1
    <3>4. ThreadSound(u)' /\ Working(u)' = Working(u) /\ Current(u)' = Current(u)
      BY <3>2, <3>3, ThreadKept
    <3>5. QED
      BY <3>4 DEF WorksOn
  <2>13. Exclusive'
    <3>1. ASSUME NEW x \in Ids, NEW u \in Threads, NEW v \in Threads,
                 WorksOn(u, x)', WorksOn(v, x)'
          PROVE  u = v
      BY <1>2, <2>8, <2>9, <2>12, <3>1 DEF Exclusive
    <3>2. QED
      BY <3>1 DEF Exclusive
  <2>14. ASSUME NEW x \in Ids
         PROVE  SessionSound(x)' /\ (session[x].poisoned => session'[x].poisoned)
    <3>1. SessionSound(x)
      BY DEF IInv
    <3>2. CASE x = s
      BY <1>1, <2>2, <2>6, <2>8, <3>1, <3>2 DEF SessionSound
    <3>3. CASE x # s
      <4>1. ~WorksOn(t, x)
        BY <1>2 DEF WorksOn
      <4>2. (\A u \in Threads : ~WorksOn(u, x))' => \A u \in Threads : ~WorksOn(u, x)
        BY <2>12, <4>1
      <4>3. UNCHANGED <<session[x], latest[x], held>>
        BY <1>1, <2>6, <3>3
      <4>4. QED
        BY <3>1, <4>2, <4>3 DEF SessionSound
    <3>4. QED
      BY <3>2, <3>3
  <2>15. (held # {} => destructions = 0)'
    BY <1>1 DEF IInv
  <2>16. IInv'
    BY <2>7, <2>11, <2>12, <2>13, <2>14, <2>15 DEF IInv
  <2>17. QED
    BY <2>14, <2>16 DEF Kept
<1>6. QED
  BY <1>4, <1>5 DEF Decide, CanAcquire

-----------------------------------------------------------------------------
(* The invariant holds at first, and every step preserves it. *)
LEMMA InitSound == Init => IInv
<1> SUFFICES ASSUME Init
             PROVE  IInv
  OBVIOUS
<1>1. Types
  <2>1. \A s \in Ids : [Fresh EXCEPT !.live = FALSE] \in Session
    BY FreshTyped DEF Session
  <2>2. accelerated \in BOOLEAN
    BY SessionsAssumption DEF Init
  <2>3. /\ session \in [Ids -> Session] /\ latest \in [Ids -> Messages]
        /\ context \in [Threads -> Contexts] /\ message \in [Threads -> Messages]
        /\ calls \in Messages
    <3>1. 0 \in Messages /\ "caller" \in Contexts
      BY SessionsAssumption DEF Contexts, Messages
    <3>2. session \in [Ids -> Session]
      BY <2>1 DEF Init
    <3>3. QED
      BY <3>1, <3>2 DEF Init
  <2>4. stack \in [Threads -> Seq(Call)]
    BY DEF Init
  <2>5. held \subseteq Handles /\ mutex \in Threads \cup {None} /\ destructions \in {0, 1}
    BY DEF Init, Handles
  <2>6. QED
    BY <2>2, <2>3, <2>4, <2>5 DEF Types
<1>2. \A t \in Threads : Depth(t) = 0 /\ ~Working(t)
  BY DEF Init, Depth, Working
<1>3. ASSUME NEW t \in Threads
      PROVE  ThreadSound(t)
  BY <1>2, SessionsAssumption DEF ThreadSound, Init
<1>4. ASSUME NEW s \in Ids
      PROVE  SessionSound(s)
  BY DEF Init, Fresh, SessionSound
<1>5. Exclusive
  BY <1>2 DEF Exclusive, WorksOn
<1>6. held # {} => destructions = 0
  BY DEF Init
<1>7. QED
  BY <1>1, <1>3, <1>4, <1>5, <1>6 DEF IInv

LEMMA NextSound ==
  ASSUME IInv, [Next]_vars
  PROVE  IInv' /\ Kept
<1>1. CASE UNCHANGED vars
  <2>1. UNCHANGED <<accelerated, session, mutex, context, message, stack, latest, calls, held,
                    destructions>>
    BY <1>1 DEF vars
  <2>2. Types'
    BY <2>1 DEF IInv, Types
  <2>3. IInv'
    BY <2>1, <2>2, OutsideSound DEF IInv
  <2>4. QED
    BY <2>1, <2>3 DEF Kept
<1>2. ASSUME NEW t \in Threads, NEW s \in Ids, Create(t, s) \/ SessionFree(t, s) \/ Decide(t, s)
      PROVE  IInv' /\ Kept
  BY <1>2, CreateSound, SessionFreeSound, DecideSound
<1>3. ASSUME NEW t \in Threads, Step(t)
      PROVE  IInv' /\ Kept
  <2>1. CASE Ready(t)
    BY <2>1, ReadySound
  <2>2. CASE Validate(t)
    BY <2>2, ValidateSound
  <2>3. CASE Lock(t)
    BY <2>3, LockIsSound
  <2>4. CASE EnterContext(t)
    BY <2>4, EnterContextSound
  <2>5. CASE Prepare(t)
    BY <2>5, PrepareSound
  <2>6. CASE BeginPhase(t)
    BY <2>6, BeginPhaseSound
  <2>7. CASE EndPhase(t)
    BY <2>7, EndPhaseSound
  <2>8. CASE Format(t)
    BY <2>8, FormatSound
  <2>9. CASE Finish(t)
    BY <2>9, FinishSound
  <2>10. CASE ReleaseSucceeded(t)
    BY <2>10, ReleaseSucceededSound
  <2>11. CASE ReleaseFailed(t)
    BY <2>11, ReleaseFailedSound
  <2>12. CASE Logged(t)
    BY <2>12, LoggedSound
  <2>13. QED
    BY <1>3, <2>1, <2>2, <2>3, <2>4, <2>5, <2>6, <2>7, <2>8, <2>9, <2>10, <2>11, <2>12 DEF Step
<1>4. ASSUME NEW t \in Threads, ModelFree(t) \/ LockFails(t)
      PROVE  IInv' /\ Kept
  BY <1>4, ModelFreeSound, LockFailsSound
<1>5. CASE ModelDestroy
  BY <1>5, ModelDestroySound
<1>6. QED
  BY <1>1, <1>2, <1>3, <1>4, <1>5 DEF Next

(* Every state a program of these calls can reach is sound, for any threads, *)
(* sessions and bounds.                                                     *)
THEOREM Invariant == Spec => []IInv
<1>1. IInv /\ [Next]_vars => IInv'
  BY NextSound
<1>2. QED
  BY <1>1, InitSound, PTL DEF Spec

-----------------------------------------------------------------------------
(* At most one call works on a session, whichever threads call it and       *)
(* whatever their log callbacks call (api.inc:574-592).                     *)
THEOREM CallsExclude == Spec => []OneCallAtATime
<1>1. ASSUME IInv
      PROVE  OneCallAtATime
  <2>1. ASSUME NEW s \in Ids, NEW f \in Inside(s), NEW g \in Inside(s)
        PROVE  f = g
    <3>1. /\ f[1] \in Threads /\ f[2] = Depth(f[1]) /\ WorksOn(f[1], s)
          /\ g[1] \in Threads /\ g[2] = Depth(g[1]) /\ WorksOn(g[1], s)
      BY <1>1, InsideIsWorking
    <3>2. f[1] = g[1]
      BY <1>1, <3>1 DEF IInv, Exclusive
    <3>3. f = <<f[1], f[2]>> /\ g = <<g[1], g[2]>>
      BY DEF Inside
    <3>4. QED
      BY <3>1, <3>2, <3>3
  <2>2. ASSUME NEW s \in Ids
        PROVE  session[s].busy <=> Inside(s) # {}
    <3>1. Inside(s) = {} <=> \A t \in Threads : ~WorksOn(t, s)
      BY <1>1, InsideIsWorking
    <3>2. ASSUME NEW t \in Threads, WorksOn(t, s)
          PROVE  session[s].busy
      BY <1>1, <3>2 DEF IInv, ThreadSound, WorksOn, Sound, Mine
    <3>3. (\A t \in Threads : ~WorksOn(t, s)) => ~session[s].busy
      BY <1>1 DEF IInv, SessionSound
    <3>4. QED
      BY <3>1, <3>2, <3>3
  <2>3. QED
    BY <2>1, <2>2 DEF OneCallAtATime
<1>2. QED
  BY <1>1, Invariant, PTL

(* Between calls no phase of a session's workspace is active, however the   *)
(* last call ended (engine.inc:123-136, api.inc:37-39).                     *)
THEOREM IdleSessionsQuiescent == Spec => []IdleIsQuiescent
<1>1. ASSUME IInv
      PROVE  IdleIsQuiescent
  <2>1. ASSUME NEW s \in Ids, Inside(s) = {}
        PROVE  session[s].phases = {}
    BY <1>1, <2>1, InsideIsWorking DEF IInv, SessionSound
  <2>2. QED
    BY <2>1 DEF IdleIsQuiescent
<1>2. QED
  BY <1>1, Invariant, PTL

(* No failure leaks the accelerator's lock or context (cuda.inc:2147-2166). *)
THEOREM LockNeverLeaks == Spec => []LockFollowsCall
<1>1. ASSUME IInv
      PROVE  LockFollowsCall
  <2>1. ASSUME NEW t \in Threads
        PROVE  /\ mutex = t <=> accelerated /\ (Running(t) \/ At(t, "context"))
               /\ accelerated /\ Running(t) => context[t] = "cuda"
               /\ At(t, "release") => context[t] = Current(t).caller
    <3>1. ThreadSound(t)
      BY <1>1 DEF IInv
    <3>2. CASE Working(t)
      <4>1. LockSound(t, accelerated, mutex, Current(t), Mine(t), context[t])
        BY <3>1, <3>2 DEF ThreadSound, Sound
      <4>2. /\ Running(t) <=> Current(t).at \in Runs
            /\ At(t, "context") <=> Current(t).at = "context"
            /\ At(t, "release") <=> Current(t).at = "release"
        BY <3>2 DEF Running, At, Runs, Working
      <4>3. mutex = t <=> accelerated /\ (Running(t) \/ At(t, "context"))
        BY <4>1, <4>2 DEF LockSound
      <4>4. accelerated /\ Running(t) => context[t] = "cuda"
        BY <4>1, <4>2 DEF LockSound
      <4>5. At(t, "release") => context[t] = Current(t).caller
        BY <4>1, <4>2 DEF LockSound, Runs
      <4>6. QED
        BY <4>3, <4>4, <4>5
    <3>3. CASE ~Working(t)
      <4>1. ~Running(t) /\ ~At(t, "context") /\ ~At(t, "release") /\ mutex # t
        BY <3>1, <3>3 DEF ThreadSound, Working, Running, At
      <4>2. QED
        BY <4>1
    <3>4. QED
      BY <3>2, <3>3
  <2>2. QED
    BY <2>1 DEF LockFollowsCall
<1>2. QED
  BY <1>1, Invariant, PTL

(* The model outlives its sessions, the calls on them, and their callbacks  *)
(* (api.inc:590-596).                                                       *)
THEOREM ModelAlwaysOutlives == Spec => []ModelOutlivesUse
<1>1. ASSUME IInv
      PROVE  ModelOutlivesUse
  <2>1. ASSUME NEW s \in Ids, session[s].live
        PROVE  destructions = 0
    BY <1>1, <2>1 DEF IInv, SessionSound
  <2>2. ASSUME NEW t \in Threads, Depth(t) > 0
        PROVE  destructions = 0
    <3>1. ThreadSound(t) /\ Depth(t) \in Nat /\ Current(t).session \in Ids
      BY <1>1, <2>2, CurrentTyped DEF IInv
    <3>2. CASE Working(t)
      <4>1. session[Current(t).session].live
        BY <3>1, <3>2 DEF ThreadSound, Sound, Mine
      <4>2. QED
        BY <2>1, <3>1, <4>1
    <3>3. CASE ~Working(t)
      <4>1. Depth(t) \in 1..Depth(t) /\ stack[t][Depth(t)].at = "log"
        BY <2>2, <3>1, <3>3 DEF Working, Current
      <4>2. <<t, Depth(t)>> \in held
        BY <3>1, <4>1 DEF ThreadSound
      <4>3. QED
        BY <1>1, <4>2 DEF IInv
    <3>4. QED
      BY <3>2, <3>3
  <2>3. QED
    BY <2>1, <2>2 DEF ModelOutlivesUse
<1>2. QED
  BY <1>1, Invariant, PTL

(* A failure poisons the session exactly if it came inside a phase          *)
(* (jb.h:191-193, api.inc:37-39).                                           *)
THEOREM PoisonExact == Spec => []PoisonFollowsPhase
<1>1. ASSUME IInv
      PROVE  PoisonFollowsPhase
  <2>1. ASSUME NEW t \in Threads, At(t, "release"),
               Current(t).failure \in {"request", "resource"}
        PROVE  /\ Mine(t).poisoned <=> Current(t).begun # <<>>
               /\ Current(t).failure = "request" => ~Mine(t).poisoned
    <3>1. Current(t).at = "release" /\ PoisonSound(Current(t), Mine(t))
      BY <1>1, <2>1, AtWork DEF Sound
    <3>2. QED
      BY <2>1, <3>1 DEF PoisonSound
  <2>2. QED
    BY <2>1 DEF PoisonFollowsPhase
<1>2. QED
  BY <1>1, Invariant, PTL

(* An idle session's error is its latest decide's (jb.h:201-204). *)
THEOREM ErrorAlwaysLatest == Spec => []ErrorIsLatest
<1>1. ASSUME IInv
      PROVE  ErrorIsLatest
  <2>1. ASSUME NEW s \in Ids, Inside(s) = {}
        PROVE  session[s].error = latest[s]
    BY <1>1, <2>1, InsideIsWorking DEF IInv, SessionSound
  <2>2. QED
    BY <2>1 DEF ErrorIsLatest
<1>2. QED
  BY <1>1, Invariant, PTL

(* No phase of a poisoned session is active. *)
PoisonedIsQuiescent ==
  \A s \in Ids : session[s].poisoned => session[s].phases = {}

LEMMA PoisonedQuiescent == IInv => PoisonedIsQuiescent
<1> SUFFICES ASSUME IInv, NEW s \in Ids, session[s].poisoned
             PROVE  session[s].phases = {}
  BY DEF PoisonedIsQuiescent
<1>1. SessionSound(s)
  BY DEF IInv
<1>2. ASSUME NEW t \in Threads, WorksOn(t, s)
      PROVE  session[s].phases = {}
  <2>1. Sound(t, accelerated, mutex, Current(t), Mine(t), context[t], message[t])
    BY <1>2 DEF IInv, ThreadSound, WorksOn
  <2>2. Mine(t) = session[s]
    BY <1>2 DEF WorksOn, Mine
  <2>3. Current(t).at # "execute"
    BY <2>1, <2>2 DEF Sound, PoisonSound
  <2>4. QED
    BY <2>1, <2>2, <2>3 DEF Sound, PhasesSound
<1>3. QED
  BY <1>1, <1>2 DEF SessionSound

(* A poisoned session is never mended and never runs (api.inc:600-606). *)
THEOREM PoisonedForGood == Spec => PoisonIsFinal
<1>1. ASSUME IInv, PoisonedIsQuiescent', [Next]_vars
      PROVE  [\A s \in Ids : session[s].poisoned /\ session'[s].live
                => session'[s].poisoned /\ session'[s].phases = {}]_vars
  BY <1>1, NextSound DEF Kept, PoisonedIsQuiescent
<1>2. QED
  BY <1>1, PoisonedQuiescent, Invariant, PTL DEF Spec, PoisonIsFinal

-----------------------------------------------------------------------------
(* What sessions and calls do with references to the model is what          *)
(* SharedModel allows, and ModelRefs implements (jb.h:178-181,              *)
(* api.inc:17-44, 574-596).                                                 *)
THEOREM UsesSharedModel == Spec => Model!Spec
<1>1. Init => Model!Init
  BY DEF Init, Model!Init, Handles
<1>2. ASSUME IInv, [Next]_vars
      PROVE  [Model!Next]_Model!vars
  <2>1. ASSUME UNCHANGED <<held, destructions>>
        PROVE  [Model!Next]_Model!vars
    BY <2>1 DEF Model!vars
  <2>2. ASSUME NEW h \in Handles, Model!Acquire(h) \/ Model!Drop(h)
        PROVE  Model!Next
    BY <2>2 DEF Model!Next
  <2>3. ASSUME NEW t \in Threads, Depth(t) > 0
        PROVE  Transient(t) \in Handles
    <3>1. Depth(t) \in 1..MaxNesting
      BY <1>2, <2>3, CurrentTyped, SessionsAssumption DEF IInv, ThreadSound
    <3>2. QED
      BY <3>1 DEF Transient, Handles
  <2>4. CASE UNCHANGED vars
    BY <2>1, <2>4 DEF vars
  <2>5. ASSUME NEW t \in Threads, NEW s \in Ids,
               Create(t, s) \/ SessionFree(t, s) \/ Decide(t, s)
        PROVE  [Model!Next]_Model!vars
    <3>1. s \in Handles
      BY DEF Handles
    <3>2. CASE Create(t, s)
      BY <2>2, <3>1, <3>2 DEF Create
    <3>3. CASE SessionFree(t, s)
      BY <2>2, <3>1, <3>3 DEF SessionFree
    <3>4. CASE Decide(t, s)
      BY <2>1, <3>4 DEF Decide, model
    <3>5. QED
      BY <2>5, <3>2, <3>3, <3>4
  <2>6. ASSUME NEW t \in Threads, ModelFree(t)
        PROVE  [Model!Next]_Model!vars
    <3>1. Caller \in Handles
      BY DEF Handles
    <3>2. QED
      BY <2>2, <2>6, <3>1 DEF ModelFree
  <2>7. ASSUME NEW t \in Threads, Step(t) \/ LockFails(t)
        PROVE  [Model!Next]_Model!vars
    <3>1. CASE ReleaseFailed(t)
      BY <2>2, <2>3, <3>1 DEF ReleaseFailed, At
    <3>2. CASE Logged(t)
      BY <2>2, <2>3, <3>2 DEF Logged, At
    <3>3. ASSUME Step(t) \/ LockFails(t), ~ReleaseFailed(t), ~Logged(t)
          PROVE  UNCHANGED model
      BY <3>3, Zenon DEF Step, LockFails, Ready, Validate, Lock, EnterContext, Prepare,
         BeginPhase, EndPhase, Format, Finish, ReleaseSucceeded
    <3>4. QED
      BY <2>1, <2>7, <3>1, <3>2, <3>3 DEF model
  <2>8. CASE ModelDestroy
    BY <2>8 DEF ModelDestroy, Model!Next
  <2>9. QED
    BY <1>2, <2>4, <2>5, <2>6, <2>7, <2>8 DEF Next
<1>3. QED
  BY <1>1, <1>2, Invariant, PTL DEF Spec, Model!Spec

-----------------------------------------------------------------------------
(* The count of a model's references, for any number of threads and of      *)
(* references, as long as it cannot saturate.                               *)

Counted == INSTANCE SharedModel
  WITH Handles <- References, held <- counted, destructions <- ended

(* There are fewer references than the count can hold. *)
Unsaturated == Cardinality(References) < Saturated

(* The count as this module's operators have it. *)
CountIsExact == references = Cardinality(counted)

LEMMA ExactCount == Refs!CountExact <=> CountIsExact
BY DEF Refs!CountExact, Refs!Cardinality, Cardinality, CountIsExact
(* References in use by a retain or a release exist, no two of these meet on *)
(* one reference, and no two retains make the same one.                      *)
RefsInUse ==
  /\ \A t \in Refs!Retaining : /\ op[t].via \in counted
                             /\ op[t].new \notin counted
                             /\ op[t].seen # Saturated
  /\ \A t \in Refs!Releasing : op[t].old \in counted
  /\ \A t \in Refs!Retaining, u \in Refs!Releasing : op[t].via # op[u].old
  /\ \A t, u \in Refs!Retaining : op[t].new = op[u].new => t = u
  /\ \A t, u \in Refs!Releasing : op[t].old = op[u].old => t = u

(* The model is alive, being destroyed by one thread, or destroyed. *)
ModelLifecycle ==
  \/ counted # {} /\ Refs!Destroyers = {} /\ ended = 0
  \/ counted = {} /\ ended = 0 /\ \E t \in Owners : Refs!Destroyers = {t}
  \/ counted = {} /\ ended = 1 /\ Refs!Destroyers = {}

RefsInv == Refs!TypeOK /\ CountIsExact /\ RefsInUse /\ ModelLifecycle

(* A set of references counts as many as it has elements, and each one that *)
(* is made or given up counts for one.                                      *)
LEMMA CountingRefs ==
  ASSUME Unsaturated, NEW S \in SUBSET References
  PROVE  /\ IsFiniteSet(S)
         /\ Cardinality(S) \in Nat
         /\ Cardinality(S) < Saturated
         /\ Cardinality(S) = 0 <=> S = {}
         /\ Cardinality(S) = 1 <=> \E h : S = {h}
         /\ \A h \in References \ S : Cardinality(S \cup {h}) = Cardinality(S) + 1
         /\ \A h \in S : Cardinality(S \ {h}) = Cardinality(S) - 1
<1>1. IsFiniteSet(References) /\ Saturated \in Nat
  BY RefsAssumption
<1>2. /\ IsFiniteSet(S) /\ Cardinality(S) <= Cardinality(References)
      /\ Cardinality(S) \in Nat /\ Cardinality(References) \in Nat
  BY <1>1, FS_Subset, FS_CardinalityType
<1>3. Cardinality(S) < Saturated
  BY <1>1, <1>2 DEF Unsaturated
<1>4. Cardinality(S) = 0 <=> S = {}
  BY <1>2, FS_EmptySet
<1>5. Cardinality(S) = 1 <=> \E h : S = {h}
  BY <1>2, FS_Singleton
<1>6. \A h \in References \ S : Cardinality(S \cup {h}) = Cardinality(S) + 1
  BY <1>2, FS_AddElement
<1>7. \A h \in S : Cardinality(S \ {h}) = Cardinality(S) - 1
  BY <1>2, FS_RemoveElement
<1>8. QED
  BY <1>2, <1>3, <1>4, <1>5, <1>6, <1>7

LEMMA RefsInitInv == ASSUME Unsaturated PROVE Refs!Init => RefsInv
<1> SUFFICES ASSUME Refs!Init PROVE RefsInv
  OBVIOUS
<1>1. PICK h \in References : counted = {h}
  BY DEF Refs!Init
<1>2. Cardinality(counted) = 1 /\ Saturated \in Nat \ {0}
  BY <1>1, FS_Singleton, RefsAssumption
<1>3. Refs!Retaining = {} /\ Refs!Releasing = {} /\ Refs!Destroyers = {}
  BY DEF Refs!Init, Refs!Retaining, Refs!Releasing, Refs!Destroyers, Refs!Idle
<1>4. Refs!TypeOK
  BY <1>1, <1>2 DEF Refs!Init, Refs!TypeOK, Refs!Op
<1>5. QED
  BY <1>1, <1>2, <1>3, <1>4 DEF Refs!Init, RefsInv, CountIsExact, RefsInUse, ModelLifecycle

-----------------------------------------------------------------------------
(* One thread moves from one kind of step to another; the others stay. *)
LEMMA OneMoves ==
  ASSUME Refs!TypeOK, NEW t \in Owners, NEW o \in Refs!Op, op' = [op EXCEPT ![t] = o]
  PROVE  /\ op' \in [Owners -> Refs!Op]
         /\ op'[t] = o
         /\ \A u \in Owners \ {t} : op'[u] = op[u]
         /\ Refs!Retaining' = IF o.at = "retain" THEN Refs!Retaining \cup {t}
                                               ELSE Refs!Retaining \ {t}
         /\ Refs!Releasing' = IF o.at = "release" THEN Refs!Releasing \cup {t}
                                                 ELSE Refs!Releasing \ {t}
         /\ Refs!Destroyers' = IF o.at = "destroy" THEN Refs!Destroyers \cup {t}
                                                 ELSE Refs!Destroyers \ {t}
  BY DEF Refs!TypeOK, Refs!Retaining, Refs!Releasing, Refs!Destroyers

LEMMA OpKinds ==
  ASSUME Refs!TypeOK
  PROVE  /\ \A t \in Refs!Retaining :
              /\ t \in Owners /\ op[t].via \in References /\ op[t].new \in References
              /\ op[t].seen \in 0..Saturated
              /\ op[t] = [at |-> "retain", via |-> op[t].via, new |-> op[t].new,
                          seen |-> op[t].seen]
         /\ \A t \in Refs!Releasing : t \in Owners /\ op[t].old \in References
         /\ \A t \in Owners : op[t] = Refs!Idle => /\ t \notin Refs!Retaining
                                                /\ t \notin Refs!Releasing
                                                /\ t \notin Refs!Destroyers
         /\ Refs!Retaining \cap Refs!Releasing = {}
         /\ Refs!Retaining \cap Refs!Destroyers = {}
         /\ Refs!Releasing \cap Refs!Destroyers = {}
  BY DEF Refs!TypeOK, Refs!Retaining, Refs!Releasing, Refs!Destroyers, Refs!Op, Refs!Idle, Refs!Destroying

LEMMA RetainLoadInv ==
  ASSUME Unsaturated, RefsInv, NEW t \in Owners, NEW via \in References, NEW new \in References,
         Refs!RetainLoad(t, via, new)
  PROVE  RefsInv'
<1> DEFINE o == [at |-> "retain", via |-> via, new |-> new, seen |-> references]
<1>1. /\ op[t] = Refs!Idle /\ via \in counted \ Refs!Leaving /\ new \in References \ (counted \cup Refs!Promised)
      /\ op' = [op EXCEPT ![t] = o]
      /\ references' = references /\ counted' = counted /\ ended' = ended
  BY DEF Refs!RetainLoad
<1>2. o \in Refs!Op /\ o.at = "retain" /\ o.via = via /\ o.new = new /\ o.seen = references
  BY DEF Refs!Op, RefsInv, Refs!TypeOK
<1> HIDE DEF o
<1>3. /\ op' \in [Owners -> Refs!Op] /\ op'[t] = o
      /\ \A u \in Owners \ {t} : op'[u] = op[u]
      /\ Refs!Retaining' = Refs!Retaining \cup {t}
      /\ Refs!Releasing' = Refs!Releasing /\ Refs!Destroyers' = Refs!Destroyers
      /\ t \notin Refs!Retaining /\ t \notin Refs!Releasing
  <2>1. t \notin Refs!Retaining /\ t \notin Refs!Releasing /\ t \notin Refs!Destroyers
    BY <1>1, OpKinds DEF RefsInv
  <2>2. Refs!TypeOK /\ o \in Refs!Op /\ op' = [op EXCEPT ![t] = o]
    BY <1>1, <1>2 DEF RefsInv
  <2>3. op' \in [Owners -> Refs!Op] /\ op'[t] = o /\ \A u \in Owners \ {t} : op'[u] = op[u]
    BY <2>2, OneMoves
  <2>4. /\ Refs!Retaining' = Refs!Retaining \cup {t} /\ Refs!Releasing' = Refs!Releasing \ {t}
        /\ Refs!Destroyers' = Refs!Destroyers \ {t}
    BY <1>2, <2>2, OneMoves
  <2>5. QED
    BY <2>1, <2>3, <2>4
<1>4. references # Saturated
  BY CountingRefs DEF RefsInv, CountIsExact, Refs!TypeOK
<1>5. RefsInUse'
  BY <1>1, <1>2, <1>3, <1>4, OpKinds DEF RefsInv, RefsInUse, Refs!Leaving, Refs!Promised
<1>6. QED
  BY <1>1, <1>3, <1>5 DEF RefsInv, Refs!TypeOK, CountIsExact, ModelLifecycle

LEMMA RetainSwapInv ==
  ASSUME Unsaturated, RefsInv, NEW t \in Owners, Refs!RetainSwap(t)
  PROVE  RefsInv'
<1>1. /\ t \in Refs!Retaining /\ references' = references + 1
      /\ counted' = counted \cup {op[t].new} /\ op' = [op EXCEPT ![t] = Refs!Idle]
      /\ ended' = ended
  BY DEF Refs!RetainSwap, Refs!CanSwap, Refs!Retained
<1>2. op[t].new \in References \ counted /\ counted # {} /\ counted \subseteq References
  BY <1>1, OpKinds DEF RefsInv, RefsInUse, Refs!TypeOK
<1>3. Refs!Idle \in Refs!Op /\ Refs!Idle.at = "idle"
  BY DEF Refs!Op, Refs!Idle
<1>4. /\ op' \in [Owners -> Refs!Op]
      /\ \A u \in Owners \ {t} : op'[u] = op[u]
      /\ Refs!Retaining' = Refs!Retaining \ {t}
      /\ Refs!Releasing' = Refs!Releasing /\ Refs!Destroyers' = Refs!Destroyers
  <2>1. t \notin Refs!Releasing /\ t \notin Refs!Destroyers
    BY <1>1, OpKinds DEF RefsInv
  <2>2. Refs!TypeOK /\ Refs!Idle \in Refs!Op /\ op' = [op EXCEPT ![t] = Refs!Idle]
    BY <1>1, <1>3 DEF RefsInv
  <2>3. op' \in [Owners -> Refs!Op] /\ op'[t] = Refs!Idle /\ \A u \in Owners \ {t} : op'[u] = op[u]
    BY <2>2, OneMoves
  <2>4. /\ Refs!Retaining' = Refs!Retaining \ {t} /\ Refs!Releasing' = Refs!Releasing \ {t}
        /\ Refs!Destroyers' = Refs!Destroyers \ {t}
    BY <1>3, <2>2, OneMoves
  <2>5. Refs!Releasing \ {t} = Refs!Releasing /\ Refs!Destroyers \ {t} = Refs!Destroyers
    BY <2>1
  <2>6. QED
    BY Zenon, <2>3, <2>4, <2>5
<1>5. CountIsExact' /\ references' \in 0..Saturated
  <2>1. counted \in SUBSET References /\ references = Cardinality(counted)
    BY <1>2 DEF RefsInv, CountIsExact
  <2>2. Cardinality(counted \cup {op[t].new}) = references + 1
    BY Zenon, <1>2, <2>1, CountingRefs
  <2>3. counted \cup {op[t].new} \in SUBSET References
    BY <1>2
  <2>4. /\ Cardinality(counted \cup {op[t].new}) \in Nat
        /\ Cardinality(counted \cup {op[t].new}) < Saturated
    BY Zenon, <2>3, CountingRefs
  <2>5. QED
    BY <1>1, <2>2, <2>4, RefsAssumption DEF CountIsExact
<1>6. RefsInUse'
  BY <1>1, <1>2, <1>4, OpKinds DEF RefsInv, RefsInUse
<1>7. QED
  BY <1>1, <1>2, <1>4, <1>5, <1>6 DEF RefsInv, Refs!TypeOK, ModelLifecycle

LEMMA RetainRetryInv ==
  ASSUME Unsaturated, RefsInv, NEW t \in Owners, Refs!RetainRetry(t)
  PROVE  RefsInv'
<1> DEFINE o == [op[t] EXCEPT !.seen = references]
<1>1. /\ t \in Refs!Retaining /\ op' = [op EXCEPT ![t] = o]
      /\ references' = references /\ counted' = counted /\ ended' = ended
  BY DEF Refs!RetainRetry
<1>2. /\ o \in Refs!Op /\ o.at = "retain" /\ o.via = op[t].via /\ o.new = op[t].new
      /\ o.seen = references
  <2>1. o = [at |-> "retain", via |-> op[t].via, new |-> op[t].new, seen |-> references]
    <3>1. op[t] = [at |-> "retain", via |-> op[t].via, new |-> op[t].new,
                   seen |-> op[t].seen]
      BY <1>1, OpKinds DEF RefsInv
    <3>2. \A r : r = [at |-> "retain", via |-> r.via, new |-> r.new, seen |-> r.seen]
                  => [r EXCEPT !.seen = references]
                       = [at |-> "retain", via |-> r.via, new |-> r.new, seen |-> references]
      OBVIOUS
    <3>3. QED
      BY <3>1, <3>2
  <2>2. /\ op[t].via \in References /\ op[t].new \in References /\ references \in 0..Saturated
    BY <1>1, OpKinds DEF RefsInv, Refs!TypeOK
  <2>3. QED
    BY <2>1, <2>2 DEF Refs!Op
<1> HIDE DEF o
<1>3. /\ op' \in [Owners -> Refs!Op] /\ op'[t] = o
      /\ \A u \in Owners \ {t} : op'[u] = op[u]
      /\ Refs!Retaining' = Refs!Retaining
      /\ Refs!Releasing' = Refs!Releasing /\ Refs!Destroyers' = Refs!Destroyers
  <2>1. t \notin Refs!Releasing /\ t \notin Refs!Destroyers
    BY <1>1, OpKinds DEF RefsInv
  <2>2. Refs!TypeOK /\ o \in Refs!Op /\ op' = [op EXCEPT ![t] = o]
    BY <1>1, <1>2 DEF RefsInv
  <2>3. op' \in [Owners -> Refs!Op] /\ op'[t] = o /\ \A u \in Owners \ {t} : op'[u] = op[u]
    BY <2>2, OneMoves
  <2>4. /\ Refs!Retaining' = Refs!Retaining \cup {t} /\ Refs!Releasing' = Refs!Releasing \ {t}
        /\ Refs!Destroyers' = Refs!Destroyers \ {t}
    BY <1>2, <2>2, OneMoves
  <2>5. QED
    BY <1>1, <1>2, <2>1, <2>3, <2>4
<1>4. references # Saturated
  BY CountingRefs DEF RefsInv, CountIsExact, Refs!TypeOK
<1>5. \A u \in Refs!Retaining : op'[u].via = op[u].via /\ op'[u].new = op[u].new
  BY <1>2, <1>3, OpKinds DEF RefsInv
<1>6. \A u \in Refs!Releasing : op'[u] = op[u]
  BY <1>1, <1>3, OpKinds DEF RefsInv
<1>7. \A u \in Refs!Retaining : op'[u].seen # Saturated
  BY <1>2, <1>3, <1>4, OpKinds DEF RefsInv, RefsInUse
<1>8. RefsInUse'
  BY <1>1, <1>3, <1>5, <1>6, <1>7 DEF RefsInv, RefsInUse
<1>9. QED
  BY <1>1, <1>3, <1>8 DEF RefsInv, Refs!TypeOK, CountIsExact, ModelLifecycle

(* The count is below its limit whenever a retain loads it. *)
LEMMA NeverSaturated ==
  ASSUME Unsaturated, RefsInv, NEW t \in Owners
  PROVE  /\ ~Refs!RetainSaturated(t)
         /\ \A old \in References : ~Refs!ReleaseSaturated(t, old)
  BY CountingRefs DEF RefsInv, RefsInUse, CountIsExact, Refs!TypeOK, Refs!RetainSaturated, Refs!ReleaseSaturated

LEMMA ReleaseLoadInv ==
  ASSUME RefsInv, NEW t \in Owners, NEW old \in References, Refs!ReleaseLoad(t, old)
  PROVE  RefsInv'
<1> DEFINE o == [at |-> "release", old |-> old]
<1>1. /\ op[t] = Refs!Idle /\ old \in counted \ (Refs!Lent \cup Refs!Leaving)
      /\ op' = [op EXCEPT ![t] = o]
      /\ references' = references /\ counted' = counted /\ ended' = ended
  BY DEF Refs!ReleaseLoad
<1>2. o \in Refs!Op /\ o.at = "release" /\ o.old = old
  BY DEF Refs!Op
<1> HIDE DEF o
<1>3. /\ op' \in [Owners -> Refs!Op] /\ op'[t] = o
      /\ \A u \in Owners \ {t} : op'[u] = op[u]
      /\ Refs!Releasing' = Refs!Releasing \cup {t}
      /\ Refs!Retaining' = Refs!Retaining /\ Refs!Destroyers' = Refs!Destroyers
      /\ t \notin Refs!Retaining /\ t \notin Refs!Releasing
  <2>1. t \notin Refs!Retaining /\ t \notin Refs!Releasing /\ t \notin Refs!Destroyers
    BY <1>1, OpKinds DEF RefsInv
  <2>2. Refs!TypeOK /\ o \in Refs!Op /\ op' = [op EXCEPT ![t] = o]
    BY <1>1, <1>2 DEF RefsInv
  <2>3. op' \in [Owners -> Refs!Op] /\ op'[t] = o /\ \A u \in Owners \ {t} : op'[u] = op[u]
    BY <2>2, OneMoves
  <2>4. /\ Refs!Retaining' = Refs!Retaining \ {t} /\ Refs!Releasing' = Refs!Releasing \cup {t}
        /\ Refs!Destroyers' = Refs!Destroyers \ {t}
    BY <1>2, <2>2, OneMoves
  <2>5. QED
    BY <1>1, <1>2, <2>1, <2>3, <2>4
<1>4. RefsInUse'
  BY <1>1, <1>2, <1>3, OpKinds DEF RefsInv, RefsInUse, Refs!Leaving, Refs!Lent
<1>5. QED
  BY <1>1, <1>3, <1>4 DEF RefsInv, Refs!TypeOK, CountIsExact, ModelLifecycle

LEMMA ReleaseSubInv ==
  ASSUME Unsaturated, RefsInv, NEW t \in Owners, Refs!ReleaseSub(t)
  PROVE  RefsInv'
<1> DEFINE o == IF references = 1 THEN Refs!Destroying ELSE Refs!Idle
<1>1. /\ t \in Refs!Releasing /\ references' = (references + Saturated) % (Saturated + 1)
      /\ counted' = counted \ {op[t].old} /\ op' = [op EXCEPT ![t] = o]
      /\ ended' = ended
  BY DEF Refs!ReleaseSub, Refs!WasLast
<1>2. op[t].old \in counted /\ counted # {} /\ counted \subseteq References
  BY <1>1 DEF RefsInv, RefsInUse, Refs!TypeOK
<1>3. references \in Nat /\ references >= 1 /\ references <= Saturated
  BY <1>2, CountingRefs, RefsAssumption DEF RefsInv, CountIsExact
<1>4. references' = references - 1
  <2>1. Saturated \in Nat /\ references + Saturated = 1 * (Saturated + 1) + (references - 1)
    BY <1>3, RefsAssumption
  <2>2. QED
    BY <1>1, <1>3, <2>1
<1>5. CountIsExact' /\ references' \in 0..Saturated
  BY <1>1, <1>2, <1>3, <1>4, CountingRefs, RefsAssumption DEF RefsInv, CountIsExact
<1>6. o \in Refs!Op /\ o.at = IF references = 1 THEN "destroy" ELSE "idle"
  BY DEF Refs!Op, Refs!Idle, Refs!Destroying
<1> HIDE DEF o
<1>7. /\ op' \in [Owners -> Refs!Op]
      /\ \A u \in Owners \ {t} : op'[u] = op[u]
      /\ Refs!Releasing' = Refs!Releasing \ {t} /\ Refs!Retaining' = Refs!Retaining
      /\ Refs!Destroyers' = IF references = 1 THEN Refs!Destroyers \cup {t} ELSE Refs!Destroyers
      /\ t \notin Refs!Retaining
  <2>1. t \notin Refs!Retaining /\ t \notin Refs!Destroyers
    BY <1>1, OpKinds DEF RefsInv
  <2>2. Refs!TypeOK /\ o \in Refs!Op /\ op' = [op EXCEPT ![t] = o]
    BY <1>1, <1>6 DEF RefsInv
  <2>3. op' \in [Owners -> Refs!Op] /\ op'[t] = o /\ \A u \in Owners \ {t} : op'[u] = op[u]
    BY <2>2, OneMoves
  <2>4. /\ Refs!Retaining' = Refs!Retaining \ {t} /\ Refs!Releasing' = Refs!Releasing \ {t}
        /\ Refs!Destroyers' = IF references = 1 THEN Refs!Destroyers \cup {t} ELSE Refs!Destroyers \ {t}
    BY <1>6, <2>2, OneMoves
  <2>5. QED
    BY <1>1, <1>2, <2>1, <2>3, <2>4
<1>8. RefsInUse'
  BY <1>1, <1>7, OpKinds DEF RefsInv, RefsInUse
<1>9. references = 1 <=> counted' = {}
  <2>1. counted' \in SUBSET References /\ Cardinality(counted') = references - 1
    BY <1>1, <1>2, <1>4, <1>5 DEF CountIsExact
  <2>2. QED
    BY <1>3, <2>1, CountingRefs
<1>10. ModelLifecycle'
  BY <1>1, <1>2, <1>7, <1>9, OpKinds DEF RefsInv, ModelLifecycle
<1>11. QED
  BY <1>1, <1>2, <1>5, <1>7, <1>8, <1>10 DEF RefsInv, Refs!TypeOK

LEMMA DestroyInv ==
  ASSUME RefsInv, NEW t \in Owners, Refs!Destroy(t)
  PROVE  RefsInv'
<1>1. /\ t \in Refs!Destroyers /\ ended' = ended + 1
      /\ op' = [op EXCEPT ![t] = Refs!Idle] /\ references' = references /\ counted' = counted
  BY DEF Refs!Destroy
<1>2. counted = {} /\ ended = 0 /\ Refs!Destroyers = {t}
  BY <1>1 DEF RefsInv, ModelLifecycle
<1>3. Refs!Idle \in Refs!Op /\ Refs!Idle.at = "idle"
  BY DEF Refs!Op, Refs!Idle
<1>4. /\ op' \in [Owners -> Refs!Op] /\ Refs!Destroyers' = {}
      /\ Refs!Releasing' = Refs!Releasing /\ Refs!Retaining' = Refs!Retaining
  <2>1. t \notin Refs!Retaining /\ t \notin Refs!Releasing
    BY <1>1, OpKinds DEF RefsInv
  <2>2. Refs!TypeOK /\ Refs!Idle \in Refs!Op /\ op' = [op EXCEPT ![t] = Refs!Idle]
    BY <1>1, <1>3 DEF RefsInv
  <2>3. op' \in [Owners -> Refs!Op] /\ op'[t] = Refs!Idle /\ \A u \in Owners \ {t} : op'[u] = op[u]
    BY <2>2, OneMoves
  <2>4. /\ Refs!Retaining' = Refs!Retaining \ {t} /\ Refs!Releasing' = Refs!Releasing \ {t}
        /\ Refs!Destroyers' = Refs!Destroyers \ {t}
    BY <1>3, <2>2, OneMoves
  <2>5. QED
    BY <1>1, <1>2, <2>1, <2>3, <2>4
<1>5. Refs!Releasing = {} /\ Refs!Retaining = {}
  BY <1>2 DEF RefsInv, RefsInUse
<1>6. QED
  BY <1>1, <1>2, <1>4, <1>5 DEF RefsInv, Refs!TypeOK, CountIsExact, RefsInUse, ModelLifecycle

LEMMA RefsNextInv == ASSUME Unsaturated PROVE RefsInv /\ [Refs!Next]_(Refs!vars) => RefsInv'
<1> SUFFICES ASSUME RefsInv, [Refs!Next]_(Refs!vars) PROVE RefsInv'
  OBVIOUS
<1>1. ASSUME NEW t \in Owners, NEW via \in References, NEW new \in References,
             Refs!RetainLoad(t, via, new)
      PROVE  RefsInv'
  BY <1>1, RetainLoadInv
<1>2. ASSUME NEW t \in Owners, Refs!RetainSwap(t) \/ Refs!RetainRetry(t) \/ Refs!RetainSaturated(t)
      PROVE  RefsInv'
  BY <1>2, RetainSwapInv, RetainRetryInv, NeverSaturated
<1>3. ASSUME NEW t \in Owners, NEW old \in References,
             Refs!ReleaseLoad(t, old) \/ Refs!ReleaseSaturated(t, old)
      PROVE  RefsInv'
  BY <1>3, ReleaseLoadInv, NeverSaturated
<1>4. ASSUME NEW t \in Owners, Refs!ReleaseSub(t) \/ Refs!Destroy(t)
      PROVE  RefsInv'
  BY <1>4, ReleaseSubInv, DestroyInv
<1>5. CASE UNCHANGED Refs!vars
  BY <1>5 DEF Refs!vars, RefsInv, Refs!TypeOK, CountIsExact, RefsInUse, ModelLifecycle, Refs!Retaining, Refs!Releasing, Refs!Destroyers
<1>6. QED
  BY <1>1, <1>2, <1>3, <1>4, <1>5 DEF Refs!Next

(* The invariant holds in every reachable state. *)
THEOREM RefsInvariant == ASSUME Unsaturated PROVE Refs!Spec => []RefsInv
  BY RefsInitInv, RefsNextInv, PTL DEF Refs!Spec

(* Type correctness of the count and of the threads' progress. *)
THEOREM RefsTypeCorrect == ASSUME Unsaturated PROVE Refs!Spec => []TypeOK
<1>1. RefsInv => TypeOK
  BY DEF RefsInv, TypeOK
<1>2. QED
  BY <1>1, RefsInvariant, PTL

(* No interleaving of retains and releases loses a count or counts twice. *)
THEOREM CountCorrect == ASSUME Unsaturated PROVE Refs!Spec => []CountExact
<1>1. RefsInv => CountExact
  BY ExactCount DEF RefsInv, CountExact
<1>2. QED
  BY <1>1, RefsInvariant, PTL

(* The model outlives every reference to it and every retain under way. *)
THEOREM AliveCorrect == ASSUME Unsaturated PROVE Refs!Spec => []AliveWhileHeld
<1>1. ASSUME RefsInv, counted # {} \/ Refs!Promised # {} PROVE ended = 0 /\ Refs!Destroyers = {}
  <2>1. counted # {}
    BY <1>1 DEF RefsInv, RefsInUse, Refs!Promised
  <2>2. QED
    BY <1>1, <2>1 DEF RefsInv, ModelLifecycle
<1>2. RefsInv => AliveWhileHeld
  BY <1>1 DEF AliveWhileHeld, Refs!AliveWhileHeld
<1>3. QED
  BY <1>2, RefsInvariant, PTL

-----------------------------------------------------------------------------
LEMMA RefsStepRefines ==
  ASSUME Unsaturated, RefsInv, [Refs!Next]_(Refs!vars)
  PROVE  [Counted!Next]_(Counted!vars)
<1> USE DEF Counted!Next, Counted!vars
<1>1. ASSUME NEW t \in Owners, Refs!RetainSwap(t)
      PROVE  \E h \in References : Counted!Acquire(h)
  <2>1. /\ op[t].new \in References \ counted /\ counted # {}
        /\ counted' = counted \cup {op[t].new} /\ ended' = ended
    BY <1>1, OpKinds DEF Refs!RetainSwap, Refs!Retained, RefsInv, RefsInUse
  <2>2. QED
    BY <2>1 DEF Counted!Acquire
<1>2. ASSUME NEW t \in Owners, Refs!ReleaseSub(t)
      PROVE  \E h \in References : Counted!Drop(h)
  <2>1. /\ op[t].old \in counted /\ op[t].old \in References
        /\ counted' = counted \ {op[t].old} /\ ended' = ended
    BY <1>2, OpKinds DEF Refs!ReleaseSub, RefsInv, RefsInUse
  <2>2. QED
    BY <2>1 DEF Counted!Drop
<1>3. ASSUME NEW t \in Owners, Refs!Destroy(t)
      PROVE  Counted!Destroy
  BY <1>3 DEF Refs!Destroy, RefsInv, ModelLifecycle, Counted!Destroy
<1>4. ASSUME NEW t \in Owners, NEW via \in References, NEW new \in References,
             Refs!RetainLoad(t, via, new)
      PROVE  UNCHANGED Counted!vars
  BY <1>4 DEF Refs!RetainLoad
<1>5. ASSUME NEW t \in Owners, Refs!RetainRetry(t)
      PROVE  UNCHANGED Counted!vars
  BY <1>5 DEF Refs!RetainRetry
<1>6. ASSUME NEW t \in Owners, NEW old \in References, Refs!ReleaseLoad(t, old)
      PROVE  UNCHANGED Counted!vars
  BY <1>6 DEF Refs!ReleaseLoad
<1>7. CASE UNCHANGED Refs!vars
  BY <1>7 DEF Refs!vars
<1>8. QED
  BY <1>1, <1>2, <1>3, <1>4, <1>5, <1>6, <1>7, NeverSaturated DEF Refs!Next

(* Whatever the threads do, the count behaves like the references it counts: *)
(* acquired only from a holder, and one destruction, after the last is gone. *)
THEOREM CountRefines == ASSUME Unsaturated PROVE Refs!Spec => Counted!Spec
<1>1. Refs!Init => Counted!Init
  BY DEF Refs!Init, Counted!Init
<1>2. RefsInv /\ [Refs!Next]_(Refs!vars) => [Counted!Next]_(Counted!vars)
  BY RefsStepRefines
<1>3. QED
  BY <1>1, <1>2, RefsInvariant, PTL DEF Refs!Spec, Counted!Spec
=============================================================================
