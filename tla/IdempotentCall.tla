--------------------------- MODULE IdempotentCall ---------------------------
(***************************************************************************)
(* SessionVault.DoIdempotent: the writes of the account API (register,     *)
(* login, profile, password) under one idempotency key.  The result of the *)
(* first success is kept in Redis with a MAC of the request; calls that    *)
(* come while one runs wait for its result.                                *)
(***************************************************************************)
EXTENDS Naturals, FiniteSets

CONSTANTS
  Calls,      \* HTTP calls that carry the key
  Bodies,     \* the request bodies they may carry
  MaxFaults   \* bound: lock expiries, failed stores, record expiries

VARIABLES
  kept,    \* the record under the key: the body of a call and its result
  holder,  \* the call whose value the lock holds
  late,    \* calls whose lock expired while they held it
  call,    \* where each call stands, its body and its answer
  ran,     \* the calls whose operation took effect
  mishaps

keyVars == <<kept, holder, late, call, ran, mishaps>>

Nobody   == "nobody"
NoRecord == [body |-> "none", result |-> Nobody]
Finished == {"answered", "conflict", "unavailable"}

TypeOK ==
  /\ kept \in {NoRecord} \cup [body : Bodies, result : Calls]
  /\ holder \in Calls \cup {Nobody} /\ late \subseteq Calls
  /\ call \in [Calls -> [pc : {"idle", "missed", "waiting", "running", "storing", "releasing"} \cup Finished,
                         body : Bodies, answer : Calls \cup {Nobody}]]
  /\ ran \subseteq Calls /\ mishaps \in 0..MaxFaults

Init ==
  /\ kept = NoRecord /\ holder = Nobody /\ late = {} /\ ran = {} /\ mishaps = 0
  /\ call \in [Calls -> [pc : {"idle"}, body : Bodies, answer : {Nobody}]]

Standing(c, pc) == call[c].pc = pc
Move(c, pc)     == call' = [call EXCEPT ![c].pc = pc]
Mishap          == mishaps < MaxFaults /\ mishaps' = mishaps + 1

\* The stored MAC is that of the call's own body.
SameBody(c) == kept.body = call[c].body

\* What a call makes of a record it finds.
Found(c) ==
  /\ kept # NoRecord
  /\ call' = [call EXCEPT ![c].pc = IF SameBody(c) THEN "answered" ELSE "conflict",
                          ![c].answer = IF SameBody(c) THEN kept.result ELSE Nobody]

Read(c) ==
  /\ Standing(c, "idle")
  /\ Found(c) \/ (kept = NoRecord /\ Move(c, "missed"))
  /\ UNCHANGED <<kept, holder, late, ran, mishaps>>

Lock(c) ==
  /\ Standing(c, "missed")
  /\ holder' = IF holder = Nobody THEN c ELSE holder
  /\ Move(c, IF holder = Nobody THEN "running" ELSE "waiting")
  /\ UNCHANGED <<kept, late, ran, mishaps>>

Poll(c) ==
  /\ Standing(c, "waiting") /\ Found(c)
  /\ UNCHANGED <<kept, holder, late, ran, mishaps>>

GiveUp(c) ==
  /\ Standing(c, "waiting") /\ Move(c, "unavailable")
  /\ UNCHANGED <<kept, holder, late, ran, mishaps>>

\* fn takes effect, or fails without one.
Run(c) ==
  /\ Standing(c, "running")
  /\ \/ ran' = ran \cup {c} /\ Move(c, "storing")
     \/ ran' = ran /\ Move(c, "releasing")
  /\ UNCHANGED <<kept, holder, late, mishaps>>

Store(c) ==
  /\ Standing(c, "storing")
  /\ \/ /\ kept' = [body |-> call[c].body, result |-> c]
        /\ call' = [call EXCEPT ![c].pc = "releasing", ![c].answer = c]
        /\ UNCHANGED mishaps
     \/ Mishap /\ Move(c, "releasing") /\ UNCHANGED kept
  /\ UNCHANGED <<holder, late, ran>>

\* Mutant: the lock is deleted whoever holds it.
DropLock(c) == Nobody

\* The script deletes the lock only if it still holds the caller's value.
Unlocked(c) == IF holder = c THEN Nobody ELSE holder

Release(c) ==
  /\ Standing(c, "releasing") /\ holder' = Unlocked(c)
  /\ Move(c, IF call[c].answer = c THEN "answered" ELSE "unavailable")
  /\ UNCHANGED <<kept, late, ran, mishaps>>

ExpireHold ==
  /\ holder # Nobody /\ Mishap
  /\ late' = late \cup {holder} /\ holder' = Nobody
  /\ UNCHANGED <<kept, call, ran>>

\* A result is kept for 15 minutes.
ExpireRecord ==
  /\ kept # NoRecord /\ Mishap /\ kept' = NoRecord
  /\ UNCHANGED <<holder, late, call, ran>>

Next ==
  \/ \E c \in Calls :
       Read(c) \/ Lock(c) \/ Poll(c) \/ GiveUp(c) \/ Run(c) \/ Store(c) \/ Release(c)
  \/ ExpireHold \/ ExpireRecord

Spec == Init /\ [][Next]_keyVars

-----------------------------------------------------------------------------
(* Properties *)

\* A call is answered with the result of an operation that took effect for the
\* very body it carries, be it its own or that of an earlier call
\* (session.go:207-217).
AnswersOwnBody ==
  \A c \in Calls : Standing(c, "answered") =>
    call[c].answer \in ran /\ call[call[c].answer].body = call[c].body

\* The operation runs for one call at a time unless a lock runs out
\* (session.go:218-241).
RunsOneAtATime ==
  \A c, d \in Calls : {call[c].pc, call[d].pc} \subseteq {"running", "storing"} =>
    c = d \/ c \in late \/ d \in late
=============================================================================
