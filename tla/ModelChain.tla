------------------------------ MODULE ModelChain ------------------------------
(***************************************************************************)
(* The models of one role (internal/modelprovider): a chain of names of    *)
(* one provider, tried in its order.  Calls overlap; what one of them      *)
(* finds out about a member all share, for the life of the process.        *)
(*                                                                         *)
(* An answer is what the classification of errors (internal/upstream) and  *)
(* the chain ask about it: HTTP status, machine code, and what went wrong  *)
(* on the way.  Attempts the provider's library makes itself are not told  *)
(* apart, nor is a role without a chain, which is one member that is       *)
(* never given up.                                                         *)
(***************************************************************************)
EXTENDS Naturals, Sequences, SequencesExt

CONSTANTS
  Configured,  \* the names of *_MODEL_CHAIN, as they are written
  Queries      \* calls of the model

VARIABLES
  retries,    \* MODEL_MAX_RETRIES
  gone,       \* models the provider refuses for good: quota used up, unknown
  built,      \* members that have a client
  exhausted,  \* members marked as not available
  query,      \* where each call stands: the member, its attempt, and (history)
              \* the members that were marked when the call began
  broken      \* history: members whose client could not be built

chainVars == <<retries, gone, built, exhausted, query, broken>>

AppendOnce(names, name) == IF name \in ToSet(names) THEN names ELSE Append(names, name)
Chain   == FoldLeft(AppendOnce, <<>>, Configured)
Members == ToSet(Chain)

Init ==
  /\ retries \in 0 .. 1
  /\ gone \in SUBSET Members
  /\ built = {} /\ exhausted = {} /\ broken = {}
  /\ query = [q \in Queries |-> [pc |-> "idle", at |-> 1, attempt |-> 0, knew |-> {}]]

-----------------------------------------------------------------------------
(* Answers *)

Answer(status, code, cause) == [status |-> status, code |-> code, cause |-> cause]

Delivered == Answer(200, "", "none")
\* What says that the model will not be had again, by its status or its code;
\* status 0 is an error reported inside of a response.
Refusals ==
  {Answer(403, "", "none"), Answer(404, "", "none"), Answer(429, "quota", "none"),
   Answer(429, "free_tier_only", "none"), Answer(0, "quota", "reported")}
Mishaps ==
  {Answer(0, "", "cut"), Answer(0, "", "timeout"), Answer(0, "", "network"),
   Answer(503, "", "none"), Answer(429, "", "none"), Answer(400, "", "none"),
   Answer(401, "", "none")}
AnswersOf(m) == Mishaps \cup (IF m \in gone THEN Refusals ELSE {Delivered})

Classify(a) ==
  CASE a.cause = "cut"                            -> "protocol"
    [] a.cause = "timeout"                        -> "timeout"
    [] a.code \in {"quota", "free_tier_only"}     -> "quota"
    [] a.status = 429                             -> "rate_limit"
    [] a.status \in {400, 404}                    -> "invalid_request"
    [] a.status \in {401, 403}                    -> "authentication"
    [] OTHER                                      -> "unavailable"

Transient(a) == Classify(a) \in {"protocol", "unavailable", "timeout"}

\* Mutant of SwitchWorthy: a limit of the rate is taken for the end of a quota.
SwitchOnLimits(a) == a.status \in {403, 404, 429} \/ a.code = "quota"

SwitchWorthy(a) == a.status \in {403, 404} \/ a.code = "quota"

-----------------------------------------------------------------------------
(* A call *)

At(q, pc)   == query[q].pc = pc
Goto(q, pc) == query' = [query EXCEPT ![q].pc = pc]
Member(q)   == Chain[query[q].at]

\* The call turns to the next member.
Onward(q) == [query[q] EXCEPT !.pc = "choosing", !.at = query[q].at + 1, !.attempt = 0]
MoveOn(q) == query' = [query EXCEPT ![q] = Onward(q)]

Begin(q) ==
  /\ At(q, "idle")
  /\ query' = [query EXCEPT ![q] = [@ EXCEPT !.pc = "choosing", !.knew = exhausted]]
  /\ UNCHANGED <<retries, gone, built, exhausted, broken>>

PassOver(q) ==
  /\ At(q, "choosing") /\ query[q].at <= Len(Chain)
  /\ Member(q) \in exhausted
  /\ MoveOn(q)
  /\ UNCHANGED <<retries, gone, built, exhausted, broken>>

\* The lock of the member is released between this and Resolve.
Choose(q) ==
  /\ At(q, "choosing") /\ query[q].at <= Len(Chain)
  /\ Member(q) \notin exhausted
  /\ Goto(q, "resolving")
  /\ UNCHANGED <<retries, gone, built, exhausted, broken>>

\* The client another call built is used, although the member may have been
\* marked meanwhile.
Resolve(q) ==
  /\ At(q, "resolving")
  /\ built' = built \cup {Member(q)}
  /\ Goto(q, "asking")
  /\ UNCHANGED <<retries, gone, exhausted, broken>>

BuildFails(q) ==
  /\ At(q, "resolving") /\ Member(q) \notin built
  /\ exhausted' = exhausted \cup {Member(q)} /\ broken' = broken \cup {Member(q)}
  /\ MoveOn(q)
  /\ UNCHANGED <<retries, gone, built>>

Deliver(q) ==
  /\ At(q, "asking")
  /\ Delivered \in AnswersOf(Member(q))
  /\ Goto(q, "delivered")
  /\ UNCHANGED <<retries, gone, built, exhausted, broken>>

Retried(q, a) == Transient(a) /\ query[q].attempt < retries

Retry(q) ==
  /\ At(q, "asking")
  /\ \E a \in AnswersOf(Member(q)) \ {Delivered} : Retried(q, a)
  /\ query' = [query EXCEPT ![q].attempt = @ + 1]
  /\ UNCHANGED <<retries, gone, built, exhausted, broken>>

SwitchOver(q) ==
  /\ At(q, "asking")
  /\ \E a \in AnswersOf(Member(q)) \ {Delivered} : ~Retried(q, a) /\ SwitchWorthy(a)
  /\ exhausted' = exhausted \cup {Member(q)}
  /\ MoveOn(q)
  /\ UNCHANGED <<retries, gone, built, broken>>

Raise(q) ==
  /\ At(q, "asking")
  /\ \E a \in AnswersOf(Member(q)) \ {Delivered} : ~Retried(q, a) /\ ~SwitchWorthy(a)
  /\ Goto(q, "raised")
  /\ UNCHANGED <<retries, gone, built, exhausted, broken>>

NoneLeft(q) ==
  /\ At(q, "choosing") /\ query[q].at > Len(Chain)
  /\ Goto(q, "none left")
  /\ UNCHANGED <<retries, gone, built, exhausted, broken>>

\* A quota is used up.
RunOut ==
  /\ \E m \in Members \ gone : gone' = gone \cup {m}
  /\ UNCHANGED <<retries, built, exhausted, query, broken>>

-----------------------------------------------------------------------------
Next ==
  \/ RunOut
  \/ \E q \in Queries :
       \/ Begin(q) \/ PassOver(q) \/ Choose(q) \/ Resolve(q) \/ BuildFails(q)
       \/ Deliver(q) \/ Retry(q) \/ SwitchOver(q) \/ Raise(q) \/ NoneLeft(q)

Spec == Init /\ [][Next]_chainVars

-----------------------------------------------------------------------------
\* A call goes past a member, or reports that none is left, only where the
\* member is out of reach for good, whichever call found that out; passing
\* trouble moves nobody down the chain.  And a member that was marked is not
\* asked again by calls that begin later (chain.go:2-3, :40-53).
LeftForGood ==
  \A q \in Queries :
    /\ \A i \in 1 .. query[q].at - 1 : Chain[i] \in gone \cup broken
    /\ At(q, "asking") => Member(q) \notin query[q].knew
=============================================================================
