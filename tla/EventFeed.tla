------------------------------ MODULE EventFeed ------------------------------
(***************************************************************************)
(* What following a run promises: the events of the run are numbered in    *)
(* the order they were published; a follower hears them in that order, each *)
(* at most once, possibly not all; it is let go only by the event that     *)
(* completes the run, or when the events are no longer to be had.          *)
(***************************************************************************)
EXTENDS Naturals, Sequences, SequencesExt

CONSTANT Clients   \* the browsers that follow the run

VARIABLES
  log,      \* the types of the published events
  present,  \* whether the events can still be read
  heard,    \* the positions in log each follower has heard, in order
  over      \* the followers that were let go

feed == <<log, present, heard, over>>

Init ==
  /\ log = <<>> /\ present = FALSE
  /\ heard = [c \in Clients |-> <<>>]
  /\ over = {}

Increasing(s) == \A i \in 1..(Len(s) - 1) : s[i] < s[i + 1]

Publish ==
  /\ \E t \in {<<"progress">>, <<"failed", "completed">>, <<"completed">>} : log' = log \o t
  /\ present' = TRUE
  /\ UNCHANGED <<heard, over>>

Lose == present' = FALSE /\ UNCHANGED <<log, heard, over>>

\* A follower hears later events, and is let go once the run is complete.
Hear(c) ==
  /\ c \notin over
  /\ Len(heard'[c]) >= Len(heard[c])
  /\ IsPrefix(heard[c], heard'[c])
  /\ Increasing(heard'[c])
  /\ \A i \in DOMAIN heard'[c] : heard'[c][i] \in DOMAIN log
  /\ heard' = [heard EXCEPT ![c] = heard'[c]]
  /\ over' = IF \E i \in DOMAIN heard'[c] : log[heard'[c][i]] = "completed"
             THEN over \cup {c} ELSE over
  /\ UNCHANGED <<log, present>>

Dismiss(c) == ~present /\ over' = over \cup {c} /\ UNCHANGED <<log, present, heard>>

\* A page that is loaded again starts over.
StartOver(c) ==
  /\ heard' = [heard EXCEPT ![c] = <<>>]
  /\ over' = over \ {c}
  /\ UNCHANGED <<log, present>>

Next == Publish \/ Lose \/ \E c \in Clients : Hear(c) \/ Dismiss(c) \/ StartOver(c)

Spec == Init /\ [][Next]_feed
=============================================================================
