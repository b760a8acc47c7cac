-------------------------- MODULE PreferenceMemory --------------------------
(***************************************************************************)
(* Preferences an account keeps across sessions (product/preference_memory *)
(* .go, store/preference_memory.go): saving a field of the session as a    *)
(* preference, forgetting one, and confirming remembered ones into the     *)
(* requirement of a session.  One subject and one stable field; the owners *)
(* are those of one account.  A save reads, decides and writes in separate *)
(* statements, so saves and deletions interleave.                          *)
(***************************************************************************)
EXTENDS Naturals, FiniteSets

CONSTANTS
  Owners,     \* the owners the account has claimed
  Values,     \* values of the field
  Saves,      \* requests that save the session's value
  Deletes,    \* requests that delete a preference
  Confirms,   \* requests that confirm remembered preferences
  MaxRows,    \* bound: rows ever inserted
  MaxRevision \* bound: revisions of the session's requirement

VARIABLES
  rows,     \* owner_preference_memories: owner, value, active and replaces by identifier
  used,     \* identifiers given out
  draft,    \* the field in the session's requirement: its value, whether it is in the
            \* user's words or a remembered one, and the revision
  save,     \* where each save stands
  delete,   \* where each deletion stands, and the rows its statement sees
  confirm,  \* where each confirmation stands
  edits     \* idempotency keys recorded with an applied edit

prefVars == <<rows, used, draft, save, delete, confirm, edits>>

None == "none"
Ids  == 1..MaxRows
NoId == 0
\* An earlier session may have left a preference.
Init ==
  /\ \/ rows = << >> /\ used = 0
     \/ \E o \in Owners, v \in Values :
          rows = <<[owner |-> o, value |-> v, active |-> TRUE, replaces |-> NoId]>> /\ used = 1
  /\ draft = [value |-> None, words |-> FALSE, revision |-> 0]
  /\ save \in [Saves -> [pc : {"idle"}, owner : Owners, value : {None}, found : {NoId},
                         again : {FALSE}, seen : {{}}]]
  /\ delete = [d \in Deletes |-> [pc |-> "idle", sees |-> {}]]
  /\ confirm = [c \in Confirms |-> [pc |-> "idle", id |-> NoId, value |-> None, expected |-> 0]]
  /\ edits = {}

Active(o) == {i \in DOMAIN rows : rows[i].owner = o /\ rows[i].active}

-----------------------------------------------------------------------------
(* The requirement of the session *)

\* A turn or an edit of the user states the field, or takes it back.
Say ==
  /\ draft.revision < MaxRevision
  /\ \E v \in Values \cup {None} :
       /\ v # draft.value
       /\ draft' = [value |-> v, words |-> v # None, revision |-> draft.revision + 1]
  /\ UNCHANGED <<rows, used, save, delete, confirm, edits>>

-----------------------------------------------------------------------------
(* Saving *)

\* The running saves of an owner learn of a write to its preference.
Noticing(o, self, value) ==
  [s \in Saves |->
    IF s # self /\ save[s].owner = o /\ save[s].pc \in {"deciding", "creating", "replacing"}
    THEN [save[s] EXCEPT !.seen = @ \cup value] ELSE save[s]]

\* SaveSessionPreference takes the value, and its evidence, from the session:
\* only the user's own words are savable.
Submit(s) ==
  /\ save[s].pc = "idle"
  /\ save' = [save EXCEPT ![s].pc = IF draft.words THEN "deciding" ELSE "rejected",
                          ![s].value = draft.value,
                          ![s].seen = {rows[i].value : i \in Active(save[s].owner)}]
  /\ UNCHANGED <<rows, used, draft, delete, confirm, edits>>

\* ActivePreferenceMemoryByIdentity, and the choice upsertPreferenceMemory makes.
Decide(s) ==
  /\ save[s].pc = "deciding"
  /\ \/ /\ Active(save[s].owner) = {}
        /\ save' = [save EXCEPT ![s].pc = "creating", ![s].found = NoId]
     \/ \E i \in Active(save[s].owner) :
          save' = [save EXCEPT ![s].pc = IF rows[i].value = save[s].value THEN "unchanged" ELSE "replacing",
                               ![s].found = i]
  /\ UNCHANGED <<rows, used, draft, delete, confirm, edits>>

\* Mutant: a conflict is taken for a save of the same value.
ConflictIsUnchanged(s, pc) == save' = [save EXCEPT ![s].pc = "unchanged"]

\* The first conflict is retried from the read on, the second is an error.
Retry(s, pc) ==
  save' = [save EXCEPT ![s].pc = IF save[s].again THEN pc ELSE "deciding", ![s].again = TRUE]

Write(s, pc, table) ==
  /\ used < MaxRows /\ used' = used + 1
  /\ rows' = [i \in DOMAIN table \cup {used + 1} |->
       IF i = used + 1
       THEN [owner |-> save[s].owner, value |-> save[s].value, active |-> TRUE, replaces |-> save[s].found]
       ELSE table[i]]
  /\ save' = [Noticing(save[s].owner, s, {save[s].value}) EXCEPT
                ![s].pc = pc, ![s].seen = @ \cup {save[s].value}]

\* CreatePreferenceMemory: the index allows one active row per owner.
Create(s) ==
  /\ save[s].pc = "creating"
  /\ \/ Active(save[s].owner) = {} /\ Write(s, "created", rows)
     \/ Active(save[s].owner) # {} /\ Retry(s, "conflict") /\ UNCHANGED <<rows, used>>
  /\ UNCHANGED <<draft, delete, confirm, edits>>

\* The row is locked and must still be active.
Replaceable(i) == i \in DOMAIN rows /\ rows[i].active

\* SupersedePreferenceMemory: the old row becomes a tombstone of the new one.
\* A row that was deleted meanwhile ends the save with an error.
Supersede(s) ==
  LET i == save[s].found IN
  /\ save[s].pc = "replacing"
  /\ \/ Replaceable(i) /\ Write(s, "replaced", [rows EXCEPT ![i].active = FALSE])
     \/ i \in DOMAIN rows /\ ~Replaceable(i) /\ Retry(s, "conflict") /\ UNCHANGED <<rows, used>>
     \/ i \notin DOMAIN rows /\ save' = [save EXCEPT ![s].pc = "missing"] /\ UNCHANGED <<rows, used>>
  /\ UNCHANGED <<draft, delete, confirm, edits>>

-----------------------------------------------------------------------------
(* Forgetting *)

\* Every row of the same owner, tombstones included.
SameIdentity(i) == {j \in DOMAIN rows : rows[j].owner = rows[i].owner}

\* The DELETE statement sees the rows committed when it starts.
StartDelete(d) ==
  /\ delete[d].pc = "idle"
  /\ \E i \in DOMAIN rows : delete' = [delete EXCEPT ![d] = [pc |-> "running", sees |-> SameIdentity(i)]]
  /\ UNCHANGED <<rows, used, draft, save, confirm, edits>>

\* Rows that refer to a deleted row lose the reference (ON DELETE SET NULL).
FinishDelete(d) ==
  /\ delete[d].pc = "running"
  /\ LET gone == delete[d].sees \cap DOMAIN rows IN
     /\ rows' = [i \in DOMAIN rows \ gone |->
          [rows[i] EXCEPT !.replaces = IF @ \in gone THEN NoId ELSE @]]
     /\ delete' = [delete EXCEPT ![d].pc = IF gone = {} THEN "missing" ELSE "deleted"]
     /\ save' = IF gone = {} THEN save ELSE Noticing(rows[CHOOSE i \in gone : TRUE].owner, None, {})
  /\ UNCHANGED <<used, draft, confirm, edits>>

-----------------------------------------------------------------------------
(* Confirming into a session *)

\* PreferenceSuggestions: nothing for a field the session has set; of the owners'
\* preferences, the latest of each distinct value (more than one: a conflict).
Suggestions ==
  LET all == UNION {Active(o) : o \in Owners}
  IN IF draft.value # None THEN {}
     ELSE {i \in all : \A j \in all : j > i => rows[j].value # rows[i].value}

\* The user picks among the suggestions shown with a revision.
Choose(c) ==
  /\ confirm[c].pc = "idle"
  /\ \E i \in Suggestions :
       confirm' = [confirm EXCEPT ![c] =
         [pc |-> "chosen", id |-> i, value |-> None, expected |-> draft.revision]]
  /\ UNCHANGED <<rows, used, draft, save, delete, edits>>

\* ConfirmPreferences reads the session, rereads the row, and skips what the
\* session has set meanwhile or its key has done before.
Verify(c) ==
  /\ confirm[c].pc = "chosen"
  /\ LET i == confirm[c].id
         ok == i \in DOMAIN rows /\ rows[i].active /\ draft.value = None /\ c \notin edits
     IN confirm' = [confirm EXCEPT ![c].pc = IF ok THEN "pending" ELSE "skipped",
                                   ![c].value = IF ok THEN rows[i].value ELSE None]
  /\ UNCHANGED <<rows, used, draft, save, delete, edits>>

\* EditRequirement applies to the revision the user saw, once per key.
SeenRevision(c) == confirm[c].expected = draft.revision

Apply(c) ==
  /\ confirm[c].pc = "pending" /\ draft.revision < MaxRevision
  /\ \/ /\ c \notin edits /\ SeenRevision(c)
        /\ draft' = [value |-> confirm[c].value, words |-> FALSE, revision |-> draft.revision + 1]
        /\ edits' = edits \cup {c}
        /\ confirm' = [confirm EXCEPT ![c].pc = "applied"]
     \/ /\ c \notin edits /\ ~SeenRevision(c)
        /\ confirm' = [confirm EXCEPT ![c].pc = "conflict"]
        /\ UNCHANGED <<draft, edits>>
  /\ UNCHANGED <<rows, used, save, delete>>

\* The client did not get the answer and sends the request again.
Resend(c) ==
  /\ confirm[c].pc = "applied" /\ confirm[c].value # None
  /\ confirm' = [confirm EXCEPT ![c].pc = "chosen", ![c].value = None]
  /\ UNCHANGED <<rows, used, draft, save, delete, edits>>

Next ==
  \/ Say
  \/ \E s \in Saves : Submit(s) \/ Decide(s) \/ Create(s) \/ Supersede(s)
  \/ \E d \in Deletes : StartDelete(d) \/ FinishDelete(d)
  \/ \E c \in Confirms : Choose(c) \/ Verify(c) \/ Apply(c) \/ Resend(c)

Spec == Init /\ [][Next]_prefVars

-----------------------------------------------------------------------------
(* Properties *)

\* A save that reports success left, or found, its value in force at some
\* moment after it began, however saves and deletions race
\* (preference_memory.go:150).
SaveReportsTruth ==
  \A s \in Saves : save[s].pc \in {"created", "replaced", "unchanged"} => save[s].value \in save[s].seen
=============================================================================
