----------------------------- MODULE PageReading -----------------------------
(***************************************************************************)
(* How the planning agent reads a web page (internal/planning:             *)
(* page_reader.go, crawl4ai.go, doReadPage of runner.go): a plain request  *)
(* first, and a browser only where the page turned out to be an empty      *)
(* shell that scripts would fill.                                          *)
(*                                                                         *)
(* A page is what its server would answer to either reader.  Its text is   *)
(* one of a few kinds; "article" is a long text that may speak of anything.*)
(* Addresses, bytes and the windows in which the model is shown a text are *)
(* left out.                                                               *)
(***************************************************************************)
EXTENDS Naturals, Sequences

CONSTANTS
  Pages,         \* what may be found behind a link
  MaxPageCalls   \* maxPageCalls

VARIABLES
  hasBrowser,  \* CRAWL4AI_URL is set
  calls,     \* reads the model has asked for
  evidence,  \* pages the model was shown: [id, reader, text]
  last       \* history: the last read, [page, method, attempts]

pageVars == <<hasBrowser, calls, evidence, last>>

Methods == {"auto", "http", "browser"}
NoRead == [page |-> CHOOSE p \in Pages : TRUE, method |-> "http", attempts |-> <<>>]

Init == hasBrowser \in BOOLEAN /\ calls = 0 /\ evidence = <<>> /\ last = NoRead

-----------------------------------------------------------------------------
(* What a page turned out to be *)

Denied(title, text)   == title = "denied" \/ text = "denied"
AsksLogin(title, host, text, password) ==
  password \/ host = "login" \/ (title = "login" /\ text # "article")

\* A page that shows no text of its own because it wants something first.
Wall(title, host, text, password) ==
  IF Denied(title, text) THEN "access_blocked"
  ELSE IF AsksLogin(title, host, text, password) THEN "login"
  ELSE IF text = "cookies" THEN "consent_wall" ELSE "none"

\* Mutant of Judged: an empty shell is recognised before a wall.
ShellFirst(title, host, text, password, dynamic) ==
  IF dynamic THEN "dynamic_shell"
  ELSE IF Wall(title, host, text, password) # "none" THEN Wall(title, host, text, password)
  ELSE IF text \in {"", "images"} THEN "empty" ELSE "ok"
\* A wall is one even if it has no text but scripts.
Judged(title, host, text, password, dynamic) ==
  IF Wall(title, host, text, password) # "none" THEN Wall(title, host, text, password)
  ELSE IF dynamic THEN "dynamic_shell"
  ELSE IF text \in {"", "images"} THEN "empty" ELSE "ok"

Dynamic(page) == page.scripts /\ page.text \in {"", "loading"}

-----------------------------------------------------------------------------
(* The two readers *)

\* The dialer refuses an address that is not public, after redirects too.
ByHttp(page) ==
  CASE page.link = "not https" -> "unsafe_url"
    [] page.link = "not public" -> "network"
    [] page.link = "public" /\ page.answer \notin {"html", "plain"} -> page.answer
    [] page.link = "public" /\ page.answer = "plain" ->
         Judged("named", page.host, page.text, FALSE, FALSE)
    [] page.link = "public" /\ page.answer = "html" ->
         Judged(page.title, page.host, page.text, page.password, Dynamic(page))

\* The status of the last hop, if the adapter says where it ended.
FinalStatus(seen) ==
  IF seen.final # 0 THEN seen.final
  ELSE IF seen.redirected # 0 THEN seen.redirected ELSE seen.status

ByBrowser(page) ==
  LET seen == page.browser
  IN  IF ~hasBrowser THEN "not_configured"
      ELSE IF page.link # "public" \/ ~seen.success \/ FinalStatus(seen) \notin 200 .. 299
           THEN "unavailable"
      ELSE IF seen.endsAt # "public" THEN "unsafe_url"
      ELSE Judged(seen.title, page.host, seen.text, FALSE, FALSE)

Attempt(page, method) ==
  [method |-> method, outcome |-> IF method = "browser" THEN ByBrowser(page) ELSE ByHttp(page)]

Attempts(page, method, late) ==
  LET first == Attempt(page, IF method = "browser" THEN "browser" ELSE "http")
      again == /\ method = "auto" /\ hasBrowser /\ ~late
               /\ first.outcome = "dynamic_shell"
  IN  IF again THEN <<first, Attempt(page, "browser")>> ELSE <<first>>

-----------------------------------------------------------------------------
Shown(attempt, page) ==
  [id |-> Len(evidence) + 1, reader |-> attempt.method,
   text |-> IF attempt.method = "browser" THEN page.browser.text ELSE page.text]

\* read_page.  A read that fails costs a call and leaves no evidence; "late"
\* is the deadline of both attempts together.
ReadPage(page, method, late) ==
  LET attempts == Attempts(page, method, late)
      final == attempts[Len(attempts)]
  IN  /\ calls < MaxPageCalls
      /\ calls' = calls + 1
      /\ last' = [page |-> page, method |-> method, attempts |-> attempts]
      /\ evidence' = IF final.outcome = "ok" THEN Append(evidence, Shown(final, page)) ELSE evidence
      /\ UNCHANGED hasBrowser

Next == \E page \in Pages, method \in Methods, late \in BOOLEAN : ReadPage(page, method, late)

Spec == Init /\ [][Next]_pageVars

-----------------------------------------------------------------------------
\* The reader goes on to the browser by itself only for a page that asked
\* neither for a sign-in nor for a proof or a consent, and what the model is
\* shown has a text that is none of these (page_reader.go:36-38, :217-249).
OnlyShellsAreRendered ==
  /\ Len(last.attempts) = 2 =>
       /\ ~last.page.password /\ last.page.host # "login"
       /\ last.page.title \notin {"denied", "login"}
       /\ last.page.text \in {"", "loading"}
  /\ \A k \in DOMAIN evidence : evidence[k].text \notin {"", "images", "denied", "cookies"}
=============================================================================
