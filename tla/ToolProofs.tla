------------------------------ MODULE ToolProofs ------------------------------
(***************************************************************************)
(* Proofs about what stands under the agents, which MCServices follows one *)
(* at a time: the chain of models, the reading of pages, the budget of     *)
(* searches and the sessions in Redis.                                     *)
(***************************************************************************)
EXTENDS MCServices, FiniteSetTheorems, SequenceTheorems, TLAPS

-----------------------------------------------------------------------------
(* The chain of models (ModelChain) *)

LEMMA ChainFollowed == Spec => Models!Spec
<1>1. Init => Models!Init
  BY DEF Init
<1>2. [Next]_vars => [Models!Next]_(Models!chainVars)
  BY DEF Next, vars, chain, Models!chainVars
<1> QED
  BY <1>1, <1>2, PTL DEF Spec, Models!Spec

\* A call, which knew of some of the marked members when it began.
Calling(marked) ==
  [pc : {"idle", "choosing", "resolving", "asking", "delivered", "raised", "none left"},
   at : Nat \ {0}, attempt : Nat, knew : SUBSET marked]

\* What a call went past, and what it is about to ask.
LeftBehind(q) == \A i \in 1..(query[q].at - 1) : Models!Chain[i] \in gone \cup broken
AsksAnew(q)   == query[q].pc \in {"resolving", "asking"} => Models!Member(q) \notin query[q].knew

ChainInv ==
  /\ query \in [Queries -> Calling(exhausted)]
  /\ exhausted \subseteq gone \cup broken
  /\ \A q \in Queries : LeftBehind(q) /\ AsksAnew(q)

LEMMA ChainInitially == Models!Init => ChainInv
<1> SUFFICES ASSUME Models!Init PROVE ChainInv
  OBVIOUS
<1>1. query \in [Queries -> Calling(exhausted)]
  BY DEF Models!Init, Calling
<1> QED
  BY <1>1 DEF Models!Init, ChainInv, LeftBehind, AsksAnew

\* Calls stand while one of them moves and members are marked or lost.
LEMMA ChainMoves ==
  ASSUME ChainInv, NEW q \in Queries, NEW e \in Calling(exhausted'), query' = [query EXCEPT ![q] = e],
         exhausted \subseteq exhausted', gone \subseteq gone', broken \subseteq broken',
         exhausted' \subseteq gone' \cup broken',
         \/ e.at = query[q].at
         \/ e.at = query[q].at + 1 /\ Models!Member(q) \in gone' \cup broken',
         e.pc \in {"resolving", "asking"} => Models!Chain[e.at] \notin e.knew
  PROVE  ChainInv'
<1>1. query \in [Queries -> Calling(exhausted)] /\ query[q] \in Calling(exhausted)
  BY DEF ChainInv
<1>2. Calling(exhausted) \subseteq Calling(exhausted')
  BY DEF Calling
<1>3. query' \in [Queries -> Calling(exhausted')] /\ query'[q] = e
      /\ \A r \in Queries \ {q} : query'[r] = query[r]
  BY <1>1, <1>2
<1>4. ASSUME NEW r \in Queries \ {q} PROVE LeftBehind(r)' /\ AsksAnew(r)'
  BY <1>3 DEF ChainInv, LeftBehind, AsksAnew, Models!Member
<1>5. AsksAnew(q)'
  BY <1>3 DEF AsksAnew, Models!Member
<1>6. LeftBehind(q)'
  <2>1. query[q].at \in Nat /\ e.at \in Nat
    BY <1>1 DEF Calling
  <2>2. \A i \in 1..(query[q].at - 1) : Models!Chain[i] \in gone' \cup broken'
    BY DEF ChainInv, LeftBehind
  <2>3. \A i \in 1..(e.at - 1) : Models!Chain[i] \in gone' \cup broken'
    <3>1. CASE e.at = query[q].at
      BY <2>2, <3>1
    <3>2. CASE e.at = query[q].at + 1 /\ Models!Chain[query[q].at] \in gone' \cup broken'
      <4> TAKE i \in 1..(e.at - 1)
      <4>1. i \in 1..(query[q].at - 1) \/ i = query[q].at
        BY <2>1, <3>2
      <4> QED
        BY <2>2, <3>2, <4>1
    <3> QED
      BY <3>1, <3>2 DEF Models!Member
  <2> QED
    BY <1>3, <2>3 DEF LeftBehind
<1> QED
  BY <1>3, <1>4, <1>5, <1>6 DEF ChainInv

\* An answer that moves a call down the chain is given only by a lost member.
LEMMA SwitchesForGood ==
  ASSUME NEW m, NEW a \in Models!AnswersOf(m) \ {Models!Delivered}, Models!SwitchWorthy(a)
  PROVE  m \in gone
<1> SUFFICES ASSUME m \notin gone PROVE FALSE
  OBVIOUS
<1>1. a \in Models!Mishaps
  BY DEF Models!AnswersOf
<1>2. \/ a = Models!Answer(0, "", "cut") \/ a = Models!Answer(0, "", "timeout")
      \/ a = Models!Answer(0, "", "network") \/ a = Models!Answer(503, "", "none")
      \/ a = Models!Answer(429, "", "none") \/ a = Models!Answer(400, "", "none")
      \/ a = Models!Answer(401, "", "none")
  BY <1>1, Zenon DEF Models!Mishaps
<1>3. /\ ~Models!SwitchWorthy(Models!Answer(0, "", "cut"))
      /\ ~Models!SwitchWorthy(Models!Answer(0, "", "timeout"))
      /\ ~Models!SwitchWorthy(Models!Answer(0, "", "network"))
      /\ ~Models!SwitchWorthy(Models!Answer(503, "", "none"))
      /\ ~Models!SwitchWorthy(Models!Answer(429, "", "none"))
      /\ ~Models!SwitchWorthy(Models!Answer(400, "", "none"))
      /\ ~Models!SwitchWorthy(Models!Answer(401, "", "none"))
  BY DEF Models!SwitchWorthy, Models!Answer
<1>4. CASE a = Models!Answer(0, "", "cut")
  BY <1>3, <1>4
<1>5. CASE a = Models!Answer(0, "", "timeout")
  BY <1>3, <1>5
<1>6. CASE a = Models!Answer(0, "", "network")
  BY <1>3, <1>6
<1>7. CASE a = Models!Answer(503, "", "none")
  BY <1>3, <1>7
<1>8. CASE a = Models!Answer(429, "", "none")
  BY <1>3, <1>8
<1>9. CASE a = Models!Answer(400, "", "none")
  BY <1>3, <1>9
<1>10. CASE a = Models!Answer(401, "", "none")
  BY <1>3, <1>10
<1> QED
  BY <1>2, <1>4, <1>5, <1>6, <1>7, <1>8, <1>9, <1>10, Zenon

LEMMA CallingTyped ==
  ASSUME NEW marked, NEW r \in Calling(marked)
  PROVE  /\ \A n \in Nat : [r EXCEPT !.attempt = n] \in Calling(marked)
         /\ \A n \in Nat \ {0} : [r EXCEPT !.pc = "choosing", !.at = n, !.attempt = 0] \in Calling(marked)
         /\ r.attempt + 1 \in Nat /\ r.at + 1 \in Nat \ {0}
<1>1. r.attempt \in Nat /\ r.at \in Nat \ {0}
  BY DEF Calling
<1>2. r.attempt + 1 \in Nat /\ r.at + 1 \in Nat \ {0}
  BY <1>1
<1>3. \A n \in Nat : [r EXCEPT !.attempt = n] \in Calling(marked)
  BY DEF Calling
<1>4. \A n \in Nat \ {0} : [r EXCEPT !.pc = "choosing", !.at = n, !.attempt = 0] \in Calling(marked)
  BY DEF Calling
<1> QED
  BY <1>2, <1>3, <1>4

LEMMA ChainInductive == ChainInv /\ [Models!Next]_(Models!chainVars) => ChainInv'
<1> SUFFICES ASSUME ChainInv, [Models!Next]_(Models!chainVars) PROVE ChainInv'
  OBVIOUS
<1>0. \A q \in Queries : query[q] \in Calling(exhausted) /\ LeftBehind(q) /\ AsksAnew(q)
  BY DEF ChainInv
<1>1. CASE UNCHANGED Models!chainVars
  BY <1>1 DEF Models!chainVars, ChainInv, LeftBehind, AsksAnew, Models!Member
<1>2. ASSUME Models!RunOut PROVE ChainInv'
  <2>1. gone \subseteq gone' /\ UNCHANGED <<exhausted, query, broken>>
    BY <1>2 DEF Models!RunOut
  <2> QED
    BY <2>1 DEF ChainInv, LeftBehind, AsksAnew, Models!Member
<1>3. ASSUME NEW q \in Queries,
             \/ Models!Begin(q) \/ Models!Choose(q) \/ Models!Resolve(q) \/ Models!Deliver(q)
             \/ Models!Retry(q) \/ Models!Raise(q) \/ Models!NoneLeft(q)
      PROVE  ChainInv'
  <2>1. UNCHANGED <<exhausted, gone, broken>>
    BY <1>3 DEF Models!Begin, Models!Choose, Models!Resolve, Models!Deliver, Models!Retry,
                Models!Raise, Models!NoneLeft
  <2>2. \E e \in Calling(exhausted) :
          /\ query' = [query EXCEPT ![q] = e] /\ e.at = query[q].at
          /\ e.pc \in {"resolving", "asking"} => Models!Chain[e.at] \notin e.knew
    <3>1. CASE Models!Begin(q)
      <4> DEFINE e == [query[q] EXCEPT !.pc = "choosing", !.knew = exhausted]
      <4>1. e \in Calling(exhausted) /\ e.at = query[q].at /\ e.pc = "choosing"
        BY <1>0 DEF Calling
      <4>2. query' = [query EXCEPT ![q] = e]
        BY <3>1 DEF Models!Begin
      <4> QED
        BY <4>1, <4>2
    <3>2. CASE Models!Choose(q) \/ Models!Resolve(q)
      <4>1. PICK pc \in {"resolving", "asking"} : query' = [query EXCEPT ![q].pc = pc]
        BY <3>2 DEF Models!Choose, Models!Resolve, Models!Goto
      <4> DEFINE e == [query[q] EXCEPT !.pc = pc]
      <4>2. e \in Calling(exhausted) /\ e.at = query[q].at /\ e.knew = query[q].knew
        BY <1>0 DEF Calling
      <4>3. Models!Member(q) \notin query[q].knew
        <5>1. CASE Models!Choose(q)
          BY <1>0, <5>1 DEF Models!Choose, Calling
        <5>2. CASE Models!Resolve(q)
          BY <1>0, <5>2 DEF Models!Resolve, Models!At, AsksAnew
        <5> QED
          BY <3>2, <5>1, <5>2
      <4>4. query' = [query EXCEPT ![q] = e]
        BY <4>1
      <4> QED
        BY <4>2, <4>3, <4>4 DEF Models!Member
    <3>3. CASE Models!Retry(q)
      <4>0. PICK n \in Nat : n = query[q].attempt + 1
        BY <1>0, CallingTyped
      <4> DEFINE e == [query[q] EXCEPT !.attempt = n]
      <4>1. e \in Calling(exhausted) /\ e.at = query[q].at /\ e.knew = query[q].knew
        <5>1. query[q] \in Calling(exhausted)
          BY <1>0
        <5>2. e \in Calling(exhausted)
          BY <5>1, CallingTyped
        <5> QED
          BY <5>1, <5>2 DEF Calling
      <4>2. Models!Member(q) \notin query[q].knew
        BY <1>0, <3>3 DEF Models!Retry, Models!At, AsksAnew
      <4>3. query' = [query EXCEPT ![q] = e]
        BY <3>3, <4>0 DEF Models!Retry
      <4> QED
        BY <4>1, <4>2, <4>3 DEF Models!Member
    <3>4. CASE Models!Deliver(q) \/ Models!Raise(q) \/ Models!NoneLeft(q)
      <4>1. PICK pc \in {"delivered", "raised", "none left"} : query' = [query EXCEPT ![q].pc = pc]
        BY <3>4 DEF Models!Deliver, Models!Raise, Models!NoneLeft, Models!Goto
      <4> DEFINE e == [query[q] EXCEPT !.pc = pc]
      <4>2. e \in Calling(exhausted) /\ e.at = query[q].at /\ e.pc = pc
        <5>1. query[q] \in Calling(exhausted)
          BY <1>0
        <5> QED
          BY <5>1 DEF Calling
      <4>3. query' = [query EXCEPT ![q] = e]
        BY <4>1
      <4> QED
        BY <4>1, <4>2, <4>3
    <3> QED
      BY <1>3, <3>1, <3>2, <3>3, <3>4
  <2> QED
    BY <2>1, <2>2, ChainMoves DEF ChainInv
<1>4. ASSUME NEW q \in Queries, Models!PassOver(q) \/ Models!BuildFails(q) \/ Models!SwitchOver(q)
      PROVE  ChainInv'
  <2>1. /\ exhausted \subseteq exhausted' /\ gone' = gone /\ broken \subseteq broken'
        /\ exhausted' \subseteq gone \cup broken' /\ Models!Member(q) \in gone \cup broken'
    <3>1. CASE Models!PassOver(q)
      BY <3>1 DEF Models!PassOver, ChainInv
    <3>2. CASE Models!BuildFails(q)
      BY <3>2 DEF Models!BuildFails, ChainInv
    <3>3. CASE Models!SwitchOver(q)
      BY <3>3, SwitchesForGood DEF Models!SwitchOver, ChainInv
    <3> QED
      BY <1>4, <3>1, <3>2, <3>3
  <2>2. query' = [query EXCEPT ![q] = Models!Onward(q)]
    BY <1>4 DEF Models!PassOver, Models!BuildFails, Models!SwitchOver, Models!MoveOn
  <2>3. \E e \in Calling(exhausted') :
          query' = [query EXCEPT ![q] = e] /\ e.at = query[q].at + 1 /\ e.pc = "choosing"
    <3>1. query[q] \in Calling(exhausted')
      BY <1>0, <2>1 DEF Calling
    <3>2. PICK n \in Nat \ {0} : n = query[q].at + 1
      BY <3>1, CallingTyped
    <3> DEFINE e == [query[q] EXCEPT !.pc = "choosing", !.at = n, !.attempt = 0]
    <3>3. e \in Calling(exhausted')
      BY <3>1, CallingTyped
    <3>4. e.at = n /\ e.pc = "choosing"
      BY <3>1 DEF Calling
    <3>5. Models!Onward(q) = e
      BY <3>2 DEF Models!Onward
    <3> QED
      BY <2>2, <3>2, <3>3, <3>4, <3>5
  <2> QED
    BY <2>1, <2>3, ChainMoves
<1> QED
  BY <1>1, <1>2, <1>3, <1>4 DEF Models!Next

\* A call goes past a model, or says that none is left, only where the provider
\* refuses the model for good or its client cannot be built, however calls
\* overlap; and it asks no model that was marked before it began (chain.go).
THEOREM ModelsAreLeftForGood == Spec => []LeftForGood
<1>1. ChainInv => LeftForGood
  BY DEF ChainInv, LeftBehind, AsksAnew, LeftForGood, Models!LeftForGood, Models!At
<1> QED
  BY <1>1, ChainFollowed, ChainInitially, ChainInductive, PTL DEF Models!Spec

-----------------------------------------------------------------------------
(* The reading of pages (PageReading) *)

LEMMA ReadingFollowed == Spec => Reading!Spec
<1>1. Init => Reading!Init
  BY DEF Init
<1>2. [Next]_vars => [Reading!Next]_(Reading!pageVars)
  BY DEF Next, vars, read, Reading!pageVars
<1> QED
  BY <1>1, <1>2, PTL DEF Spec, Reading!Spec

\* What the outcomes of a read say of the page.
LEMMA ShellsHaveNoWall ==
  ASSUME NEW p \in Pages, Reading!ByHttp(p) = "dynamic_shell"
  PROVE  ~p.password /\ p.host # "login" /\ p.title \notin {"denied", "login"}
         /\ p.text \in {"", "loading"}
<1>1. p.link = "public" /\ p.answer = "html"
  BY PageAssumption DEF PageAssumption, Reading!ByHttp, Reading!Judged, Reading!Wall
<1>2. Reading!Judged(p.title, p.host, p.text, p.password, Reading!Dynamic(p)) = "dynamic_shell"
  BY <1>1 DEF Reading!ByHttp
<1>3. Reading!Wall(p.title, p.host, p.text, p.password) = "none" /\ Reading!Dynamic(p)
  BY <1>2 DEF Reading!Judged, Reading!Wall
<1> QED
  BY <1>3 DEF Reading!Wall, Reading!Denied, Reading!AsksLogin, Reading!Dynamic

LEMMA GoodTextsAreReadable ==
  ASSUME NEW title, NEW host, NEW text, NEW password, NEW dynamic,
         Reading!Judged(title, host, text, password, dynamic) = "ok"
  PROVE  text \notin {"", "images", "denied", "cookies"}
  BY DEF Reading!Judged, Reading!Wall, Reading!Denied, Reading!AsksLogin

LEMMA ReadsAreReadable ==
  ASSUME NEW p \in Pages, NEW method, Reading!Attempt(p, method).outcome = "ok"
  PROVE  (IF method = "browser" THEN p.browser.text ELSE p.text) \notin {"", "images", "denied", "cookies"}
<1>1. CASE method = "browser"
  <2>1. Reading!ByBrowser(p) = "ok"
    BY <1>1 DEF Reading!Attempt
  <2>2. Reading!Judged(p.browser.title, p.host, p.browser.text, FALSE, FALSE) = "ok"
    BY <2>1 DEF Reading!ByBrowser
  <2> QED
    BY <1>1, <2>2, GoodTextsAreReadable
<1>2. CASE method # "browser"
  <2>1. Reading!ByHttp(p) = "ok"
    BY <1>2 DEF Reading!Attempt
  <2>2. \/ Reading!Judged("named", p.host, p.text, FALSE, FALSE) = "ok"
        \/ Reading!Judged(p.title, p.host, p.text, p.password, Reading!Dynamic(p)) = "ok"
    <3>1. p.link = "public" /\ p.answer \in {"plain", "html"}
      BY <2>1, PageAssumption DEF PageAssumption, Reading!ByHttp
    <3>2. CASE p.answer = "plain"
      BY <2>1, <3>1, <3>2 DEF Reading!ByHttp
    <3>3. CASE p.answer = "html"
      BY <2>1, <3>1, <3>3 DEF Reading!ByHttp
    <3> QED
      BY <3>1, <3>2, <3>3
  <2> QED
    BY <1>2, <2>2, GoodTextsAreReadable
<1> QED
  BY <1>1, <1>2

ReadingInv ==
  /\ pages \in Seq([id : Nat, reader : Reading!Methods,
                   text : {p.text : p \in Pages} \cup {p.browser.text : p \in Pages}])
  /\ OnlyShellsAreRendered

LEMMA ReadingInitially == Reading!Init => ReadingInv
<1> SUFFICES ASSUME Reading!Init PROVE ReadingInv
  OBVIOUS
<1>1. pages = <<>> /\ last.attempts = <<>>
  BY DEF Reading!Init, Reading!NoRead
<1> QED
  BY <1>1 DEF ReadingInv, OnlyShellsAreRendered, Reading!OnlyShellsAreRendered

LEMMA ReadingInductive == ReadingInv /\ [Reading!Next]_(Reading!pageVars) => ReadingInv'
<1> DEFINE Texts == {p.text : p \in Pages} \cup {p.browser.text : p \in Pages}
           Entry == [id : Nat, reader : Reading!Methods, text : Texts]
           Readable(text) == text \notin {"", "images", "denied", "cookies"}
<1> SUFFICES ASSUME ReadingInv, [Reading!Next]_(Reading!pageVars) PROVE ReadingInv'
  OBVIOUS
<1>0. pages \in Seq(Entry) /\ \A k \in 1..Len(pages) : Readable(pages[k].text)
  <2>1. pages \in Seq(Entry)
    BY DEF ReadingInv
  <2>2. DOMAIN pages = 1..Len(pages)
    BY <2>1, LenProperties
  <2> QED
    BY <2>1, <2>2 DEF ReadingInv, OnlyShellsAreRendered, Reading!OnlyShellsAreRendered
<1>1. CASE UNCHANGED Reading!pageVars
  BY <1>1 DEF Reading!pageVars, ReadingInv, OnlyShellsAreRendered, Reading!OnlyShellsAreRendered
<1>2. ASSUME NEW p \in Pages, NEW method \in Reading!Methods, NEW tardy \in BOOLEAN,
             Reading!ReadPage(p, method, tardy)
      PROVE  ReadingInv'
  <2> DEFINE attempts == Reading!Attempts(p, method, tardy)
             first == Reading!Attempt(p, IF method = "browser" THEN "browser" ELSE "http")
  <2>1. /\ last'.page = p /\ last'.attempts = attempts
        /\ pages' = IF attempts[Len(attempts)].outcome = "ok"
                    THEN Append(pages, Reading!Shown(attempts[Len(attempts)], p)) ELSE pages
    BY <1>2 DEF Reading!ReadPage
  <2>2. \/ attempts = <<first>>
        \/ /\ attempts = <<first, Reading!Attempt(p, "browser")>>
           /\ method = "auto" /\ first.outcome = "dynamic_shell"
    BY DEF Reading!Attempts
  <2>3. PICK way \in Reading!Methods : attempts[Len(attempts)] = Reading!Attempt(p, way)
    BY <2>2 DEF Reading!Methods
  <2>4. Len(attempts) = 2 => Reading!ByHttp(p) = "dynamic_shell"
    <3>1. Len(<<first>>) = 1
      OBVIOUS
    <3>2. method = "auto" => first.outcome = Reading!ByHttp(p)
      BY DEF Reading!Attempt
    <3> QED
      BY <2>2, <3>1, <3>2
  <2> HIDE DEF attempts
  <2>5. Len(last'.attempts) = 2 =>
          /\ ~last'.page.password /\ last'.page.host # "login"
          /\ last'.page.title \notin {"denied", "login"}
          /\ last'.page.text \in {"", "loading"}
    BY <2>1, <2>4, ShellsHaveNoWall
  <2>6. Reading!Attempt(p, way).method = way
    BY DEF Reading!Attempt
  <2> DEFINE entry == Reading!Shown(Reading!Attempt(p, way), p)
  <2>7. entry \in Entry /\ entry.text = IF way = "browser" THEN p.browser.text ELSE p.text
    <3>1. Len(pages) \in Nat
      BY <1>0, LenProperties
    <3>2. p.text \in Texts /\ p.browser.text \in Texts
      OBVIOUS
    <3>3. entry = [id |-> Len(pages) + 1, reader |-> way,
                   text |-> IF way = "browser" THEN p.browser.text ELSE p.text]
      BY <2>6 DEF Reading!Shown
    <3> HIDE DEF Texts, entry
    <3> QED
      BY <3>1, <3>2, <3>3
  <2> HIDE DEF entry, Entry
  <2>8. pages' \in Seq(Entry) /\ \A k \in 1..Len(pages') : Readable(pages'[k].text)
    <3>1. CASE Reading!Attempt(p, way).outcome = "ok"
      <4>1. Readable(entry.text)
        BY <2>7, <3>1, ReadsAreReadable
      <4>2. pages' = Append(pages, entry)
        BY <2>1, <2>3, <3>1 DEF entry
      <4>3. /\ pages' \in Seq(Entry) /\ Len(pages') = Len(pages) + 1 /\ Len(pages) \in Nat
            /\ pages'[Len(pages) + 1] = entry
            /\ \A k \in 1..Len(pages) : pages'[k] = pages[k]
        <5>1. pages \in Seq(Entry) /\ entry \in Entry
          BY <1>0, <2>7
        <5> QED
          BY <4>2, <5>1, AppendProperties, LenProperties
      <4>4. \A k \in 1..Len(pages') : k \in 1..Len(pages) \/ k = Len(pages) + 1
        BY <4>3
      <4> QED
        BY <1>0, <4>1, <4>3, <4>4
    <3>2. CASE Reading!Attempt(p, way).outcome # "ok"
      BY <1>0, <2>1, <2>3, <3>2
    <3> QED
      BY <3>1, <3>2
  <2>9. DOMAIN pages' = 1..Len(pages')
    BY <2>8, LenProperties
  <2> QED
    BY <2>5, <2>8, <2>9
    DEF ReadingInv, OnlyShellsAreRendered, Reading!OnlyShellsAreRendered, Entry
<1> QED
  BY <1>1, <1>2 DEF Reading!Next

\* The browser is asked unbidden only for a page that wants neither a sign-in nor
\* a proof nor a consent, and the model is shown no such page, whatever the
\* servers answer (page_reader.go, crawl4ai.go).
THEOREM ShellsAloneAreRendered == Spec => []OnlyShellsAreRendered
<1>1. ReadingInv => OnlyShellsAreRendered
  BY DEF ReadingInv
<1> QED
  BY <1>1, ReadingFollowed, ReadingInitially, ReadingInductive, PTL DEF Reading!Spec

-----------------------------------------------------------------------------
(* The budget of searches (SearchQuota) *)

LEMMA QuotaFollowed == Spec => Quota!Spec
<1>1. Init => Quota!Init
  BY DEF Init
<1>2. [Next]_vars => [Quota!Next]_(Quota!quotaVars)
  BY DEF Next, vars, quota, Quota!quotaVars
<1> QED
  BY <1>1, <1>2, PTL DEF Spec, Quota!Spec

LEMMA QuotaCardinality == \A S : Quota!Cardinality(S) = Cardinality(S)
  BY DEF Quota!Cardinality, Cardinality

\* Searches the provider counted that are yet to be settled, and parts of batches
\* that are settled and yet to be counted.
Unsettled == {s \in Searches : search[s].pc = "answered"}
Ahead     == {c \in Collectors : batch[c].pc = "reserved"}

QuotaTyped ==
  /\ counted \in Nat /\ shown \in Nat /\ reserved \in Nat /\ missed \in Nat /\ looked \in Nat
  /\ search \in [Searches -> [pc : {"idle", "allowed", "refused", "answered", "failed", "settled",
                                   "unsettled"}, usage : Nat]]
  /\ batch \in [Collectors -> [pc : {"idle", "open", "stopped", "reserved", "done"}, usage : Nat,
                              left : Int]]

\* What is counted and has no entry: account requests and searches never settled.
Aside == looked + missed

\* The ledger stands for what was counted, settled and is yet to be settled.
Balanced ==
  /\ reserved <= Budget
  /\ reserved > 0 =>
       counted + Cardinality(Ahead) <= reserved + Aside + Cardinality(Unsettled)

\* Before its first entry, whatever usage anybody was told covers all that was
\* counted, account requests, missed searches and unsettled ones aside.
Covered(usage) == reserved = 0 => counted <= usage + Aside + Cardinality(Unsettled)
EarlyCover ==
  /\ reserved = 0 => Ahead = {}
  /\ Covered(shown)
  /\ \A s \in Searches : search[s].pc \in {"allowed", "answered"} => Covered(search[s].usage)
  /\ \A c \in Collectors : batch[c].pc = "open" => Covered(batch[c].usage)

QuotaInv == QuotaTyped /\ Balanced /\ EarlyCover

LEMMA AsideTyped == /\ QuotaTyped => Aside \in Nat
                    /\ QuotaTyped' => Aside' \in Nat
  BY DEF QuotaTyped, Aside

LEMMA AsideKept == missed' = missed /\ looked' = looked => Aside' = Aside
  BY DEF Aside

LEMMA QuotaSizes ==
  /\ IsFiniteSet(Unsettled) /\ Cardinality(Unsettled) \in Nat
  /\ IsFiniteSet(Ahead) /\ Cardinality(Ahead) \in Nat
<1>1. Unsettled \subseteq Searches /\ Ahead \subseteq Collectors
  BY DEF Unsettled, Ahead
<1>2. IsFiniteSet(Unsettled) /\ IsFiniteSet(Ahead)
  BY <1>1, QuotaAssumption, FS_Subset DEF QuotaAssumption
<1> QED
  BY <1>2, FS_CardinalityType

LEMMA QuotaSizesNext == Cardinality(Unsettled)' \in Nat /\ Cardinality(Ahead)' \in Nat
<1>1. Unsettled' \subseteq Searches /\ Ahead' \subseteq Collectors
  BY DEF Unsettled, Ahead
<1>2. IsFiniteSet(Unsettled') /\ IsFiniteSet(Ahead')
  BY <1>1, QuotaAssumption, FS_Subset DEF QuotaAssumption
<1> QED
  BY <1>2, FS_CardinalityType

LEMMA QuotaInitially == Quota!Init => QuotaInv
<1> SUFFICES ASSUME Quota!Init PROVE QuotaInv
  OBVIOUS
<1>1. Unsettled = {} /\ Ahead = {}
  BY DEF Quota!Init, Unsettled, Ahead
<1>2. counted \in Nat /\ shown = counted /\ reserved = 0 /\ missed = 0 /\ looked = 0 /\ Aside = 0
  BY DEF Quota!Init, Aside
<1>3. QuotaTyped
  <2>1. BatchOf \in Int
    BY QuotaAssumption DEF QuotaAssumption
  <2> QED
    BY <1>2, <2>1 DEF Quota!Init, QuotaTyped
<1>4. Balanced /\ EarlyCover
  BY <1>1, <1>2, QuotaAssumption, FS_EmptySet
  DEF QuotaAssumption, Balanced, EarlyCover, Covered, Quota!Init
<1> QED
  BY <1>3, <1>4 DEF QuotaInv

\* What the sizes of the two sets do in a step.
LEMMA Settling ==
  ASSUME NEW s \in Searches
  PROVE  /\ Unsettled' = Unsettled => Cardinality(Unsettled)' = Cardinality(Unsettled)
         /\ s \notin Unsettled /\ Unsettled' = Unsettled \cup {s} =>
              Cardinality(Unsettled)' = Cardinality(Unsettled) + 1
         /\ s \in Unsettled /\ Unsettled' = Unsettled \ {s} =>
              Cardinality(Unsettled)' = Cardinality(Unsettled) - 1
<1>1. IsFiniteSet(Unsettled)
  BY QuotaSizes
<1>2. s \notin Unsettled => Cardinality(Unsettled \cup {s}) = Cardinality(Unsettled) + 1
  BY <1>1, FS_AddElement
<1>3. s \in Unsettled => Cardinality(Unsettled \ {s}) = Cardinality(Unsettled) - 1
  BY <1>1, FS_RemoveElement
<1> QED
  BY <1>2, <1>3

LEMMA Fetching ==
  ASSUME NEW c \in Collectors
  PROVE  /\ Ahead' = Ahead => Cardinality(Ahead)' = Cardinality(Ahead)
         /\ c \notin Ahead /\ Ahead' = Ahead \cup {c} =>
              Cardinality(Ahead)' = Cardinality(Ahead) + 1
         /\ c \in Ahead /\ Ahead' = Ahead \ {c} =>
              Cardinality(Ahead)' = Cardinality(Ahead) - 1
<1>1. IsFiniteSet(Ahead)
  BY QuotaSizes
<1>2. c \notin Ahead => Cardinality(Ahead \cup {c}) = Cardinality(Ahead) + 1
  BY <1>1, FS_AddElement
<1>3. c \in Ahead => Cardinality(Ahead \ {c}) = Cardinality(Ahead) - 1
  BY <1>1, FS_RemoveElement
<1> QED
  BY <1>2, <1>3

\* The ledger moves up by one at least, to one past the usage, and within the budget.
LEMMA Reserving ==
  ASSUME QuotaTyped, NEW usage \in Nat, Quota!Reserve(usage)
  PROVE  /\ reserved' \in Nat /\ reserved' >= reserved + 1 /\ reserved' >= usage + 1
         /\ reserved' <= Budget
<1>1. reserved \in Nat /\ Budget \in Nat
  BY QuotaAssumption DEF QuotaTyped, QuotaAssumption
<1>2. reserved' = Quota!Larger(reserved, usage) + 1 /\ Quota!Larger(reserved, usage) < Budget
  BY DEF Quota!Reserve, Quota!Reserved, Quota!Reservable
<1>3. /\ Quota!Larger(reserved, usage) \in Nat
      /\ Quota!Larger(reserved, usage) >= reserved /\ Quota!Larger(reserved, usage) >= usage
  BY <1>1 DEF Quota!Larger
<1> QED
  BY <1>1, <1>2, <1>3

\* Nobody is told a usage that was not covered before.
Told ==
  /\ shown' \in {shown, counted'}
  /\ \A s \in Searches : search'[s].pc \in {"allowed", "answered"} =>
       \/ search[s].pc \in {"allowed", "answered"} /\ search'[s].usage = search[s].usage
       \/ search'[s].usage \in {shown, counted'}
  /\ \A c \in Collectors : batch'[c].pc = "open" =>
       \/ batch[c].pc = "open" /\ batch'[c].usage = batch[c].usage
       \/ batch'[c].usage \in {shown, counted'}

\* A step that leaves the ledger alone and counts no more than it misses, leaves
\* unsettled or had settled ahead.
LEMMA CoverKept ==
  ASSUME QuotaInv, QuotaTyped', reserved' = reserved, Ahead' \subseteq Ahead, Told,
         counted' + Aside + Cardinality(Unsettled) <= counted + Aside' + Cardinality(Unsettled)',
         Cardinality(Unsettled)' \in Nat
  PROVE  EarlyCover'
<1> DEFINE u == Cardinality(Unsettled)
           More(usage) == reserved = 0 => counted' <= usage + Aside' + u'
<1>1. /\ u \in Nat /\ u' \in Nat /\ counted \in Nat /\ counted' \in Nat /\ Aside \in Nat
      /\ Aside' \in Nat /\ shown \in Nat /\ reserved \in Nat
  BY QuotaSizes, AsideTyped DEF QuotaInv, QuotaTyped
<1>2. ASSUME NEW usage \in Nat, Covered(usage) PROVE More(usage)
  <2>1. reserved = 0 => counted <= usage + Aside + u
    BY <1>2 DEF Covered
  <2>2. PICK v \in Nat, v2 \in Nat : v = u /\ v2 = u'
    BY <1>1
  <2>3. counted' + Aside + v <= counted + Aside' + v2
    BY <2>2
  <2>4. reserved = 0 => counted <= usage + Aside + v
    BY <2>1, <2>2
  <2>5. reserved = 0 => counted' <= usage + Aside' + v2
    BY <1>1, <1>2, <2>2, <2>3, <2>4
  <2> QED
    BY <2>2, <2>5
<1>3. Covered(shown)
  BY DEF QuotaInv, EarlyCover
<1>4. More(shown) /\ More(counted')
  <2>1. counted' <= counted' + Aside' + u'
    <3>1. PICK x \in Nat, y \in Nat, z \in Nat : x = counted' /\ y = Aside' /\ z = u'
      BY <1>1
    <3>2. x <= x + y + z
      OBVIOUS
    <3> QED
      BY <3>1, <3>2
  <2>2. More(counted')
    <3> HIDE DEF u
    <3> QED
      BY <2>1
  <2>3. More(shown)
    BY <1>1, <1>2, <1>3
  <2> QED
    BY <2>2, <2>3
<1> HIDE DEF More
<1>5. More(shown')
  BY <1>4 DEF Told
<1>6. ASSUME NEW s \in Searches, search'[s].pc \in {"allowed", "answered"}
      PROVE  More(search'[s].usage)
  <2>1. search[s].usage \in Nat
    BY DEF QuotaInv, QuotaTyped
  <2>2. CASE search[s].pc \in {"allowed", "answered"} /\ search'[s].usage = search[s].usage
    <3>1. Covered(search[s].usage)
      BY <2>2 DEF QuotaInv, EarlyCover
    <3> QED
      BY <2>1, <2>2, <3>1, <1>2
  <2>3. CASE search'[s].usage \in {shown, counted'}
    BY <2>3, <1>4
  <2> QED
    BY <1>6, <2>2, <2>3 DEF Told
<1>7. ASSUME NEW c \in Collectors, batch'[c].pc = "open" PROVE More(batch'[c].usage)
  <2>1. batch[c].usage \in Nat
    BY DEF QuotaInv, QuotaTyped
  <2>2. CASE batch[c].pc = "open" /\ batch'[c].usage = batch[c].usage
    <3>1. Covered(batch[c].usage)
      BY <2>2 DEF QuotaInv, EarlyCover
    <3> QED
      BY <2>1, <2>2, <3>1, <1>2
  <2>3. CASE batch'[c].usage \in {shown, counted'}
    BY <2>3, <1>4
  <2> QED
    BY <1>7, <2>2, <2>3 DEF Told
<1>8. reserved' = 0 => Ahead' = {}
  BY DEF QuotaInv, EarlyCover
<1> QED
  BY <1>5, <1>6, <1>7, <1>8 DEF EarlyCover, Covered, More

LEMMA BalanceKept ==
  ASSUME QuotaInv, QuotaTyped', reserved' = reserved,
         NEW u \in Nat, NEW u2 \in Nat, NEW a \in Nat, NEW a2 \in Nat,
         u = Cardinality(Unsettled), u2 = Cardinality(Unsettled)',
         a = Cardinality(Ahead), a2 = Cardinality(Ahead)',
         counted' + a2 + Aside + u <= counted + a + Aside' + u2
  PROVE  Balanced'
<1>1. reserved \in Nat /\ counted \in Nat /\ counted' \in Nat /\ Aside \in Nat /\ Aside' \in Nat
  BY AsideTyped DEF QuotaInv, QuotaTyped
<1>2. reserved <= Budget /\ (reserved > 0 => counted + a <= reserved + Aside + u)
  BY DEF QuotaInv, Balanced
<1>3. reserved > 0 => counted' + a2 <= reserved + Aside' + u2
  BY <1>1, <1>2
<1> QED
  BY <1>2, <1>3 DEF Balanced

\* A request is counted that the ledger has no entry for.
LEMMA CountedAside ==
  ASSUME QuotaInv, QuotaTyped', Told, reserved' = reserved, counted' + Aside = counted + Aside',
         Unsettled' = Unsettled, Ahead' = Ahead
  PROVE  Balanced' /\ EarlyCover'
<1>1. /\ counted \in Nat /\ counted' \in Nat /\ Aside \in Nat /\ Aside' \in Nat
  BY AsideTyped DEF QuotaInv, QuotaTyped
<1>2. PICK c2 \in Nat, m \in Nat, m2 \in Nat, u \in Nat, a \in Nat :
        /\ c2 = counted' /\ m = Aside /\ m2 = Aside'
        /\ u = Cardinality(Unsettled) /\ a = Cardinality(Ahead)
  BY <1>1, QuotaSizes
<1>3. u = Cardinality(Unsettled)' /\ a = Cardinality(Ahead)'
  BY <1>2
<1>4. c2 + m = counted + m2
  BY <1>2
<1>5. c2 + m + u <= counted + m2 + u /\ c2 + a + m + u <= counted + a + m2 + u
  BY <1>1, <1>4
<1>6. /\ counted' + Aside + Cardinality(Unsettled) <= counted + Aside' + Cardinality(Unsettled)'
      /\ counted' + a + Aside + u <= counted + a + Aside' + u
  BY <1>2, <1>3, <1>5
<1>7. EarlyCover'
  BY <1>3, <1>6, CoverKept
<1>8. Balanced'
  BY <1>2, <1>3, <1>6, BalanceKept
<1> QED
  BY <1>7, <1>8

\* What an account request does, and what it is told.
LEMMA AccountCounted ==
  ASSUME QuotaTyped, NEW told, Quota!Account(told)
  PROVE  /\ counted' \in Nat /\ looked' \in Nat /\ missed' = missed /\ reserved' = reserved
         /\ counted' + Aside = counted + Aside'
         /\ told \in Nat /\ told \in {shown, counted'} /\ shown' = told
<1>1. /\ counted' \in {counted, counted + 1} /\ looked' = looked + (counted' - counted)
      /\ missed' = missed /\ reserved' = reserved /\ told \in {shown, counted'} /\ shown' = told
  BY DEF Quota!Account
<1>2. counted \in Nat /\ looked \in Nat /\ missed \in Nat /\ shown \in Nat
  BY DEF QuotaTyped
<1>3. counted' \in Nat /\ looked' \in Nat
  <2>1. CASE counted' = counted
    BY <1>1, <1>2, <2>1
  <2>2. CASE counted' = counted + 1
    <3>1. looked' = looked + ((counted + 1) - counted)
      BY <1>1, <2>2
    <3> QED
      BY <1>2, <2>2, <3>1
  <2> QED
    BY <1>1, <2>1, <2>2
<1>4. counted' + (looked + missed) = counted + (looked' + missed)
  <2>1. PICK c2 \in Nat, l2 \in Nat : c2 = counted' /\ l2 = looked'
    BY <1>3
  <2>2. l2 = looked + (c2 - counted)
    BY <1>1, <2>1
  <2>3. c2 + (looked + missed) = counted + (l2 + missed)
    BY <1>2, <2>1, <2>2
  <2> QED
    BY <2>1, <2>3
<1> QED
  BY <1>1, <1>2, <1>3, <1>4 DEF Aside

LEMMA AccountMissed ==
  ASSUME QuotaTyped, Quota!AccountFails
  PROVE  /\ counted' \in Nat /\ looked' \in Nat /\ missed' = missed /\ reserved' = reserved
         /\ counted' + Aside = counted + Aside' /\ shown' = shown
<1>1. /\ counted' \in {counted, counted + 1} /\ looked' = looked + (counted' - counted)
      /\ missed' = missed /\ reserved' = reserved /\ shown' = shown
  BY DEF Quota!AccountFails
<1>2. counted \in Nat /\ looked \in Nat /\ missed \in Nat
  BY DEF QuotaTyped
<1>3. counted' \in Nat /\ looked' \in Nat
  <2>1. CASE counted' = counted
    BY <1>1, <1>2, <2>1
  <2>2. CASE counted' = counted + 1
    <3>1. looked' = looked + ((counted + 1) - counted)
      BY <1>1, <2>2
    <3> QED
      BY <1>2, <2>2, <3>1
  <2> QED
    BY <1>1, <2>1, <2>2
<1>4. counted' + (looked + missed) = counted + (looked' + missed)
  <2>1. PICK c2 \in Nat, l2 \in Nat : c2 = counted' /\ l2 = looked'
    BY <1>3
  <2>2. l2 = looked + (c2 - counted)
    BY <1>1, <2>1
  <2>3. c2 + (looked + missed) = counted + (l2 + missed)
    BY <1>2, <2>1, <2>2
  <2> QED
    BY <2>1, <2>3
<1> QED
  BY <1>1, <1>3, <1>4 DEF Aside

LEMMA LedgerRecorded ==
  ASSUME reserved' \in Nat, reserved' > 0
  PROVE  EarlyCover'
  BY DEF EarlyCover, Covered

\* An entry of the ledger, by the owner of a usage that was covered.
LEMMA Entered ==
  ASSUME QuotaInv, NEW usage \in Nat, Covered(usage), Quota!Reserve(usage),
         counted' = counted, Aside' = Aside,
         Cardinality(Ahead)' + Cardinality(Unsettled)
           <= Cardinality(Ahead) + Cardinality(Unsettled)' + 1
  PROVE  Balanced' /\ EarlyCover'
<1>1. PICK u \in Nat, u2 \in Nat, a \in Nat, a2 \in Nat :
        /\ u = Cardinality(Unsettled) /\ u2 = Cardinality(Unsettled)'
        /\ a = Cardinality(Ahead) /\ a2 = Cardinality(Ahead)'
  BY QuotaSizes, QuotaSizesNext
<1>2. a2 + u <= a + u2 + 1
  BY <1>1
<1>3. /\ reserved' \in Nat /\ reserved' >= reserved + 1 /\ reserved' >= usage + 1
      /\ reserved' <= Budget
  BY Reserving DEF QuotaInv
<1>4. counted \in Nat /\ Aside \in Nat /\ reserved \in Nat
  BY AsideTyped DEF QuotaInv, QuotaTyped
<1>5. counted + a2 <= reserved' + Aside + u2
  <2>1. CASE reserved > 0
    <3>1. counted + a <= reserved + Aside + u
      BY <1>1, <2>1 DEF QuotaInv, Balanced
    <3> QED
      BY <1>1, <1>2, <1>3, <1>4, <3>1
  <2>2. CASE reserved = 0
    <3>1. a = 0
      BY <1>1, <2>2, FS_EmptySet DEF QuotaInv, EarlyCover
    <3>2. counted <= usage + Aside + u
      BY <1>1, <2>2 DEF Covered
    <3> QED
      BY <1>1, <1>2, <1>3, <1>4, <3>1, <3>2
  <2> QED
    BY <1>4, <2>1, <2>2
<1>6. Balanced'
  BY <1>1, <1>3, <1>5 DEF Balanced
<1>7. reserved' > 0
  BY <1>3, <1>4
<1> QED
  BY <1>3, <1>6, <1>7, LedgerRecorded

LEMMA QuotaInductive == QuotaInv /\ [Quota!Next]_(Quota!quotaVars) => QuotaInv'
<1> SUFFICES ASSUME QuotaInv, [Quota!Next]_(Quota!quotaVars) PROVE QuotaInv'
  OBVIOUS
<1> DEFINE U == Cardinality(Unsettled)
           A == Cardinality(Ahead)
<1>1. /\ QuotaTyped /\ Balanced /\ EarlyCover
      /\ Budget \in Nat /\ BatchOf \in Nat /\ Plan \in Nat
  BY QuotaAssumption DEF QuotaInv, QuotaAssumption
<1>2. U \in Nat /\ A \in Nat /\ U' \in Nat /\ A' \in Nat
  BY QuotaSizes, QuotaSizesNext
<1>0. /\ counted \in Nat /\ shown \in Nat /\ reserved \in Nat /\ Aside \in Nat
      /\ looked \in Nat /\ missed \in Nat
  BY <1>1, AsideTyped DEF QuotaTyped
<1> HIDE DEF U, A
<1>3. ASSUME Quota!CatchUp PROVE QuotaInv'
  <2>1. QuotaTyped'
    BY <1>1, <1>3 DEF Quota!CatchUp, QuotaTyped
  <2>2. Unsettled' = Unsettled /\ Ahead' = Ahead /\ Told
    BY <1>3 DEF Quota!CatchUp, Unsettled, Ahead, Told
  <2>3. U' = U /\ A' = A
    BY <2>2 DEF U, A
  <2>4. counted' = counted /\ Aside' = Aside /\ reserved' = reserved
    BY <1>3, AsideKept DEF Quota!CatchUp
  <2>5. /\ counted' + Aside + U <= counted + Aside' + U'
        /\ counted' + A' + Aside + U <= counted + A + Aside' + U'
    BY <1>0, <1>2, <2>3, <2>4
  <2>6. Balanced' /\ EarlyCover'
    BY <1>2, <2>1, <2>2, <2>4, <2>5, CoverKept, BalanceKept DEF U, A
  <2> QED
    BY <2>1, <2>6 DEF QuotaInv
<1>4. ASSUME NEW s \in Searches, Quota!Ask(s) \/ Quota!AskFails(s) PROVE QuotaInv'
  <2>1. CASE Quota!Ask(s)
    <3>1. PICK told \in 0 .. Plan :
            /\ Quota!Account(told)
            /\ search' = [search EXCEPT ![s] = [pc |-> IF told + 1 < Budget /\ told + 2 <= Plan
                                                       THEN "allowed" ELSE "refused",
                                                usage |-> told]]
      BY <2>1 DEF Quota!Ask
    <3>2. PICK p \in {"allowed", "refused"} : search' = [search EXCEPT ![s] = [pc |-> p, usage |-> told]]
      BY <3>1
    <3>3. search[s].pc = "idle" /\ batch' = batch
      BY <2>1 DEF Quota!Ask
    <3>4. /\ counted' \in Nat /\ looked' \in Nat /\ missed' = missed /\ reserved' = reserved
          /\ counted' + Aside = counted + Aside'
          /\ told \in Nat /\ told \in {shown, counted'} /\ shown' = told
      BY <1>1, <3>1, AccountCounted
    <3>5. QuotaTyped'
      BY <1>1, <3>2, <3>3, <3>4 DEF QuotaTyped
    <3>6. Unsettled' = Unsettled /\ Ahead' = Ahead
      BY <1>1, <3>2, <3>3 DEF QuotaTyped, Unsettled, Ahead
    <3>7. Told
      BY <1>1, <3>2, <3>3, <3>4 DEF QuotaTyped, Told
    <3> QED
      BY <3>4, <3>5, <3>6, <3>7, CountedAside DEF QuotaInv
  <2>2. CASE Quota!AskFails(s)
    <3>1. /\ Quota!AccountFails /\ search[s].pc = "idle" /\ batch' = batch
          /\ search' = [search EXCEPT ![s].pc = "refused"]
      BY <2>2 DEF Quota!AskFails, Quota!Moved
    <3>2. /\ counted' \in Nat /\ looked' \in Nat /\ missed' = missed /\ reserved' = reserved
          /\ counted' + Aside = counted + Aside' /\ shown' = shown
      BY <1>1, <3>1, AccountMissed
    <3>3. QuotaTyped'
      BY <1>1, <3>1, <3>2 DEF QuotaTyped
    <3>4. Unsettled' = Unsettled /\ Ahead' = Ahead
      BY <1>1, <3>1 DEF QuotaTyped, Unsettled, Ahead
    <3>5. Told
      BY <1>1, <3>1, <3>2 DEF QuotaTyped, Told
    <3> QED
      BY <3>2, <3>3, <3>4, <3>5, CountedAside DEF QuotaInv
  <2> QED
    BY <1>4, <2>1, <2>2
<1>5. ASSUME NEW s \in Searches, Quota!Query(s) PROVE QuotaInv'
  <2>1. QuotaTyped'
    BY <1>1, <1>5 DEF Quota!Query, Quota!Moved, QuotaTyped
  <2>2. Unsettled' = Unsettled \cup {s} /\ Ahead' = Ahead /\ s \notin Unsettled
    BY <1>1, <1>5 DEF Quota!Query, Quota!Moved, QuotaTyped, Unsettled, Ahead
  <2>3. U' = U + 1 /\ A' = A
    BY <2>2, Settling DEF U, A
  <2>4. counted' = counted + 1 /\ Aside' = Aside /\ reserved' = reserved
    BY <1>1, <1>5, AsideKept DEF Quota!Query, Quota!Moved, QuotaTyped
  <2>5. /\ counted' + Aside + U <= counted + Aside' + U'
        /\ counted' + A' + Aside + U <= counted + A + Aside' + U'
    BY <1>0, <1>2, <2>1, <2>3, <2>4 DEF QuotaTyped
  <2>6. Told
    BY <1>1, <1>5 DEF Quota!Query, Quota!Moved, QuotaTyped, Told
  <2>7. Balanced' /\ EarlyCover'
    BY <1>2, <2>1, <2>2, <2>4, <2>5, <2>6, CoverKept, BalanceKept DEF U, A
  <2> QED
    BY <2>1, <2>7 DEF QuotaInv
<1>6. ASSUME NEW s \in Searches, Quota!QueryFails(s) PROVE QuotaInv'
  <2>1. /\ counted' \in {counted, counted + 1} /\ missed' = missed + (counted' - counted)
        /\ search' = [search EXCEPT ![s].pc = "failed"] /\ search[s].pc = "allowed"
        /\ UNCHANGED <<shown, reserved, batch, looked>>
    BY <1>6 DEF Quota!QueryFails, Quota!Moved
  <2>2. counted' \in Nat /\ missed' \in Nat
    BY <1>0, <2>1
  <2>3. counted' + (looked + missed) = counted + (looked' + missed')
    BY <1>0, <2>1
  <2>4. counted' + Aside = counted + Aside'
    BY <2>3 DEF Aside
  <2>5. QuotaTyped'
    BY <1>1, <2>1, <2>2 DEF QuotaTyped
  <2>6. Unsettled' = Unsettled /\ Ahead' = Ahead
    BY <1>1, <2>1 DEF QuotaTyped, Unsettled, Ahead
  <2>7. Told
    BY <1>1, <2>1 DEF QuotaTyped, Told
  <2> QED
    BY <2>1, <2>4, <2>5, <2>6, <2>7, CountedAside DEF QuotaInv
<1>7. ASSUME NEW s \in Searches, Quota!SettleFails(s) PROVE QuotaInv'
  <2>1. QuotaTyped'
    BY <1>1, <1>7 DEF Quota!SettleFails, Quota!Moved, QuotaTyped
  <2>2. Unsettled' = Unsettled \ {s} /\ Ahead' = Ahead /\ s \in Unsettled
    BY <1>1, <1>7 DEF Quota!SettleFails, Quota!Moved, QuotaTyped, Unsettled, Ahead
  <2>3. U' = U - 1 /\ A' = A
    BY <2>2, Settling DEF U, A
  <2>4. counted' = counted /\ Aside' = Aside + 1 /\ reserved' = reserved
    <3>1. /\ counted' = counted /\ missed' = missed + 1 /\ looked' = looked
          /\ reserved' = reserved
      BY <1>7 DEF Quota!SettleFails
    <3> QED
      BY <1>0, <3>1 DEF Aside
  <2>5. /\ counted' + Aside + U <= counted + Aside' + U'
        /\ counted' + A' + Aside + U <= counted + A + Aside' + U'
    BY <1>0, <1>2, <2>1, <2>3, <2>4 DEF QuotaTyped
  <2>6. Told
    BY <1>1, <1>7 DEF Quota!SettleFails, Quota!Moved, QuotaTyped, Told
  <2>7. Balanced' /\ EarlyCover'
    BY <1>2, <2>1, <2>2, <2>4, <2>5, <2>6, CoverKept, BalanceKept DEF U, A
  <2> QED
    BY <2>1, <2>7 DEF QuotaInv
<1>8. ASSUME NEW c \in Collectors, Quota!Open(c) \/ Quota!OpenFails(c) PROVE QuotaInv'
  <2>1. CASE Quota!Open(c)
    <3>1. PICK told \in 0 .. Plan :
            /\ Quota!Account(told)
            /\ batch' = [batch EXCEPT ![c].pc = IF told + BatchOf <= Budget /\ told + BatchOf <= Plan
                                                THEN "open" ELSE "stopped",
                                      ![c].usage = told]
      BY <2>1 DEF Quota!Open
    <3>2. PICK p \in {"open", "stopped"} :
            batch' = [batch EXCEPT ![c] = [batch[c] EXCEPT !.pc = p, !.usage = told]]
      BY <3>1
    <3>3. batch[c].pc = "idle" /\ search' = search
      BY <2>1 DEF Quota!Open
    <3>4. /\ counted' \in Nat /\ looked' \in Nat /\ missed' = missed /\ reserved' = reserved
          /\ counted' + Aside = counted + Aside'
          /\ told \in Nat /\ told \in {shown, counted'} /\ shown' = told
      BY <1>1, <3>1, AccountCounted
    <3>5. QuotaTyped'
      <4>1. [batch[c] EXCEPT !.pc = p, !.usage = told]
              \in [pc : {"idle", "open", "stopped", "reserved", "done"}, usage : Nat, left : Int]
        BY <1>1, <3>4 DEF QuotaTyped
      <4> QED
        BY <1>1, <3>2, <3>3, <3>4, <4>1 DEF QuotaTyped
    <3>6. Unsettled' = Unsettled /\ Ahead' = Ahead
      BY <1>1, <3>2, <3>3 DEF QuotaTyped, Unsettled, Ahead
    <3>7. Told
      BY <1>1, <3>2, <3>3, <3>4 DEF QuotaTyped, Told
    <3> QED
      BY <3>4, <3>5, <3>6, <3>7, CountedAside DEF QuotaInv
  <2>2. CASE Quota!OpenFails(c)
    <3>1. /\ Quota!AccountFails /\ batch[c].pc = "idle" /\ search' = search
          /\ batch' = [batch EXCEPT ![c].pc = "stopped"]
      BY <2>2 DEF Quota!OpenFails
    <3>2. /\ counted' \in Nat /\ looked' \in Nat /\ missed' = missed /\ reserved' = reserved
          /\ counted' + Aside = counted + Aside' /\ shown' = shown
      BY <1>1, <3>1, AccountMissed
    <3>3. QuotaTyped'
      BY <1>1, <3>1, <3>2 DEF QuotaTyped
    <3>4. Unsettled' = Unsettled /\ Ahead' = Ahead
      BY <1>1, <3>1 DEF QuotaTyped, Unsettled, Ahead
    <3>5. Told
      BY <1>1, <3>1, <3>2 DEF QuotaTyped, Told
    <3> QED
      BY <3>2, <3>3, <3>4, <3>5, CountedAside DEF QuotaInv
  <2> QED
    BY <1>8, <2>1, <2>2
<1>9. ASSUME NEW s \in Searches, Quota!Settle(s) PROVE QuotaInv'
  <2>1. /\ search[s].usage \in Nat /\ search[s].pc = "answered" /\ Quota!Reserve(search[s].usage)
        /\ search' = [search EXCEPT ![s].pc = "settled"]
        /\ UNCHANGED <<counted, shown, batch, looked, missed>>
    BY <1>1, <1>9 DEF Quota!Settle, Quota!Moved, QuotaTyped
  <2>2. reserved' \in Nat
    BY <1>1, <2>1, Reserving
  <2>3. QuotaTyped'
    BY <1>1, <2>1, <2>2 DEF QuotaTyped
  <2>4. Unsettled' = Unsettled \ {s} /\ Ahead' = Ahead /\ s \in Unsettled
    BY <1>1, <2>1 DEF QuotaTyped, Unsettled, Ahead
  <2>5. U' = U - 1 /\ A' = A
    BY <2>4, Settling DEF U, A
  <2>6. Covered(search[s].usage)
    BY <1>1, <2>1 DEF EarlyCover
  <2>7. A' + U <= A + U' + 1
    BY <1>2, <2>5
  <2>8. Balanced' /\ EarlyCover'
    BY <2>1, <2>6, <2>7, AsideKept, Entered DEF U, A
  <2> QED
    BY <2>3, <2>8 DEF QuotaInv
<1>10. ASSUME NEW c \in Collectors, Quota!ReserveNext(c) PROVE QuotaInv'
  <2>1. /\ batch[c].usage \in Nat /\ batch[c].pc = "open" /\ Quota!Reserve(batch[c].usage)
        /\ batch' = [batch EXCEPT ![c].pc = "reserved"]
        /\ UNCHANGED <<counted, shown, search, looked, missed>>
    BY <1>1, <1>10 DEF Quota!ReserveNext, QuotaTyped
  <2>2. reserved' \in Nat
    BY <1>1, <2>1, Reserving
  <2>3. QuotaTyped'
    BY <1>1, <2>1, <2>2 DEF QuotaTyped
  <2>4. Unsettled' = Unsettled /\ Ahead' = Ahead \cup {c} /\ c \notin Ahead
    BY <1>1, <2>1 DEF QuotaTyped, Unsettled, Ahead
  <2>5. U' = U /\ A' = A + 1
    BY <2>4, Fetching DEF U, A
  <2>6. Covered(batch[c].usage)
    BY <1>1, <2>1 DEF EarlyCover
  <2>7. A' + U <= A + U' + 1
    BY <1>2, <2>5
  <2>8. Balanced' /\ EarlyCover'
    BY <2>1, <2>6, <2>7, AsideKept, Entered DEF U, A
  <2> QED
    BY <2>3, <2>8 DEF QuotaInv
<1>11. ASSUME NEW c \in Collectors, Quota!ReserveFails(c) PROVE QuotaInv'
  <2>1. /\ batch[c].usage \in Nat /\ batch[c].pc = "open"
        /\ reserved' = reserved \/ Quota!Reserve(batch[c].usage)
        /\ batch' = [batch EXCEPT ![c].pc = "stopped"]
        /\ UNCHANGED <<counted, shown, search, looked, missed>>
    BY <1>1, <1>11 DEF Quota!ReserveFails, QuotaTyped
  <2>2. reserved' \in Nat
    BY <1>0, <1>1, <2>1, Reserving
  <2>3. QuotaTyped'
    BY <1>1, <2>1, <2>2 DEF QuotaTyped
  <2>4. Unsettled' = Unsettled /\ Ahead' = Ahead
    BY <1>1, <2>1 DEF QuotaTyped, Unsettled, Ahead
  <2>5. U' = U /\ A' = A
    BY <2>4 DEF U, A
  <2>6. CASE reserved' = reserved
    <3>1. /\ counted' + Aside + U <= counted + Aside' + U'
          /\ counted' + A' + Aside + U <= counted + A + Aside' + U'
      BY <1>0, <1>2, <2>1, <2>5, AsideKept
    <3>2. Told
      BY <1>1, <2>1 DEF QuotaTyped, Told
    <3> QED
      BY <1>2, <2>3, <2>4, <2>6, <3>1, <3>2, CoverKept, BalanceKept DEF U, A, QuotaInv
  <2>7. CASE Quota!Reserve(batch[c].usage)
    <3>1. Covered(batch[c].usage)
      BY <1>1, <2>1 DEF EarlyCover
    <3>2. A' + U <= A + U' + 1
      BY <1>2, <2>5
    <3>3. Balanced' /\ EarlyCover'
      BY <2>1, <2>7, <3>1, <3>2, AsideKept, Entered DEF U, A
    <3> QED
      BY <2>3, <3>3 DEF QuotaInv
  <2> QED
    BY <2>1, <2>6, <2>7
<1>12. ASSUME NEW c \in Collectors, Quota!Fetch(c) \/ Quota!FetchFails(c) PROVE QuotaInv'
  <2>1. /\ batch[c].pc = "reserved" /\ counted' \in {counted, counted + 1}
        /\ shown' = shown /\ reserved' = reserved /\ search' = search
        /\ looked' = looked /\ missed' = missed /\ Aside' = Aside
    BY <1>0, <1>12, AsideKept DEF Quota!Fetch, Quota!FetchFails
  <2>2. /\ batch' \in [Collectors -> [pc : {"idle", "open", "stopped", "reserved", "done"}, usage : Nat,
                                     left : Int]]
        /\ batch'[c].pc # "reserved" /\ \A d \in Collectors \ {c} : batch'[d] = batch[d]
    BY <1>1, <1>12 DEF Quota!Fetch, Quota!FetchFails, QuotaTyped
  <2>3. QuotaTyped'
    BY <1>0, <1>1, <2>1, <2>2 DEF QuotaTyped
  <2>4. Unsettled' = Unsettled /\ Ahead' = Ahead \ {c} /\ c \in Ahead
    BY <1>1, <2>1, <2>2 DEF Unsettled, Ahead
  <2>5. U' = U /\ A' = A - 1
    BY <2>4, Fetching DEF U, A
  <2>6. counted' + A' + Aside + U <= counted + A + Aside' + U'
    <3>1. PICK c2 \in Nat, u \in Nat, a \in Nat : c2 = counted' /\ u = U /\ a = A
      BY <1>0, <1>2, <2>1
    <3>2. c2 = counted \/ c2 = counted + 1
      BY <2>1, <3>1
    <3>3. c2 \in Nat /\ u \in Nat /\ a \in Nat /\ counted \in Nat /\ Aside \in Nat
      BY <1>0, <3>1
    <3>4. c2 + (a - 1) + Aside + u <= counted + a + Aside + u
      BY <3>2, <3>3
    <3> QED
      BY <2>1, <2>5, <3>1, <3>4
  <2>7. Balanced'
    BY <1>2, <2>1, <2>3, <2>6, BalanceKept DEF U, A
  <2>8. reserved' \in Nat /\ reserved' > 0
    BY <1>0, <1>1, <2>1, <2>4 DEF EarlyCover
  <2> QED
    BY <2>3, <2>7, <2>8, LedgerRecorded DEF QuotaInv
<1>13. ASSUME UNCHANGED Quota!quotaVars PROVE QuotaInv'
  <2>1. /\ counted' = counted /\ shown' = shown /\ reserved' = reserved
        /\ looked' = looked /\ missed' = missed /\ Aside' = Aside
        /\ search' = search /\ batch' = batch
    BY <1>13, AsideKept DEF Quota!quotaVars
  <2>2. Unsettled' = Unsettled /\ Ahead' = Ahead
    BY <2>1 DEF Unsettled, Ahead
  <2> QED
    BY <1>1, <2>1, <2>2 DEF QuotaInv, QuotaTyped, Balanced, EarlyCover, Covered
<1> QED
  BY <1>3, <1>4, <1>5, <1>6, <1>7, <1>8, <1>9, <1>10, <1>11, <1>12, <1>13 DEF Quota!Next

\* The ledger never passes the budget, and from its first entry it covers every
\* search the provider counted except those that could not be settled and those
\* that are about to be; account requests, billed and never entered, come on top
\* (Store.ReserveSearch of store/proposals.go:24-35, Web.Search of
\* planning/web.go:123-162, and serpapi_baidu.py).
THEOREM LedgerStandsForUse == Spec => []LedgerCoversUse
<1>1. QuotaInv => LedgerCoversUse
  <2> SUFFICES ASSUME QuotaInv PROVE LedgerCoversUse
    OBVIOUS
  <2>1. PICK u \in Nat, a \in Nat : u = Cardinality(Unsettled) /\ a = Cardinality(Ahead)
    BY QuotaSizes
  <2>2. counted \in Nat /\ reserved \in Nat /\ Aside \in Nat
    BY AsideTyped DEF QuotaInv, QuotaTyped
  <2>3. reserved <= Budget /\ (reserved > 0 => counted + a <= reserved + Aside + u)
    BY <2>1 DEF QuotaInv, Balanced
  <2>4. reserved > 0 => counted <= looked + reserved + missed + u
    <3>1. reserved > 0 => counted <= reserved + Aside + u
      BY <2>1, <2>2, <2>3
    <3>2. looked \in Nat /\ missed \in Nat
      BY DEF QuotaInv, QuotaTyped
    <3> QED
      BY <2>1, <2>2, <3>1, <3>2 DEF Aside
  <2>5. Quota!Cardinality({s \in Searches : search[s].pc = "answered"}) = u
    BY <2>1, QuotaCardinality DEF Unsettled
  <2> QED
    BY <2>3, <2>4, <2>5 DEF LedgerCoversUse, Quota!LedgerCoversUse
<1> QED
  BY <1>1, QuotaFollowed, QuotaInitially, QuotaInductive, PTL DEF Quota!Spec
-----------------------------------------------------------------------------
(* The sessions of the agents in Redis (AgentSession) *)

LEMMA SessionsFollowed == Spec => Agent!Spec
<1>1. Init => Agent!Init
  BY DEF Init
<1>2. [Next]_vars => [Agent!Next]_(Agent!sessionVars)
  BY DEF Next, vars, agents, Agent!sessionVars
<1> QED
  BY <1>1, <1>2, PTL DEF Spec, Agent!Spec

CallFields  == {"pc", "event", "loaded", "read", "held"}
StoreFields == {"session", "app", "user"}

SessionsShape ==
  /\ agent = [a \in Agents |-> [f \in CallFields |-> agent[a][f]]]
  /\ store = [f \in StoreFields |-> store[f]]
  /\ issued \in Seq(SUBSET UNION Layers)
  /\ overlapped \in BOOLEAN

\* The stages of an append, and those after it has read the session.
Loaded    == {"get app", "set app", "get user", "set user", "set session"}
Appending == Loaded \cup {"load"}

\* A session holds the events known, none after the n-th, in order.
Keeps(session, known, n) ==
  /\ session.events \in Seq(1..n)
  /\ \A i, j \in DOMAIN session.events : i < j => session.events[i] < session.events[j]
  /\ known \subseteq Agent!ToSet(session.events)

\* A call that appends adds the latest event to a history without it.
AddsTheLatest(a) ==
  /\ agent[a].pc \in Appending =>
       /\ agent[a].event = Len(issued) /\ Len(issued) > 0
       /\ store.session # Agent!None => Keeps(store.session, acked, Len(issued) - 1)
  /\ agent[a].pc \in Loaded => Keeps(agent[a].loaded, acked, Len(issued) - 1)

SessionsInv ==
  /\ SessionsShape
  /\ \A a \in Agents : agent[a].pc \in Appending \cup {"idle", "create"}
  /\ ~overlapped =>
       /\ \A a, b \in Agents : agent[a].pc # "idle" /\ agent[b].pc # "idle" => a = b
       /\ store.session # Agent!None => Keeps(store.session, acked, Len(issued))
       /\ \A a \in Agents : AddsTheLatest(a)

LEMMA SessionsInitially == Agent!Init => SessionsInv
<1> SUFFICES ASSUME Agent!Init PROVE SessionsInv
  OBVIOUS
<1>1. /\ agent = [a \in Agents |-> Agent!Blank] /\ issued = <<>> /\ overlapped = FALSE
      /\ store = [session |-> Agent!None, app |-> {}, user |-> {}]
  BY DEF Agent!Init
<1>2. SessionsShape
  <2>1. agent = [a \in Agents |-> [f \in CallFields |-> agent[a][f]]]
    BY <1>1 DEF CallFields, Agent!Blank
  <2>2. store = [f \in StoreFields |-> store[f]]
    BY <1>1 DEF StoreFields
  <2>3. issued \in Seq(SUBSET UNION Layers)
    BY DEF Agent!Init
  <2> QED
    BY <1>1, <2>1, <2>2, <2>3 DEF SessionsShape
<1>3. \A a \in Agents : agent[a].pc = "idle"
  BY <1>1 DEF Agent!Blank
<1>4. store.session = Agent!None
  BY <1>1
<1> QED
  BY <1>2, <1>3, <1>4 DEF SessionsInv, AddsTheLatest, Appending, Loaded

LEMMA SessionElements ==
  ASSUME NEW s
  PROVE  \A x : x \in Agent!ToSet(s) <=> \E i \in DOMAIN s : s[i] = x
BY DEF Agent!ToSet

\* A history with one event more.
LEMMA KeepsMore ==
  ASSUME NEW n \in Nat \ {0}, NEW s, NEW w, NEW known, NEW more,
         Keeps(s, known, n - 1), w.events = Append(s.events, n), more \subseteq known \cup {n}
  PROVE  Keeps(w, more, n)
<1> DEFINE es == s.events
           ws == w.events
<1>1. es \in Seq(1..(n - 1)) /\ Len(es) \in Nat /\ DOMAIN es = 1..Len(es)
  BY DEF Keeps
<1>2. ws \in Seq(1..n) /\ Len(ws) = Len(es) + 1 /\ DOMAIN ws = 1..(Len(es) + 1)
  <2>1. es \in Seq(1..n)
    BY <1>1
  <2> QED
    BY <1>1, <2>1
<1>3. ws[Len(es) + 1] = n /\ \A i \in 1..Len(es) : ws[i] = es[i] /\ es[i] \in 1..(n - 1)
  BY <1>1
<1>4. ASSUME NEW i \in DOMAIN ws, NEW j \in DOMAIN ws, i < j PROVE ws[i] < ws[j]
  <2>1. i \in 1..Len(es) /\ ws[i] = es[i] /\ es[i] \in 1..(n - 1)
    BY <1>1, <1>2, <1>3, <1>4
  <2>2. CASE j = Len(es) + 1
    BY <1>3, <2>1, <2>2
  <2>3. CASE j # Len(es) + 1
    <3>1. j \in 1..Len(es) /\ ws[j] = es[j]
      BY <1>1, <1>2, <1>3, <2>3
    <3> QED
      BY <1>1, <1>4, <2>1, <3>1 DEF Keeps
  <2> QED
    BY <2>2, <2>3
<1>5. more \subseteq Agent!ToSet(ws)
  <2>1. \A i \in 1..Len(es) : es[i] \in Agent!ToSet(ws)
    <3> TAKE i \in 1..Len(es)
    <3>1. i \in DOMAIN ws /\ ws[i] = es[i]
      BY <1>1, <1>2, <1>3
    <3> QED
      BY <3>1, SessionElements
  <2>2. n \in Agent!ToSet(ws)
    <3>1. Len(es) + 1 \in DOMAIN ws
      BY <1>1, <1>2
    <3> QED
      BY <1>3, <3>1, SessionElements
  <2>3. \A x \in known : \E i \in 1..Len(es) : es[i] = x
    BY <1>1, SessionElements DEF Keeps
  <2> QED
    BY <2>1, <2>2, <2>3
<1> QED
  BY <1>2, <1>4, <1>5 DEF Keeps

\* A history stands while more is issued.
LEMMA KeepsLonger ==
  ASSUME NEW n \in Nat, NEW m \in Nat, NEW s, NEW known, Keeps(s, known, n), n <= m
  PROVE  Keeps(s, known, m)
<1>1. s.events \in Seq(1..m)
  BY DEF Keeps
<1> QED
  BY <1>1 DEF Keeps

\* What one call does while it alone writes, or as it begins to.
LEMMA SessionsMove ==
  ASSUME SessionsInv, SessionsShape', NEW a \in Agents,
         agent'[a].pc \in Appending \cup {"idle", "create"},
         \A b \in Agents \ {a} : agent'[b] = agent[b],
         ~overlapped' => /\ ~overlapped
                         /\ \A b \in Agents \ {a} : agent'[a].pc # "idle" => agent[b].pc = "idle"
                         /\ store'.session # Agent!None => Keeps(store'.session, acked', Len(issued'))
                         /\ AddsTheLatest(a)'
                         /\ \A b \in Agents \ {a} : AddsTheLatest(b)'
  PROVE  SessionsInv'
<1>1. \A b \in Agents : agent'[b].pc \in Appending \cup {"idle", "create"}
  BY DEF SessionsInv
<1>2. ASSUME ~overlapped', NEW b \in Agents, NEW c \in Agents, agent'[b].pc # "idle", agent'[c].pc # "idle"
      PROVE  b = c
  BY <1>2 DEF SessionsInv
<1>3. \A b \in Agents : ~overlapped' => AddsTheLatest(b)'
  OBVIOUS
<1> QED
  BY <1>1, <1>2, <1>3 DEF SessionsInv

\* A call that stands still adds nothing.
LEMMA IdleAddsNothing ==
  ASSUME NEW a \in Agents, agent'[a].pc \in {"idle", "create"}
  PROVE  AddsTheLatest(a)'
BY DEF AddsTheLatest, Appending, Loaded

LEMMA ScopeStages ==
  ASSUME NEW scope \in Agent!Scopes
  PROVE  Agent!Getting[scope] \in Loaded /\ Agent!Setting[scope] \in Loaded
<1>1. CASE scope = "app"
  BY <1>1 DEF Agent!Getting, Agent!Setting, Loaded
<1>2. CASE scope = "user"
  BY <1>2 DEF Agent!Getting, Agent!Setting, Loaded
<1> QED
  BY <1>1, <1>2 DEF Agent!Scopes

\* A call that is given a new record.
LEMMA CallMoves ==
  ASSUME SessionsShape, NEW a \in Agents, NEW e, agent' = [agent EXCEPT ![a] = e],
         e = [f \in CallFields |-> e[f]]
  PROVE  /\ agent' = [b \in Agents |-> [f \in CallFields |-> agent'[b][f]]]
         /\ agent'[a] = e /\ \A b \in Agents \ {a} : agent'[b] = agent[b]
BY DEF SessionsShape

LEMMA SessionsInductive == SessionsInv /\ [Agent!Next]_(Agent!sessionVars) => SessionsInv'
<1> SUFFICES ASSUME SessionsInv, [Agent!Next]_(Agent!sessionVars) PROVE SessionsInv'
  OBVIOUS
<1>1. /\ SessionsShape /\ Len(issued) \in Nat
      /\ \A a \in Agents : agent[a].pc \in Appending \cup {"idle", "create"}
  BY DEF SessionsInv, SessionsShape
<1>2. ASSUME ~overlapped
      PROVE  /\ \A a, b \in Agents : agent[a].pc # "idle" /\ agent[b].pc # "idle" => a = b
             /\ store.session # Agent!None => Keeps(store.session, acked, Len(issued))
             /\ \A a \in Agents : AddsTheLatest(a)
  BY <1>2 DEF SessionsInv
<1>3. /\ agent = [a \in Agents |-> [f \in CallFields |-> agent[a][f]]]
      /\ store = [f \in StoreFields |-> store[f]]
      /\ issued \in Seq(SUBSET UNION Layers) /\ overlapped \in BOOLEAN
  BY <1>1 DEF SessionsShape
<1> HIDE DEF SessionsInv
<1>4. ASSUME NEW a \in Agents, Agent!Create(a) PROVE SessionsInv'
  <2>1. /\ agent[a].pc = "idle" /\ store.session = Agent!None /\ UNCHANGED <<store, issued, acked>>
        /\ agent' = [agent EXCEPT ![a].pc = "create", ![a].event = Agent!Created]
        /\ overlapped' = (overlapped \/ \E b \in Agents \ {a} : Agent!Writing(b))
    BY <1>4 DEF Agent!Create, Agent!Enter
  <2>2. /\ agent' = [b \in Agents |-> [f \in CallFields |-> agent'[b][f]]]
        /\ agent'[a].pc = "create" /\ \A b \in Agents \ {a} : agent'[b] = agent[b]
    BY <1>3, <2>1 DEF CallFields
  <2>3. SessionsShape'
    BY <1>3, <2>1, <2>2 DEF SessionsShape
  <2>4. ASSUME ~overlapped'
        PROVE  ~overlapped /\ \A b \in Agents \ {a} : agent[b].pc = "idle" /\ agent'[b].pc = "idle"
    BY <1>1, <2>1, <2>2, <2>4 DEF Agent!Writing, Appending, Loaded
  <2>5. ~overlapped' => AddsTheLatest(a)' /\ \A b \in Agents \ {a} : AddsTheLatest(b)'
    BY <2>2, <2>4, IdleAddsNothing
  <2> QED
    BY <1>1, <2>1, <2>2, <2>3, <2>4, <2>5, SessionsMove
<1>5. ASSUME NEW a \in Agents, Agent!StoreNew(a) PROVE SessionsInv'
  <2> DEFINE new == [state |-> {Agent!Created}, events |-> <<>>]
  <2>1. /\ agent[a].pc = "create" /\ store' = [store EXCEPT !.session = new]
        /\ agent' = [agent EXCEPT ![a] = [Agent!Blank EXCEPT !.held = new]]
        /\ acked' = {} /\ UNCHANGED <<issued, overlapped>>
    BY <1>5 DEF Agent!StoreNew
  <2>2. /\ agent' = [b \in Agents |-> [f \in CallFields |-> agent'[b][f]]]
        /\ agent'[a].pc = "idle" /\ \A b \in Agents \ {a} : agent'[b] = agent[b]
    BY <1>3, <2>1 DEF CallFields, Agent!Blank
  <2>3. store' = [f \in StoreFields |-> store'[f]] /\ store'.session = new
    BY <1>3, <2>1 DEF StoreFields
  <2>4. SessionsShape'
    BY <1>3, <2>1, <2>2, <2>3 DEF SessionsShape
  <2>5. ASSUME ~overlapped' PROVE ~overlapped /\ \A b \in Agents \ {a} : agent'[b].pc = "idle"
    BY <1>2, <2>1, <2>2, <2>5
  <2>6. ~overlapped' => AddsTheLatest(a)' /\ \A b \in Agents \ {a} : AddsTheLatest(b)'
    BY <2>2, <2>5, IdleAddsNothing
  <2>7. Keeps(store'.session, acked', Len(issued'))
    <3>1. new.events = <<>> /\ \A n \in Nat : new.events \in Seq(1..n) /\ DOMAIN new.events = {}
      OBVIOUS
    <3> QED
      BY <1>1, <2>1, <2>3, <3>1 DEF Keeps
  <2> QED
    BY <1>1, <2>2, <2>4, <2>5, <2>6, <2>7, SessionsMove
<1>6. ASSUME NEW a \in Agents, Agent!Get(a) PROVE SessionsInv'
  <2>1. UNCHANGED <<store, issued, acked, overlapped>> /\ agent[a].pc = "idle"
    BY <1>6 DEF Agent!Get
  <2>2. PICK from \in {0, 2}, latest \in {0, 1} :
          agent' = [agent EXCEPT ![a].held =
            [state |-> store.session.state, events |-> Agent!Filtered(store.session.events, from, latest)]]
    BY <1>6 DEF Agent!Get
  <2>3. /\ agent' = [b \in Agents |-> [f \in CallFields |-> agent'[b][f]]]
        /\ agent'[a].pc = "idle" /\ \A b \in Agents \ {a} : agent'[b] = agent[b]
    BY <1>3, <2>1, <2>2 DEF CallFields
  <2>4. SessionsShape'
    BY <1>3, <2>1, <2>3 DEF SessionsShape
  <2>5. AddsTheLatest(a)'
    BY <2>3, IdleAddsNothing
  <2>6. ASSUME ~overlapped PROVE \A b \in Agents \ {a} : AddsTheLatest(b)'
    BY <1>2, <2>1, <2>3, <2>6 DEF AddsTheLatest
  <2> QED
    BY <1>2, <2>1, <2>3, <2>4, <2>5, <2>6, SessionsMove
<1>7. ASSUME NEW a \in Agents, Agent!AppendPartial(a) PROVE SessionsInv'
  BY <1>7 DEF Agent!AppendPartial, Agent!sessionVars, SessionsInv, SessionsShape, AddsTheLatest
<1>8. ASSUME NEW a \in Agents, Agent!AppendEvent(a) PROVE SessionsInv'
  <2>1. /\ agent[a].pc = "idle" /\ UNCHANGED <<store, acked>>
        /\ overlapped' = (overlapped \/ \E b \in Agents \ {a} : Agent!Writing(b))
    BY <1>8 DEF Agent!AppendEvent, Agent!Enter
  <2>2. PICK ls \in Layers : /\ issued' = Append(issued, ls \ {"temp"})
                             /\ agent' = [agent EXCEPT ![a].pc = "load", ![a].event = Len(issued) + 1]
    BY <1>8 DEF Agent!AppendEvent
  <2>3. /\ agent' = [b \in Agents |-> [f \in CallFields |-> agent'[b][f]]]
        /\ agent'[a].pc = "load" /\ agent'[a].event = Len(issued) + 1
        /\ \A b \in Agents \ {a} : agent'[b] = agent[b]
    <3> DEFINE e == [agent[a] EXCEPT !.pc = "load", !.event = Len(issued) + 1]
    <3>1. e = [f \in CallFields |-> e[f]] /\ e.pc = "load" /\ e.event = Len(issued) + 1
      BY <1>3 DEF CallFields
    <3>2. agent' = [agent EXCEPT ![a] = e]
      BY <1>3, <2>2
    <3> HIDE DEF e
    <3> QED
      BY <1>1, <3>1, <3>2, CallMoves
  <2>4. issued' \in Seq(SUBSET UNION Layers) /\ Len(issued') = Len(issued) + 1
    <3> DEFINE Written == SUBSET UNION Layers
               layers == ls \ {"temp"}
    <3>1. layers \in Written
      OBVIOUS
    <3>2. issued \in Seq(Written) /\ issued' = Append(issued, layers)
      BY <1>3, <2>2
    <3> HIDE DEF Written, layers
    <3>3. issued' \in Seq(Written) /\ Len(issued') = Len(issued) + 1
      BY <3>1, <3>2
    <3> QED
      BY <3>3 DEF Written
  <2>5. SessionsShape'
    BY <1>3, <2>1, <2>3, <2>4 DEF SessionsShape
  <2>6. ASSUME ~overlapped'
        PROVE  ~overlapped /\ \A b \in Agents \ {a} : agent[b].pc = "idle" /\ agent'[b].pc = "idle"
    BY <1>1, <2>1, <2>3, <2>6 DEF Agent!Writing, Appending, Loaded
  <2>7. ~overlapped' => \A b \in Agents \ {a} : AddsTheLatest(b)'
    BY <2>6, IdleAddsNothing
  <2>8. ASSUME ~overlapped', store'.session # Agent!None
        PROVE  Keeps(store'.session, acked', Len(issued')) /\ Keeps(store'.session, acked', Len(issued') - 1)
    <3>1. Keeps(store.session, acked, Len(issued))
      BY <1>2, <2>1, <2>6, <2>8
    <3>2. Keeps(store.session, acked, Len(issued) + 1)
      BY <1>1, <3>1, KeepsLonger
    <3> QED
      BY <1>1, <2>1, <2>4, <3>1, <3>2
  <2>9. ~overlapped' => AddsTheLatest(a)'
    BY <1>1, <2>3, <2>4, <2>8 DEF AddsTheLatest, Loaded
  <2> QED
    BY <2>3, <2>5, <2>6, <2>7, <2>8, <2>9, SessionsMove DEF Appending
<1>9. ASSUME NEW a \in Agents, Agent!Load(a) PROVE SessionsInv'
  <2>1. agent[a].pc = "load" /\ UNCHANGED <<store, issued, acked, overlapped>>
    BY <1>9 DEF Agent!Load
  <2>2. /\ agent' = [b \in Agents |-> [f \in CallFields |-> agent'[b][f]]]
        /\ \A b \in Agents \ {a} : agent'[b] = agent[b]
        /\ \/ agent'[a].pc = "idle"
           \/ /\ store.session # Agent!None /\ agent'[a].loaded = store.session
              /\ agent'[a].pc \in Loaded /\ agent'[a].event = agent[a].event
    <3>1. CASE store.session = Agent!None
      BY <1>3, <1>9, <3>1 DEF Agent!Load, Agent!Blank, CallFields
    <3>2. CASE store.session # Agent!None
      <4>1. agent' = [agent EXCEPT ![a].pc = Agent!AfterLoad(a), ![a].loaded = store.session]
        BY <1>9, <3>2 DEF Agent!Load, Agent!LoadedOf
      <4>2. Agent!AfterLoad(a) \in Loaded
        BY DEF Agent!AfterLoad, Loaded
      <4> DEFINE e == [agent[a] EXCEPT !.pc = Agent!AfterLoad(a), !.loaded = store.session]
      <4>3. /\ e = [f \in CallFields |-> e[f]] /\ e.pc = Agent!AfterLoad(a)
            /\ e.loaded = store.session /\ e.event = agent[a].event
        BY <1>3 DEF CallFields
      <4>4. agent' = [agent EXCEPT ![a] = e]
        BY <1>3, <4>1
      <4> HIDE DEF e
      <4> QED
        BY <1>1, <3>2, <4>2, <4>3, <4>4, CallMoves
    <3> QED
      BY <3>1, <3>2
  <2>3. SessionsShape'
    BY <1>3, <2>1, <2>2 DEF SessionsShape
  <2>4. ASSUME ~overlapped
        PROVE  /\ \A b \in Agents \ {a} : agent[b].pc = "idle" /\ AddsTheLatest(b)'
               /\ AddsTheLatest(a)'
    <3>1. \A b \in Agents \ {a} : agent[b].pc = "idle" /\ agent'[b].pc = "idle"
      BY <1>2, <2>1, <2>2, <2>4
    <3>2. AddsTheLatest(a)
      BY <1>2, <2>4
    <3>3. AddsTheLatest(a)'
      BY <2>1, <2>2, <3>2 DEF AddsTheLatest, Appending, Loaded
    <3> QED
      BY <3>1, <3>3, IdleAddsNothing
  <2> QED
    BY <1>2, <2>1, <2>2, <2>3, <2>4, SessionsMove DEF Appending
<1>10. ASSUME NEW a \in Agents, NEW scope \in Agent!Scopes, Agent!GetScope(a, scope) \/ Agent!SetScope(a, scope)
       PROVE  SessionsInv'
  <2>1. /\ agent[a].pc \in Loaded /\ UNCHANGED <<issued, acked, overlapped>>
        /\ agent' = [b \in Agents |-> [f \in CallFields |-> agent'[b][f]]]
        /\ \A b \in Agents \ {a} : agent'[b] = agent[b]
        /\ agent'[a].pc \in Loaded /\ agent'[a].event = agent[a].event /\ agent'[a].loaded = agent[a].loaded
        /\ store' = [f \in StoreFields |-> store'[f]] /\ store'.session = store.session
    <3>1. CASE Agent!GetScope(a, scope)
      <4>1. /\ agent[a].pc = Agent!Getting[scope] /\ UNCHANGED <<store, issued, acked, overlapped>>
            /\ agent' = [agent EXCEPT ![a].pc = Agent!Setting[scope], ![a].read = store[scope]]
        BY <3>1 DEF Agent!GetScope
      <4>2. Agent!Getting[scope] \in Loaded /\ Agent!Setting[scope] \in Loaded
        BY ScopeStages
      <4> DEFINE e == [agent[a] EXCEPT !.pc = Agent!Setting[scope], !.read = store[scope]]
      <4>3. /\ e = [f \in CallFields |-> e[f]] /\ e.pc = Agent!Setting[scope]
            /\ e.loaded = agent[a].loaded /\ e.event = agent[a].event
        BY <1>3 DEF CallFields
      <4>4. agent' = [agent EXCEPT ![a] = e]
        BY <1>3, <4>1
      <4> HIDE DEF e
      <4> QED
        BY <1>1, <1>3, <4>1, <4>2, <4>3, <4>4, CallMoves
    <3>2. CASE Agent!SetScope(a, scope)
      <4>1. /\ agent[a].pc = Agent!Setting[scope] /\ UNCHANGED <<issued, acked, overlapped>>
            /\ store' = [store EXCEPT ![scope] = agent[a].read \cup {agent[a].event}]
        BY <3>2 DEF Agent!SetScope
      <4>2. PICK next \in Loaded : agent' = [agent EXCEPT ![a].pc = next]
        <5>1. (IF scope = "app" THEN Agent!AfterApp(a) ELSE "set session") \in Loaded
          BY DEF Agent!AfterApp, Loaded
        <5> QED
          BY <3>2, <5>1 DEF Agent!SetScope
      <4>3. Agent!Setting[scope] \in Loaded /\ scope \in {"app", "user"}
        BY ScopeStages DEF Agent!Scopes
      <4>4. store' = [f \in StoreFields |-> store'[f]] /\ store'.session = store.session
        BY <1>3, <4>1, <4>3 DEF StoreFields
      <4> DEFINE e == [agent[a] EXCEPT !.pc = next]
      <4>5. /\ e = [f \in CallFields |-> e[f]] /\ e.pc = next
            /\ e.loaded = agent[a].loaded /\ e.event = agent[a].event
        BY <1>3 DEF CallFields
      <4>6. agent' = [agent EXCEPT ![a] = e]
        BY <1>3, <4>2
      <4> HIDE DEF e
      <4> QED
        BY <1>1, <4>1, <4>2, <4>3, <4>4, <4>5, <4>6, CallMoves
    <3> QED
      BY <1>10, <3>1, <3>2
  <2>2. SessionsShape'
    BY <1>3, <2>1 DEF SessionsShape
  <2>3. ASSUME ~overlapped
        PROVE  /\ \A b \in Agents \ {a} : agent[b].pc = "idle" /\ AddsTheLatest(b)'
               /\ AddsTheLatest(a)'
    <3>1. \A b \in Agents \ {a} : agent[b].pc = "idle" /\ agent'[b].pc = "idle"
      BY <1>2, <2>1, <2>3 DEF Loaded
    <3>2. AddsTheLatest(a)
      BY <1>2, <2>3
    <3>3. AddsTheLatest(a)'
      BY <2>1, <3>2 DEF AddsTheLatest, Appending
    <3> QED
      BY <3>1, <3>3, IdleAddsNothing
  <2> QED
    BY <1>2, <2>1, <2>2, <2>3, SessionsMove DEF Appending
<1>11. ASSUME NEW a \in Agents, Agent!StoreSession(a) PROVE SessionsInv'
  <2>1. /\ agent[a].pc = "set session" /\ UNCHANGED <<issued, overlapped>>
        /\ store' = [store EXCEPT !.session = Agent!WithEvent(agent[a].loaded, a)]
        /\ acked' = acked \cup {agent[a].event}
        /\ agent' = [agent EXCEPT ![a] = [Agent!Blank EXCEPT !.held = Agent!WithEvent(agent[a].held, a)]]
    BY <1>11 DEF Agent!StoreSession
  <2>2. /\ agent' = [b \in Agents |-> [f \in CallFields |-> agent'[b][f]]]
        /\ agent'[a].pc = "idle" /\ \A b \in Agents \ {a} : agent'[b] = agent[b]
    BY <1>3, <2>1 DEF CallFields, Agent!Blank
  <2>3. /\ store' = [f \in StoreFields |-> store'[f]]
        /\ store'.session = Agent!WithEvent(agent[a].loaded, a)
    BY <1>3, <2>1 DEF StoreFields
  <2>4. SessionsShape'
    BY <1>3, <2>1, <2>2, <2>3 DEF SessionsShape
  <2>5. ASSUME ~overlapped' PROVE ~overlapped /\ \A b \in Agents \ {a} : agent'[b].pc = "idle"
    BY <1>2, <2>1, <2>2, <2>5
  <2>6. ~overlapped' => AddsTheLatest(a)' /\ \A b \in Agents \ {a} : AddsTheLatest(b)'
    BY <2>2, <2>5, IdleAddsNothing
  <2>7. ASSUME ~overlapped PROVE Keeps(store'.session, acked', Len(issued'))
    <3>1. /\ agent[a].event = Len(issued) /\ Len(issued) > 0
          /\ Keeps(agent[a].loaded, acked, Len(issued) - 1)
      BY <1>2, <2>1, <2>7 DEF AddsTheLatest, Appending, Loaded
    <3>2. store'.session.events = Append(agent[a].loaded.events, Len(issued))
      BY <2>3, <3>1 DEF Agent!WithEvent
    <3>3. acked' \subseteq acked \cup {Len(issued)} /\ issued' = issued
      BY <2>1, <3>1
    <3>4. Len(issued) \in Nat \ {0}
      BY <1>1, <3>1
    <3> QED
      BY <3>1, <3>2, <3>3, <3>4, KeepsMore
  <2> QED
    BY <2>1, <2>2, <2>4, <2>5, <2>6, <2>7, SessionsMove
<1>12. ASSUME NEW a \in Agents, Agent!CommandFails(a) PROVE SessionsInv'
  <2>1. /\ agent[a].pc # "idle" /\ UNCHANGED <<issued, overlapped>>
        /\ store' \in {store, Agent!Written(a)}
        /\ acked' = IF agent[a].pc = "create" /\ store' # store THEN {} ELSE acked
        /\ agent' = [agent EXCEPT ![a] = [Agent!Blank EXCEPT !.held = agent[a].held]]
    BY <1>12 DEF Agent!CommandFails
  <2>2. /\ agent' = [b \in Agents |-> [f \in CallFields |-> agent'[b][f]]]
        /\ agent'[a].pc = "idle" /\ \A b \in Agents \ {a} : agent'[b] = agent[b]
    BY <1>3, <2>1 DEF CallFields, Agent!Blank
  <2>3. /\ store' = [f \in StoreFields |-> store'[f]]
        /\ ~overlapped /\ store'.session # Agent!None => Keeps(store'.session, acked', Len(issued))
    <3>1. ASSUME ~overlapped, store.session # Agent!None PROVE Keeps(store.session, acked, Len(issued))
      BY <1>2, <3>1
    <3>2. CASE store' = store
      BY <1>3, <2>1, <3>1, <3>2
    <3>3. CASE store' # store /\ agent[a].pc = "create"
      <4> DEFINE new == [state |-> {Agent!Created}, events |-> <<>>]
      <4>1. store' = [store EXCEPT !.session = new] /\ acked' = {}
        BY <2>1, <3>3 DEF Agent!Written
      <4>2. store' = [f \in StoreFields |-> store'[f]] /\ store'.session = new
        BY <1>3, <4>1 DEF StoreFields
      <4>3. new.events = <<>> /\ \A n \in Nat : new.events \in Seq(1..n) /\ DOMAIN new.events = {}
        OBVIOUS
      <4> QED
        BY <1>1, <4>1, <4>2, <4>3 DEF Keeps
    <3>4. CASE store' # store /\ agent[a].pc = "set session"
      <4>1. store' = [store EXCEPT !.session = Agent!WithEvent(agent[a].loaded, a)] /\ acked' = acked
        BY <2>1, <3>4 DEF Agent!Written
      <4>2. /\ store' = [f \in StoreFields |-> store'[f]]
            /\ store'.session = Agent!WithEvent(agent[a].loaded, a)
        BY <1>3, <4>1 DEF StoreFields
      <4>3. ASSUME ~overlapped PROVE Keeps(store'.session, acked', Len(issued))
        <5>1. /\ agent[a].event = Len(issued) /\ Len(issued) > 0
              /\ Keeps(agent[a].loaded, acked, Len(issued) - 1)
          BY <1>2, <3>4, <4>3 DEF AddsTheLatest, Appending, Loaded
        <5>2. store'.session.events = Append(agent[a].loaded.events, Len(issued))
          BY <4>2, <5>1 DEF Agent!WithEvent
        <5>3. acked' \subseteq acked \cup {Len(issued)} /\ Len(issued) \in Nat \ {0}
          BY <1>1, <4>1, <5>1
        <5> QED
          BY <5>1, <5>2, <5>3, KeepsMore
      <4> QED
        BY <4>2, <4>3
    <3>5. CASE store' # store /\ agent[a].pc \notin {"create", "set session"}
      <4>1. /\ acked' = acked
            /\ \/ store' = [store EXCEPT !.app = agent[a].read \cup {agent[a].event}]
               \/ store' = [store EXCEPT !.user = agent[a].read \cup {agent[a].event}]
        BY <1>1, <2>1, <3>5 DEF Agent!Written, Appending, Loaded
      <4>2. store' = [f \in StoreFields |-> store'[f]] /\ store'.session = store.session
        BY <1>3, <4>1 DEF StoreFields
      <4> QED
        BY <3>1, <4>1, <4>2
    <3> QED
      BY <3>2, <3>3, <3>4, <3>5
  <2>4. SessionsShape'
    BY <1>3, <2>1, <2>2, <2>3 DEF SessionsShape
  <2>5. ASSUME ~overlapped' PROVE ~overlapped /\ \A b \in Agents \ {a} : agent'[b].pc = "idle"
    BY <1>2, <2>1, <2>2, <2>5
  <2>6. ~overlapped' => AddsTheLatest(a)' /\ \A b \in Agents \ {a} : AddsTheLatest(b)'
    BY <2>2, <2>5, IdleAddsNothing
  <2> QED
    BY <2>1, <2>2, <2>3, <2>4, <2>5, <2>6, SessionsMove
<1>13. ASSUME NEW name \in DOMAIN store, Agent!Expire(name) PROVE SessionsInv'
  <2>1. /\ UNCHANGED <<agent, issued, acked, overlapped>>
        /\ store' = [store EXCEPT ![name] = IF name = "session" THEN Agent!None ELSE {}]
    BY <1>13 DEF Agent!Expire
  <2>2. /\ store' = [f \in StoreFields |-> store'[f]]
        /\ store'.session \in {store.session, Agent!None}
    <3>1. CASE name = "session"
      BY <1>3, <2>1, <3>1 DEF StoreFields
    <3>2. CASE name # "session"
      BY <1>3, <2>1, <3>2 DEF StoreFields
    <3> QED
      BY <3>1, <3>2
  <2>3. SessionsShape'
    BY <1>3, <2>1, <2>2 DEF SessionsShape
  <2>4. ASSUME ~overlapped, NEW a \in Agents PROVE AddsTheLatest(a)'
    BY <1>2, <2>1, <2>2, <2>4 DEF AddsTheLatest
  <2> QED
    BY <1>1, <1>2, <2>1, <2>2, <2>3, <2>4 DEF SessionsInv
<1>14. CASE UNCHANGED Agent!sessionVars
  BY <1>14 DEF Agent!sessionVars, SessionsInv, SessionsShape, AddsTheLatest
<1> QED
  BY <1>4, <1>5, <1>6, <1>7, <1>8, <1>9, <1>10, <1>11, <1>12, <1>13, <1>14 DEF Agent!Next

\* In every behaviour of the services the ADK session has, in the order of the
\* calls, each event whose append was acknowledged, as long as no two calls
\* write at a time: whatever part of the history callers ask for, whichever
\* commands fail or take effect unnoticed, and whichever keys expire, for any
\* number of callers and events (redisstore/service.go:311).
THEOREM AppendsSurvive == Spec => []AcknowledgedSurvive
<1>1. SessionsInv => AcknowledgedSurvive
  BY DEF SessionsInv, Keeps, AcknowledgedSurvive, Agent!AcknowledgedSurvive
<1> QED
  BY <1>1, SessionsFollowed, SessionsInitially, SessionsInductive, PTL DEF Agent!Spec
=============================================================================
