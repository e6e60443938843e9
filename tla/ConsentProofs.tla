----------------------------- MODULE ConsentProofs -----------------------------
(***************************************************************************)
(* Proofs about tool calls that wait for consent, for every set of calls,  *)
(* requests, keys, tools and patches.                                      *)
(*                                                                         *)
(* That a call ran with consent is known only from what it was told at its *)
(* cards: the invariant follows an answer from the request that gives it   *)
(* to the call that takes it (Answers), and keeps that a card is answered  *)
(* once (OpenCards) and not before it is shown (NotShown).                 *)
(*                                                                         *)
(* That an answered change is durable is known only from how far the       *)
(* request that works has brought it (Progress): until a restart, a failed *)
(* write or a second request disturbs it, each copy holds what was         *)
(* promised before or what will be promised next.                          *)
(***************************************************************************)
EXTENDS ToolConsent, TLAPS

Hurdles == {"path", "tool"}

\* a hurdle was taken, by the configuration or by the user's word
Given(c, s) == <<c, s>> \in permitted \/ said[<<c, s>>] = {"yes"}

OpenCards ==
  \A c \in Calls, s \in Hurdles : <<c, s>> \in cards =>
    /\ said[<<c, s>>] = {}
    /\ pc[c] = "dropped" \/ (pc[c] = s /\ answer[c] = "none")

Waits == \A c \in Calls : Waiting(c) /\ answer[c] = "none" => <<c, pc[c]>> \in cards

Answers ==
  \A c \in Calls : answer[c] # "none" => Waiting(c) /\ said[<<c, pc[c]>>] = {answer[c]}

NotShown ==
  \A c \in Calls :
    /\ pc[c] = "idle" => said[<<c, "path">>] = {}
    /\ pc[c] \in {"idle", "path"} => said[<<c, "tool">>] = {}

OneWay == \A c \in Calls, s \in Hurdles : said[<<c, s>>] \in {{}, {"yes"}, {"no"}}

Taken ==
  \A c \in Calls : /\ pc[c] \in {"tool", "ran"} => Given(c, "path")
                   /\ pc[c] = "ran" => Given(c, "tool")

Refusals ==
  \A c \in Calls : pc[c] = "refused" =>
    c \in expired \/ \E s \in Hurdles : said[<<c, s>>] = {"no"}

WInv ==
  CallTypeOK /\ OpenCards /\ Waits /\ Answers /\ NotShown /\ OneWay /\ Taken /\ Refusals

-----------------------------------------------------------------------------
(* Cards and the configuration *)

\* A card is a call with one of its two hurdles.
LEMMA CardFacts ==
  /\ \A c \in Calls, s \in Hurdles : <<c, s>> \in Cards
  /\ \A x \in Cards : x[1] \in Calls /\ x[2] \in Hurdles /\ x = <<x[1], x[2]>>
BY DEF Cards, Hurdles

\* What was permitted stays so while the call may still run (Observe).
LEMMA PermittedKept ==
  ASSUME Observe, NEW c \in Calls, NEW s \in Hurdles, <<c, s>> \in permitted,
         pc'[c] \notin {"idle", "refused", "dropped"}
  PROVE  <<c, s>> \in permitted'
BY CardFacts DEF Observe

\* What the configuration allows at a step of the call is noted (Observe).
LEMMA PermittedNow ==
  ASSUME Observe, NEW c \in Calls, NEW s \in Hurdles, Passes(<<c, s>>),
         UNCHANGED <<live, paths>>, pc[c] \notin Ended,
         pc'[c] \notin {"idle", "refused", "dropped"}
  PROVE  <<c, s>> \in permitted'
<1>1. Passes(<<c, s>>)'
  BY DEF Passes, Allows, Policy
<1> QED
  BY <1>1, CardFacts DEF Observe

\* Before the first call nothing was shown, said or allowed.
LEMMA ConsentInitial == ConsentInit => WInv
BY CardFacts DEF ConsentInit, WInv, CallTypeOK, OpenCards, Waits, Answers, NotShown, OneWay,
   Taken, Refusals, Waiting, Given, Hurdles, Ended

\* Steps of others: a call, its cards and what was said stay as they are.
LEMMA Undisturbed ==
  ASSUME WInv, CallTypeOK', Observe, UNCHANGED <<pc, cards, answer, said, expired>>
  PROVE  WInv'
<1>1. Taken'
  <2> SUFFICES ASSUME NEW c \in Calls, NEW s \in Hurdles, Given(c, s), pc[c] \in {"tool", "ran"}
               PROVE  Given(c, s)'
    BY DEF WInv, Taken, Hurdles
  <2> QED
    BY PermittedKept DEF Given
<1>2. OpenCards' /\ Waits' /\ Answers'
  BY DEF WInv, OpenCards, Waits, Waiting, Answers
<1>3. NotShown' /\ OneWay' /\ Refusals'
  BY DEF WInv, NotShown, OneWay, Refusals
<1> QED
  BY <1>1, <1>2, <1>3 DEF WInv

-----------------------------------------------------------------------------
(* Steps of a call *)

\* A call comes to a place: what must hold for the invariant to be kept.
LEMMA Placed ==
  ASSUME WInv, Observe, NEW c \in Calls, NEW place \in Hurdles \cup Ended, NEW open,
         Go(c, place, open), UNCHANGED <<live, paths, reply, said>>, pc[c] \notin Ended,
         expired \subseteq expired', expired' \subseteq Calls,
         place \in Hurdles => /\ open = (cards \ {Card(c)}) \cup {<<c, place>>}
                              /\ pc[c] \in {"idle", "path"} /\ pc[c] # place,
         place = "dropped" => open = cards,
         place \in {"ran", "refused"} => open = cards \ {Card(c)},
         place \in {"tool", "ran"} => Given(c, "path") \/ Passes(<<c, "path">>),
         place = "ran" => Given(c, "tool") \/ Passes(<<c, "tool">>),
         place = "refused" => c \in expired' \/ \E s \in Hurdles : said[<<c, s>>] = {"no"}
  PROVE  WInv'
<1>1. /\ pc' = [pc EXCEPT ![c] = place] /\ cards' = open
      /\ answer' = [answer EXCEPT ![c] = "none"]
      /\ CallTypeOK
  BY DEF Go, WInv
<1>2. /\ pc'[c] = place /\ answer'[c] = "none"
      /\ \A d \in Calls : d # c => pc'[d] = pc[d] /\ answer'[d] = answer[d]
  BY <1>1 DEF CallTypeOK
<1>3. open \subseteq cards \cup {<<c, place>>} /\ cards \subseteq open \cup {Card(c)}
  BY DEF Ended
<1>4. place \in Hurdles => said[<<c, place>>] = {}
  BY DEF Hurdles, WInv, NotShown
<1>5. CallTypeOK'
  <2>1. cards' \subseteq Cards
    <3>1. place \in Hurdles => <<c, place>> \in Cards
      BY CardFacts
    <3> QED
      BY <1>1, <3>1 DEF CallTypeOK, Ended, Hurdles
  <2>2. permitted' \subseteq Cards
    BY DEF Observe
  <2> QED
    BY <1>1, <2>1, <2>2 DEF Go, CallTypeOK, Hurdles
<1>6. OpenCards'
  <2> SUFFICES ASSUME NEW d \in Calls, NEW s \in Hurdles, <<d, s>> \in open
               PROVE  said[<<d, s>>] = {} /\ (pc'[d] = "dropped" \/ (pc'[d] = s /\ answer'[d] = "none"))
    BY <1>1 DEF OpenCards
  <2>1. CASE d # c
    <3>1. <<d, s>> \in cards
      BY <2>1, <1>3
    <3> QED
      BY <3>1, <2>1, <1>2 DEF WInv, OpenCards
  <2>2. CASE d = c
    <3>1. CASE <<d, s>> \in cards
      <4>1. said[<<d, s>>] = {} /\ pc[c] = s
        BY <3>1, <2>2 DEF WInv, OpenCards, Ended
      <4>2. place \notin {"ran", "refused"} /\ (place \in Hurdles => s = place)
        BY <2>2, <4>1 DEF Card, Ended, Hurdles
      <4> QED
        BY <4>1, <4>2, <1>2, <2>2 DEF Ended
    <3>2. CASE <<d, s>> \notin cards
      <4>1. place \in Hurdles /\ s = place
        BY <3>2, <2>2, <1>3 DEF Ended, Hurdles
      <4> QED
        BY <4>1, <1>2, <1>4, <2>2
    <3> QED
      BY <3>1, <3>2
  <2> QED
    BY <2>1, <2>2
<1>7. Waits'
  <2> SUFFICES ASSUME NEW d \in Calls, pc'[d] \in {"path", "tool"}, answer'[d] = "none"
               PROVE  <<d, pc'[d]>> \in open
    BY <1>1 DEF Waits, Waiting
  <2>1. CASE d # c
    <3>1. <<d, pc[d]>> \in cards
      BY <2>1, <1>2 DEF WInv, Waits, Waiting
    <3> QED
      BY <3>1, <2>1, <1>2, <1>3 DEF Card
  <2>2. CASE d = c
    BY <2>2, <1>2 DEF Hurdles, Ended
  <2> QED
    BY <2>1, <2>2
<1>8. Answers'
  BY <1>2 DEF WInv, Answers, Waiting
<1>9. NotShown'
  <2> SUFFICES ASSUME NEW d \in Calls
               PROVE  /\ pc'[d] = "idle" => said[<<d, "path">>] = {}
                      /\ pc'[d] \in {"idle", "path"} => said[<<d, "tool">>] = {}
    BY DEF NotShown
  <2> QED
    BY <1>2 DEF WInv, NotShown, Hurdles, Ended
<1>10. OneWay'
  BY DEF WInv, OneWay
<1>11. Taken'
  <2> SUFFICES ASSUME NEW d \in Calls, NEW s \in Hurdles,
                      pc'[d] = "ran" \/ (pc'[d] = "tool" /\ s = "path")
               PROVE  Given(d, s)'
    BY DEF Taken, Hurdles
  <2>1. CASE d # c
    <3>1. Given(d, s)
      BY <2>1, <1>2 DEF WInv, Taken, Hurdles
    <3> QED
      BY <3>1, PermittedKept DEF Given
  <2>2. CASE d = c
    <3>1. Given(d, s) \/ Passes(<<d, s>>)
      BY <2>2, <1>2 DEF Hurdles
    <3> QED
      BY <3>1, <2>2, PermittedKept, PermittedNow DEF Given
  <2> QED
    BY <2>1, <2>2
<1>12. Refusals'
  <2> SUFFICES ASSUME NEW d \in Calls, pc'[d] = "refused"
               PROVE  d \in expired' \/ \E s \in Hurdles : said[<<d, s>>] = {"no"}
    BY DEF Refusals
  <2> QED
    BY <1>2 DEF WInv, Refusals
<1> QED
  BY <1>5, <1>6, <1>7, <1>8, <1>9, <1>10, <1>11, <1>12 DEF WInv

\* The call goes on past a card whose hurdle is taken.
LEMMA Passed ==
  ASSUME WInv, Observe, NEW c \in Calls, NEW open, PastCard(c, open), Waiting(c),
         open = cards \ {Card(c)}, UNCHANGED <<live, paths, reply, said, expired>>,
         Given(c, pc[c]) \/ Passes(Card(c))
  PROVE  WInv'
<1>1. pc[c] \in Hurdles /\ pc[c] \notin Ended /\ expired' \subseteq Calls
  BY DEF Waiting, Hurdles, Ended, WInv, CallTypeOK
<1>2. CASE pc[c] = "tool"
  <2>1. Go(c, "ran", open)
    BY <1>2 DEF PastCard
  <2>2. Given(c, "path")
    BY <1>2 DEF WInv, Taken
  <2> QED
    BY <1>1, <1>2, <2>1, <2>2, Placed DEF Card, Hurdles, Ended
<1>3. CASE pc[c] = "path"
  <2>1. Given(c, "path") \/ Passes(<<c, "path">>)
    BY <1>3 DEF Card
  <2>2. CASE Passes(<<c, "tool">>)
    <3>1. Go(c, "ran", open)
      BY <1>3, <2>2 DEF PastCard, PastPath
    <3> QED
      BY <1>1, <2>1, <2>2, <3>1, Placed DEF Hurdles, Ended
  <2>3. CASE ~Passes(<<c, "tool">>)
    <3>1. Go(c, "tool", open \cup {<<c, "tool">>})
      BY <1>3, <2>3 DEF PastCard, PastPath, Await
    <3> QED
      BY <1>1, <1>3, <2>1, <3>1, Placed DEF Hurdles, Ended
  <2> QED
    BY <2>2, <2>3
<1> QED
  BY <1>1, <1>2, <1>3 DEF Hurdles

\* A call is refused.
LEMMA Refused ==
  ASSUME WInv, Observe, NEW c \in Calls, Waiting(c), Go(c, "refused", cards \ {Card(c)}),
         UNCHANGED <<live, paths, reply, said>>, expired \subseteq expired', expired' \subseteq Calls,
         c \in expired' \/ \E s \in Hurdles : said[<<c, s>>] = {"no"}
  PROVE  WInv'
BY Placed DEF Waiting, Ended, Hurdles

\* A call that is made shows a card, or runs on what the configuration allows.
LEMMA CallMade ==
  ASSUME WInv, Observe, NEW c \in Calls, Call(c), UNCHANGED <<live, paths, reply, said>>
  PROVE  WInv'
<1>1. pc[c] = "idle" /\ pc[c] \notin Ended /\ expired' = expired /\ expired' \subseteq Calls
  BY DEF Call, Ended, WInv, CallTypeOK
<1>2. cards \ {Card(c)} = cards
  BY <1>1 DEF WInv, CallTypeOK, Cards, Card
<1>3. CASE ~Passes(<<c, "path">>)
  <2>1. Go(c, "path", cards \cup {<<c, "path">>})
    BY <1>3 DEF Call, Await
  <2> QED
    BY <1>1, <1>2, <2>1, Placed DEF Hurdles, Ended
<1>4. CASE Passes(<<c, "path">>) /\ Passes(<<c, "tool">>)
  <2>1. Go(c, "ran", cards)
    BY <1>4 DEF Call, PastPath
  <2> QED
    BY <1>1, <1>2, <1>4, <2>1, Placed DEF Hurdles, Ended
<1>5. CASE Passes(<<c, "path">>) /\ ~Passes(<<c, "tool">>)
  <2>1. Go(c, "tool", cards \cup {<<c, "tool">>})
    BY <1>5 DEF Call, PastPath, Await
  <2> QED
    BY <1>1, <1>2, <1>5, <2>1, Placed DEF Hurdles, Ended
<1> QED
  BY <1>3, <1>4, <1>5

\* A call takes the answer it was sent, and goes on or is refused.
LEMMA AnswerTaken ==
  ASSUME WInv, Observe, NEW c \in Calls, TakeAnswer(c), UNCHANGED <<live, paths, reply, said>>
  PROVE  WInv'
<1>1. /\ Waiting(c) /\ answer[c] # "none" /\ expired' = expired
      /\ said[Card(c)] = {answer[c]} /\ pc[c] \in Hurdles /\ answer[c] \in {"yes", "no"}
  BY DEF TakeAnswer, WInv, Answers, Card, Waiting, Hurdles, CallTypeOK
<1>2. cards \ {Card(c)} = cards
  BY <1>1 DEF WInv, OpenCards, Card
<1>3. CASE answer[c] = "yes"
  BY <1>1, <1>2, <1>3, Passed DEF TakeAnswer, Given, Card
<1>4. CASE answer[c] # "yes"
  <2>1. said[<<c, pc[c]>>] = {"no"} /\ Go(c, "refused", cards \ {Card(c)})
    BY <1>1, <1>4 DEF TakeAnswer, Card
  <2> QED
    BY <1>1, <2>1, Refused DEF WInv, CallTypeOK
<1> QED
  BY <1>3, <1>4

\* A deadline refuses, and says so.
LEMMA TimedOut ==
  ASSUME WInv, Observe, NEW c \in Calls, TimesOut(c), UNCHANGED <<live, paths, reply, said>>
  PROVE  WInv'
BY Refused DEF TimesOut, WInv, CallTypeOK

\* A re-evaluation lets the call go on only if the configuration now does.
LEMMA Reevaluated ==
  ASSUME WInv, Observe, NEW c \in Calls, Reevaluates(c), UNCHANGED <<live, paths, reply, said>>
  PROVE  WInv'
<1>1. CASE Passes(Card(c))
  BY <1>1, Passed DEF Reevaluates
<1>2. CASE ~Passes(Card(c))
  <2>1. UNCHANGED <<pc, cards, answer, due, said, expired>> /\ timer' = [timer EXCEPT ![c] = "none"]
    BY <1>2 DEF Reevaluates
  <2>2. CallTypeOK'
    BY <2>1 DEF WInv, CallTypeOK, Observe
  <2> QED
    BY <2>1, <2>2, Undisturbed
<1> QED
  BY <1>1, <1>2

\* Every step of a call keeps the invariant, whatever it did.
LEMMA CallStepKeeps ==
  ASSUME WInv, Observe, NEW c \in Calls, UNCHANGED <<live, paths, reply, said>>,
         Call(c) \/ CallStep(c) \/ DeadlinePasses(c) \/ Drop(c)
  PROVE  WInv'
<1>1. CASE DeadlinePasses(c) \/ Poll(c)
  <2>1. UNCHANGED <<pc, cards, answer, said, expired>>
    BY <1>1 DEF DeadlinePasses, Poll
  <2>2. CallTypeOK'
    BY <1>1, <2>1 DEF DeadlinePasses, Poll, WInv, CallTypeOK, Observe
  <2> QED
    BY <2>1, <2>2, Undisturbed
<1>2. CASE Drop(c)
  BY <1>2, Placed DEF Drop, Waiting, Ended, Hurdles, WInv, CallTypeOK
<1> QED
  BY <1>1, <1>2, CallMade, AnswerTaken, TimedOut, Reevaluated DEF CallStep

-----------------------------------------------------------------------------
(* Steps of requests, and of the daemon *)

\* Requests touch a call only by resolving its card.
LEMMA RequestsKeep ==
  ASSUME WInv, Observe, NEW r \in Requests,
         \/ Configure(r) \/ Reply(r) \/ AllowPath(r) \/ Leave(r)
         \/ \E x \in cards, yes, remember \in BOOLEAN : Respond(r, x, yes, remember)
  PROVE  WInv'
<1>1. UNCHANGED <<pc, cards, answer, due, timer, said, expired>>
  BY DEF Configure, Reply, AllowPath, Leave, Respond, restVars, callVars
<1>2. reply' \in [Requests -> {NoReply} \cup [card : Cards, yes : BOOLEAN]]
  <2>1. CASE UNCHANGED reply \/ reply' = [reply EXCEPT ![r] = NoReply]
    BY <2>1 DEF WInv, CallTypeOK
  <2>2. CASE \E x \in cards, yes, remember \in BOOLEAN : Respond(r, x, yes, remember)
    <3>1. PICK x \in cards, yes \in BOOLEAN, remember \in BOOLEAN : Respond(r, x, yes, remember)
      BY <2>2
    <3>2. reply' = [reply EXCEPT ![r] = [card |-> x, yes |-> yes]] /\ x \in Cards
      BY <3>1 DEF Respond, WInv, CallTypeOK
    <3>3. [card |-> x, yes |-> yes] \in [card : Cards, yes : BOOLEAN]
      BY <3>2
    <3> QED
      BY <3>2, <3>3 DEF WInv, CallTypeOK
  <2> QED
    BY <2>1, <2>2 DEF Configure, Reply, AllowPath, Leave, restVars
<1>3. CallTypeOK'
  BY <1>1, <1>2 DEF WInv, CallTypeOK, Observe
<1> QED
  BY <1>1, <1>3, Undisturbed

\* An open card is resolved: its call waits for the answer, or is gone.
LEMMA ResolveKeeps ==
  ASSUME WInv, Observe, NEW r \in Requests, Resolve(r)
  PROVE  WInv'
<1> DEFINE x == reply[r].card
           w == IF reply[r].yes THEN "yes" ELSE "no"
<1>1. /\ x \in Cards /\ w \in {"yes", "no"} /\ reply' = [reply EXCEPT ![r] = NoReply]
      /\ UNCHANGED <<pc, due, timer, paths, expired>>
  BY DEF Resolve, WInv, CallTypeOK, NoReply
<1>2. CASE x \notin cards
  <2>1. UNCHANGED <<cards, answer, said>>
    BY <1>2 DEF Resolve
  <2>2. CallTypeOK'
    BY <1>1, <2>1 DEF WInv, CallTypeOK, Observe
  <2> QED
    BY <1>1, <2>1, <2>2, Undisturbed
<1>3. CASE x \in cards
  <2>1. PICK c \in Calls, s \in Hurdles : x = <<c, s>>
    BY <1>1, CardFacts
  <2>2. /\ cards' = cards \ {<<c, s>>}
        /\ answer' = IF pc[c] = s THEN [answer EXCEPT ![c] = w] ELSE answer
        /\ said' = [said EXCEPT ![<<c, s>>] = @ \cup {w}]
    BY <1>3, <2>1 DEF Resolve, Card
  <2>3. said[<<c, s>>] = {} /\ (pc[c] = "dropped" \/ (pc[c] = s /\ answer[c] = "none"))
    BY <1>3, <2>1 DEF WInv, OpenCards
  <2>4. /\ said'[<<c, s>>] = {w}
        /\ \A d \in Calls, z \in Hurdles : <<d, z>> # <<c, s>> => said'[<<d, z>>] = said[<<d, z>>]
    BY <1>1, <2>1, <2>2, <2>3, CardFacts DEF WInv, CallTypeOK
  <2>5. \A d \in Calls : answer'[d] = IF d = c /\ pc[c] = s THEN w ELSE answer[d]
    BY <2>2 DEF WInv, CallTypeOK
  <2>6. CallTypeOK'
    <3>1. said' \in [Cards -> SUBSET {"yes", "no"}] /\ answer' \in [Calls -> {"none", "yes", "no"}]
      BY <1>1, <2>2 DEF WInv, CallTypeOK
    <3> QED
      BY <1>1, <2>2, <3>1 DEF WInv, CallTypeOK, Observe
  <2>7. OpenCards'
    <3> SUFFICES ASSUME NEW d \in Calls, NEW z \in Hurdles, <<d, z>> \in cards, <<d, z>> # <<c, s>>
                 PROVE  /\ said'[<<d, z>>] = {}
                        /\ pc[d] = "dropped" \/ (pc[d] = z /\ answer'[d] = "none")
      BY <1>1, <2>2 DEF OpenCards
    <3> QED
      BY <2>4, <2>5 DEF WInv, OpenCards, Hurdles
  <2>8. Waits'
    <3> SUFFICES ASSUME NEW d \in Calls, pc[d] \in {"path", "tool"}, answer'[d] = "none"
                 PROVE  <<d, pc[d]>> \in cards /\ <<d, pc[d]>> # <<c, s>>
      BY <1>1, <2>2 DEF Waits, Waiting
    <3> QED
      BY <1>1, <2>3, <2>5 DEF WInv, Waits, Waiting, Hurdles
  <2>9. Answers'
    <3> SUFFICES ASSUME NEW d \in Calls, answer'[d] # "none"
                 PROVE  pc[d] \in {"path", "tool"} /\ said'[<<d, pc[d]>>] = {answer'[d]}
      BY <1>1 DEF Answers, Waiting
    <3>1. CASE d = c /\ pc[c] = s
      BY <3>1, <2>4, <2>5 DEF Hurdles
    <3>2. CASE ~(d = c /\ pc[c] = s)
      BY <3>2, <2>4, <2>5 DEF WInv, Answers, Waiting, Hurdles
    <3> QED
      BY <3>1, <3>2
  <2>10. NotShown'
    <3> SUFFICES ASSUME NEW d \in Calls
                 PROVE  /\ pc[d] = "idle" => said'[<<d, "path">>] = {}
                        /\ pc[d] \in {"idle", "path"} => said'[<<d, "tool">>] = {}
      BY <1>1 DEF NotShown
    <3> QED
      BY <2>3, <2>4 DEF WInv, NotShown, Hurdles
  <2>11. OneWay'
    BY <1>1, <2>4 DEF WInv, OneWay
  <2>12. Taken'
    <3> SUFFICES ASSUME NEW d \in Calls, NEW z \in Hurdles, Given(d, z), pc[d] \in {"tool", "ran"}
                 PROVE  Given(d, z)'
      BY <1>1 DEF WInv, Taken, Hurdles
    <3> QED
      BY <1>1, <2>3, <2>4, PermittedKept DEF Given
  <2>13. Refusals'
    <3> SUFFICES ASSUME NEW d \in Calls, pc[d] = "refused", d \notin expired
                 PROVE  \E z \in Hurdles : said'[<<d, z>>] = {"no"}
      BY <1>1 DEF Refusals
    <3>1. PICK z \in Hurdles : said[<<d, z>>] = {"no"}
      BY DEF WInv, Refusals
    <3> QED
      BY <3>1, <2>3, <2>4
  <2> QED
    BY <2>6, <2>7, <2>8, <2>9, <2>10, <2>11, <2>12, <2>13 DEF WInv
<1> QED
  BY <1>2, <1>3

\* The daemon starts again: calls that waited are gone, and so are the cards.
LEMMA RestartKeeps ==
  ASSUME WInv, Observe, Restart
  PROVE  WInv'
<1>1. /\ \A c \in Calls : pc'[c] = IF Waiting(c) THEN "dropped" ELSE pc[c]
      /\ \A c \in Calls : answer'[c] = "none"
      /\ cards' = {} /\ UNCHANGED <<said, expired>>
  BY DEF Restart
<1>2. CallTypeOK'
  BY DEF Restart, WInv, CallTypeOK, Observe, Ended, Waiting
<1>3. OpenCards' /\ Waits' /\ Answers' /\ OneWay'
  BY <1>1 DEF WInv, OpenCards, Waits, Waiting, Answers, OneWay
<1>4. NotShown' /\ Refusals'
  BY <1>1 DEF WInv, NotShown, Refusals
<1>5. Taken'
  <2> SUFFICES ASSUME NEW c \in Calls, NEW s \in Hurdles, Given(c, s), pc'[c] = "ran"
               PROVE  Given(c, s)'
    BY <1>1 DEF WInv, Taken, Hurdles, Waiting
  <2> QED
    BY <1>1, PermittedKept DEF Given
<1> QED
  BY <1>2, <1>3, <1>4, <1>5 DEF WInv

\* Calls, answers, changes of the configuration and restarts keep it.
LEMMA ConsentStep == WInv /\ [ConsentNext]_vars => WInv'
<1> SUFFICES ASSUME WInv, [ConsentNext]_vars
             PROVE  WInv'
  OBVIOUS
<1>1. CASE UNCHANGED vars
  <2>1. UNCHANGED <<pc, cards, answer, due, timer, reply, permitted, said, expired>>
    BY <1>1 DEF vars, callVars
  <2>2. CallTypeOK' /\ OpenCards' /\ Waits' /\ Answers'
    BY <2>1 DEF WInv, CallTypeOK, OpenCards, Waits, Answers, Waiting
  <2>3. NotShown' /\ OneWay' /\ Taken' /\ Refusals'
    BY <2>1 DEF WInv, NotShown, OneWay, Taken, Refusals, Given
  <2> QED
    BY <2>2, <2>3 DEF WInv
<1>2. CASE ConsentNext
  <2>1. CASE \E c \in Calls : /\ Call(c) \/ CallStep(c) \/ DeadlinePasses(c) \/ Drop(c)
                              /\ UNCHANGED <<configVars, paths, reply, said>>
    BY <1>2, <2>1, CallStepKeeps DEF ConsentNext, configVars, copies
  <2> QED
    BY <1>2, <2>1, RequestsKeep, ResolveKeeps, RestartKeeps DEF ConsentNext
<1> QED
  BY <1>1, <1>2

-----------------------------------------------------------------------------
(* Theorems *)

\* The invariant behind the others: an answer is given to an open card only, at
\* most once, and is what the waiting call takes (PendingToolApprovals,
\* GatedTool::execute).
THEOREM ConsentInvariant == ConsentSpec => []WInv
BY ConsentInitial, ConsentStep, PTL DEF ConsentSpec

\* For every number of calls, requests, keys and tools: a call runs only when the
\* configuration allowed it at some moment, or its user did.
THEOREM ConsentGiven == ConsentSpec => []RunsWithConsent
<1>1. WInv => RunsWithConsent
  <2> SUFFICES ASSUME WInv, NEW x \in Cards, pc[x[1]] = "ran"
               PROVE  x \in permitted \/ said[x] = {"yes"}
    BY DEF RunsWithConsent
  <2>1. Given(x[1], x[2])
    BY CardFacts DEF WInv, Taken, Hurdles
  <2> QED
    BY <2>1, CardFacts DEF Given
<1> QED
  BY <1>1, ConsentInvariant, PTL

\* A call is refused only by its user's no or by its deadline, and no card takes
\* two answers.
THEOREM RefusalsJustified == ConsentSpec => []RefusedWithReason
<1>1. WInv => RefusedWithReason
  <2> SUFFICES ASSUME WInv
               PROVE  RefusedWithReason
    OBVIOUS
  <2>1. ASSUME NEW c \in Calls, pc[c] = "refused", c \notin expired
        PROVE  \E x \in Cards : x[1] = c /\ said[x] = {"no"}
    <3>1. PICK s \in Hurdles : said[<<c, s>>] = {"no"}
      BY <2>1 DEF WInv, Refusals
    <3>2. <<c, s>> \in Cards /\ <<c, s>>[1] = c
      BY CardFacts
    <3> QED
      BY <3>1, <3>2
  <2>2. ASSUME NEW x \in Cards
        PROVE  said[x] # {"yes", "no"}
    <3>1. said[x] \in {{}, {"yes"}, {"no"}}
      BY CardFacts DEF WInv, OneWay
    <3> QED
      BY <3>1
  <2> QED
    BY <2>1, <2>2 DEF RefusedWithReason
<1> QED
  BY <1>1, ConsentInvariant, PTL

\* A call that waits and its open card come and go together.
THEOREM CardsAreMatched == ConsentSpec => []CardsMatch
<1>1. WInv => CardsMatch
  <2> SUFFICES ASSUME WInv, NEW x \in Cards
               PROVE  /\ Card(x[1]) = x /\ answer[x[1]] = "none" => x \in cards
                      /\ x \in cards => \/ pc[x[1]] = "dropped"
                                        \/ Card(x[1]) = x /\ answer[x[1]] = "none"
    BY DEF CardsMatch
  <2>1. x[1] \in Calls /\ x[2] \in Hurdles /\ x = <<x[1], x[2]>>
    BY CardFacts
  <2>2. Card(x[1]) = x <=> pc[x[1]] = x[2]
    BY <2>1 DEF Card
  <2>3. ASSUME pc[x[1]] = x[2], answer[x[1]] = "none"
        PROVE  x \in cards
    <3>1. <<x[1], pc[x[1]]>> \in cards
      BY <2>1, <2>3 DEF WInv, Waits, Waiting, Hurdles
    <3> QED
      BY <2>1, <2>3, <3>1
  <2>4. ASSUME x \in cards
        PROVE  pc[x[1]] = "dropped" \/ (pc[x[1]] = x[2] /\ answer[x[1]] = "none")
    <3>1. <<x[1], x[2]>> \in cards
      BY <2>1, <2>4
    <3> QED
      BY <2>1, <3>1 DEF WInv, OpenCards
  <2> QED
    BY <2>2, <2>3, <2>4
<1> QED
  BY <1>1, ConsentInvariant, PTL

-----------------------------------------------------------------------------
(* The configuration is well typed *)

\* What a change makes of a configuration is one.
LEMMA PatchedType ==
  ASSUME NEW p \in Patches \cup {NoPatch}, NEW c \in ApprovalConfigs
  PROVE  Patched(p, c) \in ApprovalConfigs /\ DeepMerged(p, c) \in ApprovalConfigs
<1>1. DOMAIN c = {"mode", "allow_list", "tool_overrides"}
  BY DEF ApprovalConfigs
<1>2. c["mode"] \in Modes /\ c["allow_list"] \in SUBSET Keys
      /\ c["tool_overrides"] \in [Tools -> Policies \cup {Unset}]
  BY DEF ApprovalConfigs
<1>3. /\ "mode" \in DOMAIN p => p["mode"] \in Modes
      /\ "allow_list" \in DOMAIN p => p["allow_list"] \in SUBSET Keys
      /\ "tool_overrides" \in DOMAIN p => p["tool_overrides"] \in [Tools -> Policies \cup {Unset}]
  BY PatchAssumption DEF NoPatch
<1> DEFINE q == Patched(p, c)
<1>4. q = [mode           |-> IF "mode" \in DOMAIN p THEN p["mode"] ELSE c["mode"],
           allow_list     |-> IF "allow_list" \in DOMAIN p THEN p["allow_list"] ELSE c["allow_list"],
           tool_overrides |-> IF "tool_overrides" \in DOMAIN p THEN p["tool_overrides"]
                              ELSE c["tool_overrides"]]
  BY <1>1 DEF Patched
<1>5. q \in ApprovalConfigs
  BY <1>2, <1>3, <1>4 DEF ApprovalConfigs
<1>6. [t \in Tools |-> IF "tool_overrides" \in DOMAIN p /\ p["tool_overrides"][t] # Unset
                       THEN p["tool_overrides"][t] ELSE c["tool_overrides"][t]]
        \in [Tools -> Policies \cup {Unset}]
  BY <1>2, <1>3
<1>7. DeepMerged(p, c) \in ApprovalConfigs
  BY <1>5, <1>6 DEF DeepMerged, ApprovalConfigs
<1> QED
  BY <1>5, <1>7

\* A change, applied to a configuration, gives one.
LEMMA AppliedType ==
  ASSUME NEW ch \in Changes
  PROVE  /\ \A c \in ApprovalConfigs : Applied(ch, c) \in ApprovalConfigs
         /\ \A f \in Files : FileWith(ch, f) \in Files
<1>1. ASSUME NEW c \in ApprovalConfigs
      PROVE  Applied(ch, c) \in ApprovalConfigs
  <2>1. CASE ch \in [kind : {"add_grant", "remove_grant"}, key : Keys]
    <3>1. CASE ch.kind = "add_grant"
      BY <2>1, <3>1 DEF Applied, ApprovalConfigs
    <3>2. CASE ch.kind = "remove_grant"
      BY <2>1, <3>2 DEF Applied, ApprovalConfigs
    <3> QED
      BY <2>1, <3>1, <3>2
  <2>2. CASE ch \in [kind : {"patch"}, to : Patches]
    <3>1. ch.kind = "patch" /\ ch.to \in Patches
      BY <2>2
    <3>2. Applied(ch, c) = Patched(ch.to, c)
      BY <3>1 DEF Applied
    <3> QED
      BY <3>1, <3>2, PatchedType
  <2>3. CASE ch \in [kind : {"put"}, to : Patches \cup {NoPatch}, other : Others]
    <3>1. ch.kind = "put" /\ ch.to \in Patches \cup {NoPatch}
      BY <2>3
    <3>2. Applied(ch, c) = DeepMerged(ch.to, c)
      BY <3>1 DEF Applied
    <3> QED
      BY <3>1, <3>2, PatchedType
  <2> QED
    BY <2>1, <2>2, <2>3 DEF Changes
<1>2. ASSUME NEW f \in Files
      PROVE  FileWith(ch, f) \in Files
  <2>1. f.approval \in ApprovalConfigs /\ f.other \in Others \cup {DefaultOther}
    BY DEF Files
  <2>2. ch.kind = "put" => ch.other \in Others
    BY DEF Changes
  <2> QED
    BY <1>1, <2>1, <2>2 DEF FileWith, Files
<1> QED
  BY <1>1, <1>2

\* What an empty file stands for is a configuration.
LEMMA DefaultType == Default \in Files /\ DefaultApproval \in ApprovalConfigs
BY DEF Default, Files, DefaultApproval, ApprovalConfigs, Modes

\* a request that reads or merges has something to change
Asking == \A r \in Requests : stage[r] \in {"read", "merge"} => change[r] \in Changes

Configured == ConfigTypeOK /\ Asking

\* The three copies begin well typed.
LEMMA ConfiguredInit == ConfigInit => Configured
BY DefaultType DEF ConfigInit, Configured, ConfigTypeOK, Asking

\* A request that begins is well typed.
LEMMA BeginType ==
  ASSUME Configured, NEW r \in Requests, NEW ch \in Changes, Begin(r, ch)
  PROVE  Configured'
<1>1. /\ change' = [change EXCEPT ![r] = ch]
      /\ stage' = [stage EXCEPT ![r] = IF ch.kind = "put" THEN "merge" ELSE "read"]
      /\ disturbed' \in BOOLEAN
      /\ UNCHANGED <<live, shadow, disk, text, promised>>
  BY DEF Begin, copies, Configured, ConfigTypeOK
<1> QED
  BY <1>1 DEF Configured, ConfigTypeOK, Asking

\* Each step of a request writes configurations only.
LEMMA UpdateType ==
  ASSUME Configured, NEW r \in Requests, Update(r)
  PROVE  Configured'
<1> USE DEF Configured, ConfigTypeOK, Asking, copies
<1>1. CASE ReadLive(r)
  <2>1. Applied(change[r], live) \in ApprovalConfigs
    BY <1>1, AppliedType DEF ReadLive
  <2>2. text' \in [Requests -> Files]
    BY <1>1, <2>1 DEF ReadLive, Files
  <2> QED
    BY <1>1, <2>2 DEF ReadLive
<1>2. CASE SetLive(r)
  BY <1>2 DEF SetLive, Files
<1>3. CASE Render(r)
  <2>1. [shadow EXCEPT !.approval = text[r].approval] \in Files
    BY DEF Files
  <2> QED
    BY <1>3, <2>1 DEF Render
<1>4. CASE Merge(r)
  <2>1. FileWith(change[r], shadow) \in Files
    BY <1>4, AppliedType DEF Merge
  <2> QED
    BY <1>4, <2>1 DEF Merge
<1>5. CASE Open(r)
  BY <1>5 DEF Open
<1>6. CASE Fill(r)
  BY <1>6 DEF Fill
<1>7. CASE WriteFails(r)
  BY <1>7, DefaultType DEF WriteFails, Gone
<1>8. CASE Sync(r)
  <2>1. shadow' \in Files
    <3>1. text[r] \in Files /\ [shadow EXCEPT !.approval = text[r].approval] \in Files
      BY DEF Files
    <3> QED
      BY <1>8, <3>1 DEF Sync
  <2> QED
    BY <1>8, <2>1, DefaultType DEF Sync
<1> QED
  BY <1>1, <1>2, <1>3, <1>4, <1>5, <1>6, <1>7, <1>8 DEF Update

\* An answered request leaves the copies alone.
LEMMA AnsweredType ==
  ASSUME Configured, NEW r \in Requests, Answered(r)
  PROVE  Configured'
<1> USE DEF Configured, ConfigTypeOK, Asking, copies
<1>1. promised' \in Files
  <2>1. CASE disturbed \/ change[r] = NoChange
    BY <2>1 DEF Answered
  <2>2. CASE ~(disturbed \/ change[r] = NoChange)
    <3>1. FileWith(change[r], promised) \in Files
      BY <2>2, AppliedType
    <3> QED
      BY <2>2, <3>1 DEF Answered
  <2> QED
    BY <2>1, <2>2
<1> QED
  BY <1>1, DefaultType DEF Answered, Gone

\* A request whose client went away leaves the copies alone.
LEMMA HungUpType ==
  ASSUME Configured, NEW r \in Requests, HangUp(r)
  PROVE  Configured'
BY DefaultType DEF HangUp, Gone, Configured, ConfigTypeOK, Asking, copies

\* What a start reads from the disk is a configuration.
LEMMA BootType ==
  ASSUME Configured, Boot
  PROVE  Configured'
<1> USE DEF Configured, ConfigTypeOK
<1>1. Loaded \in Files
  BY DefaultType DEF Loaded
<1>2. Loaded.approval \in ApprovalConfigs
  BY <1>1 DEF Files
<1>3. /\ live' \in ApprovalConfigs /\ shadow' \in Files /\ disk' \subseteq Files
      /\ promised' \in Files /\ disturbed' \in BOOLEAN
      /\ change' \in [Requests -> Changes \cup {NoChange}] /\ text' \in [Requests -> Files]
  BY <1>1, <1>2, DefaultType DEF Boot
<1>4. /\ stage' \in [Requests -> {"new", "read", "set", "render", "merge", "open", "fill",
                                  "sync", "allow", "saved", "done"}]
      /\ Asking'
  BY DEF Boot, Asking
<1> QED
  BY <1>3, <1>4

\* cards for paths are of calls that have one, and so are the requests that
\* allow a directory
PathCards ==
  /\ \A c \in Calls : <<c, "path">> \in cards => DirOf[c] # NoDir
  /\ \A r \in Requests : stage[r] = "allow" =>
       reply[r] # NoReply /\ DirOf[reply[r].card[1]] # NoDir

TInv ==
  /\ Configured /\ PathCards
  /\ paths \subseteq {DirOf[c] : c \in Calls} \ {NoDir}

\* Calls and configuration begin well typed.
LEMMA TypedInit == ConsentInit => TInv
BY ConfiguredInit DEF ConsentInit, ConfigInit, TInv, PathCards

\* A call's steps open a card for a path only when it has one.
LEMMA TypedCall ==
  ASSUME WInv, TInv, NEW c \in Calls, UNCHANGED <<configVars, paths, reply, said>>,
         Call(c) \/ CallStep(c) \/ DeadlinePasses(c) \/ Drop(c)
  PROVE  TInv'
<1>1. Configured'
  BY DEF TInv, Configured, ConfigTypeOK, Asking, configVars, copies
<1>2. \A d \in Calls : <<d, "path">> \in cards' => <<d, "path">> \in cards \/ DirOf[d] # NoDir
  <2>1. \/ cards' \subseteq cards \cup {<<c, "tool">>}
        \/ ~Passes(<<c, "path">>) /\ cards' = cards \cup {<<c, "path">>}
    BY DEF Call, CallStep, DeadlinePasses, Drop, TakeAnswer, Poll, TimesOut, Reevaluates, PastCard,
       PastPath, Await, Go
  <2>2. ~Passes(<<c, "path">>) => DirOf[c] # NoDir
    BY DEF Passes
  <2> QED
    BY <2>1, <2>2
<1> QED
  BY <1>1, <1>2 DEF TInv, PathCards, configVars

\* Steps of requests keep the types of what they share with calls.
LEMMA TypedRequest ==
  ASSUME WInv, TInv, NEW r \in Requests,
         \/ Configure(r) \/ Reply(r) \/ AllowPath(r) \/ Resolve(r) \/ Leave(r)
         \/ \E x \in cards, yes, remember \in BOOLEAN : Respond(r, x, yes, remember)
  PROVE  TInv'
<1> USE DEF TInv, PathCards
<1>0. /\ stage \in [Requests -> {"new", "read", "set", "render", "merge", "open", "fill",
                                 "sync", "allow", "saved", "done"}]
      /\ reply \in [Requests -> {NoReply} \cup [card : Cards, yes : BOOLEAN]]
  BY DEF Configured, ConfigTypeOK, WInv, CallTypeOK
<1>1. CASE Configure(r)
  <2>1. Configured'
    BY <1>1, BeginType, UpdateType DEF Configure, Ask
  <2>2. \A q \in Requests : stage'[q] = "allow" => stage[q] = "allow"
    BY <1>0, <1>1 DEF Configure, Ask, Begin, Update, ReadLive, SetLive, Render, Merge, Open, Fill,
       WriteFails, Sync, Gone
  <2> QED
    BY <1>1, <2>1, <2>2 DEF Configure, restVars, callVars
<1>2. CASE Reply(r) \/ Resolve(r) \/ Leave(r)
  <2>1. Configured'
    BY <1>2, AnsweredType, HungUpType DEF Reply, Resolve, Leave
  <2>2. \A q \in Requests : stage'[q] = "allow" => stage[q] = "allow" /\ q # r
    BY <1>0, <1>2 DEF Reply, Resolve, Leave, Answered, HangUp, Gone
  <2>3. cards' \subseteq cards /\ paths' = paths /\ \A q \in Requests : q # r => reply'[q] = reply[q]
    BY <1>0, <1>2 DEF Reply, Resolve, Leave, restVars, callVars
  <2> QED
    BY <2>1, <2>2, <2>3
<1>3. CASE AllowPath(r)
  <2>1. reply[r].card[1] \in Calls
    BY <1>0, <1>3, CardFacts DEF AllowPath
  <2>2. paths' \subseteq {DirOf[c] : c \in Calls} \ {NoDir}
    BY <1>3, <2>1 DEF AllowPath
  <2>3. Configured'
    BY <1>3 DEF AllowPath, Configured, ConfigTypeOK, Asking, copies
  <2>4. \A q \in Requests : stage'[q] = "allow" => stage[q] = "allow"
    BY <1>0, <1>3 DEF AllowPath
  <2> QED
    BY <1>3, <2>2, <2>3, <2>4 DEF AllowPath, callVars
<1>4. CASE \E x \in cards, yes, remember \in BOOLEAN : Respond(r, x, yes, remember)
  <2>1. PICK x \in cards, yes \in BOOLEAN, remember \in BOOLEAN : Respond(r, x, yes, remember)
    BY <1>4
  <2>2. PICK c \in Calls, s \in Hurdles : x = <<c, s>>
    BY <2>1, CardFacts DEF WInv, CallTypeOK
  <2>3. reply' = [reply EXCEPT ![r] = [card |-> x, yes |-> yes]] /\ UNCHANGED <<cards, paths>>
    BY <2>1 DEF Respond, callVars
  <2>4. CASE yes /\ remember /\ s = "tool"
    <3>1. Begin(r, [kind |-> "add_grant", key |-> KeyOf[c]])
      BY <2>1, <2>2, <2>4 DEF Respond
    <3>2. [kind |-> "add_grant", key |-> KeyOf[c]] \in Changes
      BY CallAssumption DEF Changes
    <3>3. Configured'
      BY <3>1, <3>2, BeginType
    <3>4. \A q \in Requests : stage'[q] = "allow" => stage[q] = "allow" /\ q # r
      BY <1>0, <3>1 DEF Begin
    <3> QED
      BY <1>0, <2>3, <3>3, <3>4
  <2>5. CASE ~(yes /\ remember /\ s = "tool")
    <3>1. /\ stage' = [stage EXCEPT ![r] = IF yes /\ s = "path" THEN "allow" ELSE "saved"]
          /\ stage[r] = "new" /\ UNCHANGED <<copies, change, text, promised, disturbed>>
      BY <2>1, <2>2, <2>5 DEF Respond, Comes
    <3>2. Configured'
      BY <3>1 DEF Configured, ConfigTypeOK, Asking, copies
    <3>3. \A q \in Requests : q # r => stage'[q] = stage[q] /\ reply'[q] = reply[q]
      BY <1>0, <2>3, <3>1
    <3>4. stage'[r] = "allow" => reply'[r] # NoReply /\ DirOf[reply'[r].card[1]] # NoDir
      <4> SUFFICES ASSUME s = "path"
                   PROVE  reply'[r] # NoReply /\ DirOf[reply'[r].card[1]] # NoDir
        BY <1>0, <3>1
      <4>1. DirOf[c] # NoDir /\ reply'[r] = [card |-> <<c, s>>, yes |-> yes]
        BY <1>0, <2>1, <2>2, <2>3
      <4> QED
        BY <4>1 DEF NoReply
    <3> QED
      BY <2>3, <3>2, <3>3, <3>4
  <2> QED
    BY <2>4, <2>5
<1> QED
  BY <1>1, <1>2, <1>3, <1>4

\* Every step keeps the types.
LEMMA TypedStep == WInv /\ TInv /\ [ConsentNext]_vars => TInv'
<1> SUFFICES ASSUME WInv, TInv, [ConsentNext]_vars
             PROVE  TInv'
  OBVIOUS
<1>1. CASE UNCHANGED vars
  BY <1>1 DEF vars, configVars, copies, callVars, TInv, PathCards, Configured, ConfigTypeOK, Asking
<1>2. CASE Restart
  <2>1. Configured' /\ cards' = {} /\ paths' = {} /\ \A r \in Requests : stage'[r] # "allow"
    BY <1>2, BootType DEF Restart, Boot, TInv
  <2> QED
    BY <2>1 DEF TInv, PathCards
<1> QED
  BY <1>1, <1>2, TypedCall, TypedRequest DEF ConsentNext

\* The three copies of the approval configuration, the requests and the calls
\* are always well typed.
THEOREM ConsentTypes == ConsentSpec => []ConsentTypeOK
<1>1. WInv /\ TInv => ConsentTypeOK
  BY DEF WInv, TInv, Configured, ConsentTypeOK
<1> QED
  BY <1>1, TypedInit, TypedStep, ConsentInvariant, PTL DEF ConsentSpec

-----------------------------------------------------------------------------
(* What was answered is in all three copies *)

\* a request that works on the configuration has something to change, and one
\* that does not has nothing
Working ==
  \A r \in Requests :
    /\ stage[r] \in {"read", "set", "render", "merge", "open", "fill", "sync"}
         => change[r] # NoChange
    /\ stage[r] \in {"new", "done", "allow"} => change[r] = NoChange

\* the file is whole and is what was promised
OnDisk == Readable /\ Loaded = promised

\* how far a request has brought what it makes of the promised configuration
\* into its text, the live copy, the file and the server's copy, in this order
Progress(r) ==
  LET w == FileWith(change[r], promised) IN
  /\ change[r].kind = "put" => change[r].to = NoPatch
  /\ stage[r] \in {"read", "set", "render"} => change[r].kind # "put"
  /\ stage[r] = "merge" => change[r].kind = "put"
  /\ stage[r] \in {"set", "render"} => text[r].approval = w.approval
  /\ stage[r] \in {"open", "fill", "sync"} => text[r] = w
  /\ live = IF stage[r] \in {"read", "set", "merge"} THEN promised.approval ELSE w.approval
  /\ stage[r] \in {"read", "set", "render", "merge", "open"} => OnDisk
  /\ stage[r] = "fill" => disk = {}
  /\ stage[r] \in {"sync", "saved"} => disk = {w}
  /\ shadow = IF stage[r] = "saved" THEN w ELSE promised

\* until it is disturbed one request works at a time, and between two of them
\* the three copies agree
Orderly ==
  ~disturbed =>
    /\ \A q, r \in Busy : q = r
    /\ \A r \in Busy : Progress(r)
    /\ Busy = {} => OnDisk /\ shadow = promised /\ live = promised.approval

DurInv == Configured /\ Working /\ Orderly

\* What a change makes of a configuration, part by part: a PUT that leaves the
\* approval section out does not touch it, the others touch nothing else.
LEMMA WithParts ==
  ASSUME NEW ch \in Changes, NEW f \in Files
  PROVE  /\ ch # NoChange
         /\ FileWith(ch, f) \in Files
         /\ FileWith(ch, f).approval = Applied(ch, f.approval)
         /\ ch.kind = "put" /\ ch.to = NoPatch => FileWith(ch, f).approval = f.approval
         /\ ch.kind # "put" => [f EXCEPT !.approval = FileWith(ch, f).approval] = FileWith(ch, f)
<1>1. FileWith(ch, f) \in Files /\ FileWith(ch, f).approval = Applied(ch, f.approval)
  BY AppliedType DEF FileWith
<1>2. ch # NoChange
  <2>1. ch.kind # NoChange.kind
    BY DEF Changes, NoChange
  <2> QED
    BY <2>1
<1>3. ASSUME ch.kind = "put", ch.to = NoPatch
      PROVE  FileWith(ch, f).approval = f.approval
  <2> DEFINE c == f.approval
  <2>1. c \in ApprovalConfigs
    BY DEF Files
  <2>2. /\ DOMAIN c = {"mode", "allow_list", "tool_overrides"} /\ c = [x \in DOMAIN c |-> c[x]]
        /\ c["tool_overrides"] \in [Tools -> Policies \cup {Unset}]
    BY <2>1 DEF ApprovalConfigs
  <2>3. Patched(NoPatch, c) = c
    BY <2>2 DEF Patched, NoPatch
  <2>4. [t \in Tools |-> IF "tool_overrides" \in DOMAIN NoPatch /\ NoPatch["tool_overrides"][t] # Unset
                         THEN NoPatch["tool_overrides"][t] ELSE c["tool_overrides"][t]]
          = c["tool_overrides"]
    BY <2>2 DEF NoPatch
  <2>5. [c EXCEPT !["tool_overrides"] = c["tool_overrides"]] = c
    BY <2>2
  <2>6. DeepMerged(NoPatch, c) = c
    BY <2>3, <2>4, <2>5 DEF DeepMerged
  <2>7. Applied(ch, c) = DeepMerged(ch.to, c)
    BY <1>3 DEF Applied
  <2> QED
    BY <1>1, <1>3, <2>6, <2>7
<1>4. ASSUME ch.kind # "put"
      PROVE  [f EXCEPT !.approval = FileWith(ch, f).approval] = FileWith(ch, f)
  <2>1. f = [approval |-> f.approval, other |-> f.other]
    BY DEF Files
  <2> QED
    BY <1>4, <2>1 DEF FileWith
<1> QED
  BY <1>1, <1>2, <1>3, <1>4

\* The daemon starts with a file that is what it promised.
LEMMA OrderlyInit == ConfigInit => DurInv
<1> SUFFICES ASSUME ConfigInit PROVE DurInv
  OBVIOUS
<1>1. Configured
  BY ConfiguredInit
<1>2. Working /\ Busy = {}
  BY DEF ConfigInit, Working, Busy
<1>3. OnDisk /\ shadow = promised /\ live = promised.approval
  BY DEF ConfigInit, OnDisk, Readable, Loaded, Default
<1> QED
  BY <1>1, <1>2, <1>3 DEF DurInv, Orderly

\* A file that holds one text is whole, and that text is loaded.
LEMMA OneText == ASSUME NEW f, disk = {f} PROVE Readable /\ Loaded = f
BY DEF Readable, Loaded

\* A request that begins finds the copies in agreement, or disturbs.
LEMMA OrderlyBegin ==
  ASSUME DurInv, NEW r \in Requests, NEW ch \in Changes, Begin(r, ch)
  PROVE  DurInv'
<1>0. /\ stage \in [Requests -> {"new", "read", "set", "render", "merge", "open", "fill",
                                 "sync", "allow", "saved", "done"}]
      /\ change \in [Requests -> Changes \cup {NoChange}] /\ promised \in Files
  BY DEF DurInv, Configured, ConfigTypeOK
<1>1. /\ stage[r] = "new" /\ change' = [change EXCEPT ![r] = ch]
      /\ stage' = [stage EXCEPT ![r] = IF ch.kind = "put" THEN "merge" ELSE "read"]
      /\ disturbed' = (disturbed \/ Busy # {} \/ (ch.kind = "put" /\ ch.to # NoPatch))
      /\ UNCHANGED <<live, shadow, disk, text, promised>>
  BY DEF Begin, Comes, copies
<1>2. ch # NoChange
  BY <1>0, WithParts
<1>3. /\ change'[r] = ch /\ stage'[r] = IF ch.kind = "put" THEN "merge" ELSE "read"
      /\ \A q \in Requests : q # r => change'[q] = change[q] /\ stage'[q] = stage[q]
  BY <1>0, <1>1
<1>4. Configured'
  BY BeginType DEF DurInv
<1>5. Working'
  BY <1>2, <1>3 DEF DurInv, Working
<1>6. Orderly'
  <2> SUFFICES ASSUME ~disturbed' PROVE Orderly'
    BY DEF Orderly
  <2>1. ~disturbed /\ Busy = {} /\ (ch.kind = "put" => ch.to = NoPatch)
    BY <1>1
  <2>2. OnDisk /\ shadow = promised /\ live = promised.approval
    BY <2>1 DEF DurInv, Orderly
  <2>3. Busy' = {r}
    BY <1>2, <1>3, <2>1 DEF Busy
  <2>4. OnDisk'
    BY <1>1, <2>2 DEF OnDisk, Readable, Loaded
  <2>5. Progress(r)'
    <3>1. CASE ch.kind = "put"
      BY <3>1, <1>1, <1>3, <2>1, <2>2, <2>4 DEF Progress
    <3>2. CASE ch.kind # "put"
      BY <3>2, <1>1, <1>3, <2>1, <2>2, <2>4 DEF Progress
    <3> QED
      BY <3>1, <3>2
  <2> QED
    BY <2>3, <2>5 DEF Orderly
<1> QED
  BY <1>4, <1>5, <1>6 DEF DurInv

\* A request that works alone brings its change one copy further.
LEMMA OrderlyUpdate ==
  ASSUME DurInv, NEW r \in Requests, Update(r)
  PROVE  DurInv'
<1>0. /\ stage \in [Requests -> {"new", "read", "set", "render", "merge", "open", "fill",
                                 "sync", "allow", "saved", "done"}]
      /\ change \in [Requests -> Changes \cup {NoChange}] /\ promised \in Files
      /\ text \in [Requests -> Files] /\ shadow \in Files
  BY DEF DurInv, Configured, ConfigTypeOK
<1>1. Configured'
  BY UpdateType DEF DurInv
<1>2. stage[r] \in {"read", "set", "render", "merge", "open", "fill", "sync"}
  BY DEF Update, ReadLive, SetLive, Render, Merge, Open, Fill, WriteFails, Sync
<1>3. change[r] # NoChange /\ change[r] \in Changes /\ r \in Busy
  BY <1>0, <1>2 DEF DurInv, Working, Busy
<1>4. CASE WriteFails(r)
  <2>1. /\ disturbed' = TRUE
        /\ \/ stage' = [stage EXCEPT ![r] = "saved"] /\ change' = change
           \/ stage' = [stage EXCEPT ![r] = "done"] /\ change' = [change EXCEPT ![r] = NoChange]
    BY <1>4 DEF WriteFails, Gone
  <2>2. Working'
    BY <1>0, <2>1 DEF DurInv, Working
  <2>3. Orderly'
    BY <2>1 DEF Orderly
  <2> QED
    BY <1>1, <2>2, <2>3 DEF DurInv
<1>5. CASE ~WriteFails(r)
  <2> DEFINE w == FileWith(change[r], promised)
  <2>1. UNCHANGED <<change, promised, disturbed>>
    BY <1>5 DEF Update, ReadLive, SetLive, Render, Merge, Open, Fill, Sync
  <2>2. PICK st \in {"set", "render", "open", "fill", "sync", "saved"} :
          stage' = [stage EXCEPT ![r] = st]
    BY <1>5 DEF Update, ReadLive, SetLive, Render, Merge, Open, Fill, Sync
  <2>3. /\ stage'[r] = st /\ \A q \in Requests : q # r => stage'[q] = stage[q]
        /\ change'[r] = change[r]
    BY <1>0, <2>1, <2>2
  <2>4. Working'
    BY <1>3, <2>1, <2>3 DEF DurInv, Working
  <2>5. Busy' = Busy
    BY <1>2, <1>3, <2>1, <2>3 DEF Busy
  <2>6. ASSUME ~disturbed PROVE Progress(r)'
    <3>0. Progress(r)
      BY <1>3, <2>6 DEF DurInv, Orderly
    <3>1. /\ w \in Files /\ w.approval = Applied(change[r], promised.approval)
          /\ change[r].kind = "put" /\ change[r].to = NoPatch => w.approval = promised.approval
          /\ change[r].kind # "put" => [promised EXCEPT !.approval = w.approval] = w
      BY <1>0, <1>3, WithParts
    <3>2. w' = w
      BY <2>1
    <3>3. UNCHANGED disk => OnDisk' = OnDisk
      BY <2>1 DEF OnDisk, Readable, Loaded
    <3> HIDE DEF w
    <3>4. CASE ReadLive(r)
      <4>1. stage[r] = "read" /\ stage'[r] = "set" /\ UNCHANGED <<live, shadow, disk>>
        BY <3>4, <1>0 DEF ReadLive, copies
      <4>2. text'[r].approval = w.approval
        BY <3>0, <3>1, <3>4, <4>1, <1>0 DEF ReadLive, Progress, Files
      <4> QED
        BY <2>1, <3>0, <3>2, <3>3, <4>1, <4>2 DEF Progress, w
    <3>5. CASE SetLive(r)
      <4>1. /\ stage[r] = "set" /\ stage'[r] = "render" /\ UNCHANGED <<shadow, disk, text>>
            /\ live' = text[r].approval
        BY <3>5, <1>0 DEF SetLive
      <4> QED
        BY <2>1, <3>0, <3>2, <3>3, <4>1 DEF Progress, w
    <3>6. CASE Render(r)
      <4>1. /\ stage[r] = "render" /\ stage'[r] = "open" /\ UNCHANGED <<live, shadow, disk>>
            /\ text'[r] = [shadow EXCEPT !.approval = text[r].approval]
        BY <3>6, <1>0 DEF Render, copies
      <4>2. text'[r] = w
        BY <3>0, <3>1, <4>1 DEF Progress, w
      <4> QED
        BY <2>1, <3>0, <3>2, <3>3, <4>1, <4>2 DEF Progress, w
    <3>7. CASE Merge(r)
      <4>1. /\ stage[r] = "merge" /\ stage'[r] = "open" /\ UNCHANGED <<live, shadow, disk>>
            /\ text'[r] = FileWith(change[r], shadow)
        BY <3>7, <1>0 DEF Merge, copies
      <4>2. text'[r] = w /\ live = w.approval
        BY <3>0, <3>1, <4>1 DEF Progress, w
      <4> QED
        BY <2>1, <3>0, <3>2, <3>3, <4>1, <4>2 DEF Progress, w
    <3>8. CASE Open(r)
      <4>1. /\ stage[r] = "open" /\ stage'[r] = "fill" /\ UNCHANGED <<live, shadow, text>>
            /\ disk' = {}
        BY <3>8, <1>0 DEF Open
      <4> QED
        BY <2>1, <3>0, <3>2, <4>1 DEF Progress, w
    <3>9. CASE Fill(r)
      <4>1. /\ stage[r] = "fill" /\ stage'[r] = "sync" /\ UNCHANGED <<live, shadow, text>>
            /\ disk' = {text[r]} \/ disk' = disk \cup {text[r]}
        BY <3>9, <1>0 DEF Fill
      <4>2. disk' = {w}
        BY <3>0, <4>1 DEF Progress, w
      <4> QED
        BY <2>1, <3>0, <3>2, <4>1, <4>2 DEF Progress, w
    <3>10. CASE Sync(r)
      <4>1. /\ stage[r] = "sync" /\ stage'[r] = "saved" /\ UNCHANGED <<live, disk>>
            /\ shadow' = IF change[r].kind = "put" THEN text[r]
                         ELSE [shadow EXCEPT !.approval = text[r].approval]
        BY <3>10, <1>0 DEF Sync
      <4>2. shadow' = w
        BY <3>0, <3>1, <4>1 DEF Progress, w
      <4> QED
        BY <2>1, <3>0, <3>2, <4>1, <4>2 DEF Progress, w
    <3> QED
      BY <1>5, <3>4, <3>5, <3>6, <3>7, <3>8, <3>9, <3>10 DEF Update
  <2>7. Orderly'
    <3> SUFFICES ASSUME ~disturbed PROVE Orderly'
      BY <2>1 DEF Orderly
    <3>1. \A q \in Busy : q = r
      BY <1>3 DEF DurInv, Orderly
    <3>2. \A q, p \in Busy' : q = p
      BY <2>5, <3>1
    <3>3. \A q \in Busy' : Progress(q)'
      BY <2>5, <2>6, <3>1
    <3> QED
      BY <1>3, <2>5, <3>2, <3>3 DEF Orderly
  <2> QED
    BY <1>1, <2>4, <2>7 DEF DurInv
<1> QED
  BY <1>4, <1>5

\* A request that is answered leaves what it promised in all three copies.
LEMMA OrderlyAnswer ==
  ASSUME DurInv, NEW r \in Requests, Answered(r)
  PROVE  DurInv'
<1>0. /\ stage \in [Requests -> {"new", "read", "set", "render", "merge", "open", "fill",
                                 "sync", "allow", "saved", "done"}]
      /\ change \in [Requests -> Changes \cup {NoChange}]
  BY DEF DurInv, Configured, ConfigTypeOK
<1>1. /\ stage[r] = "saved" /\ UNCHANGED <<live, shadow, disk, disturbed>>
      /\ stage' = [stage EXCEPT ![r] = "done"] /\ change' = [change EXCEPT ![r] = NoChange]
      /\ promised' = IF disturbed \/ change[r] = NoChange THEN promised
                     ELSE FileWith(change[r], promised)
      /\ text' = [text EXCEPT ![r] = Default]
  BY DEF Answered, Gone, copies
<1>2. /\ stage'[r] = "done" /\ change'[r] = NoChange
      /\ \A q \in Requests : q # r => /\ stage'[q] = stage[q] /\ change'[q] = change[q]
                                     /\ text'[q] = text[q]
  BY <1>0, <1>1 DEF DurInv, Configured, ConfigTypeOK
<1>3. Configured'
  BY AnsweredType DEF DurInv
<1>4. Working'
  BY <1>2 DEF DurInv, Working
<1>5. Busy' = Busy \ {r}
  BY <1>2 DEF Busy
<1>6. Orderly'
  <2> SUFFICES ASSUME ~disturbed PROVE Orderly'
    BY <1>1 DEF Orderly
  <2>1. CASE change[r] = NoChange
    <3>1. r \notin Busy /\ Busy' = Busy /\ promised' = promised
      BY <1>1, <1>5, <2>1 DEF Busy
    <3>2. OnDisk' = OnDisk
      BY <1>1, <3>1 DEF OnDisk, Readable, Loaded
    <3>3. ASSUME NEW q \in Busy PROVE Progress(q)'
      <4>1. q # r /\ q \in Requests /\ Progress(q)
        BY <3>1 DEF DurInv, Orderly, Busy
      <4>2. stage'[q] = stage[q] /\ change'[q] = change[q] /\ text'[q] = text[q]
        BY <1>2, <4>1
      <4> QED
        BY <1>1, <3>1, <3>2, <4>1, <4>2 DEF Progress
    <3> QED
      BY <1>1, <3>1, <3>2, <3>3 DEF DurInv, Orderly
  <2>2. CASE change[r] # NoChange
    <3>1. r \in Busy /\ Busy' = {}
      BY <1>1, <1>5, <2>2 DEF DurInv, Orderly, Busy
    <3>2. Progress(r) /\ promised' = FileWith(change[r], promised)
      BY <1>1, <2>2, <3>1 DEF DurInv, Orderly
    <3>3. /\ disk = {promised'} /\ shadow = promised' /\ live = promised'.approval
      BY <1>1, <3>2 DEF Progress
    <3>4. Readable /\ Loaded = promised'
      BY <3>3, OneText
    <3>5. OnDisk' /\ shadow' = promised' /\ live' = promised'.approval
      BY <1>1, <3>3, <3>4 DEF OnDisk, Readable, Loaded
    <3> QED
      BY <3>1, <3>5 DEF Orderly
  <2> QED
    BY <2>1, <2>2
<1> QED
  BY <1>3, <1>4, <1>6 DEF DurInv

\* A request whose client went away disturbs.
LEMMA OrderlyHungUp ==
  ASSUME DurInv, NEW r \in Requests, HangUp(r)
  PROVE  DurInv'
<1>1. Configured'
  BY HungUpType DEF DurInv
<1>2. Working' /\ disturbed'
  BY DEF DurInv, Configured, ConfigTypeOK, Working, HangUp, Gone
<1> QED
  BY <1>1, <1>2 DEF DurInv, Orderly

\* A start takes all three copies from the file; between two requests that is
\* what was promised.
LEMMA OrderlyBoot == ASSUME DurInv, Boot PROVE DurInv'
<1>1. /\ Readable /\ live' = Loaded.approval /\ shadow' = Loaded /\ disk' = disk
      /\ promised' = IF disturbed \/ Busy # {} THEN Loaded ELSE promised
      /\ \A r \in Requests : change'[r] = NoChange
      /\ \A r \in Requests : stage'[r] \in {"new", "done"}
  BY DEF Boot
<1>2. Configured'
  BY BootType DEF DurInv
<1>3. Working' /\ Busy' = {}
  BY <1>1 DEF Working, Busy
<1>4. promised' = Loaded
  BY <1>1 DEF DurInv, Orderly, OnDisk
<1>5. OnDisk' /\ shadow' = promised' /\ live' = promised'.approval
  BY <1>1, <1>4 DEF OnDisk, Readable, Loaded
<1> QED
  BY <1>2, <1>3, <1>5 DEF DurInv, Orderly

\* A request that has nothing to change only comes and goes.
LEMMA OrderlyWord ==
  ASSUME DurInv, Configured', NEW r \in Requests, NEW st \in {"allow", "saved"},
         stage[r] \in {"new", "allow"}, stage' = [stage EXCEPT ![r] = st],
         UNCHANGED <<copies, change, text, promised, disturbed>>
  PROVE  DurInv'
<1>1. change[r] = NoChange
  BY DEF DurInv, Working
<1>2. stage'[r] = st /\ \A q \in Requests : q # r => stage'[q] = stage[q]
  BY DEF DurInv, Configured, ConfigTypeOK
<1>3. Working'
  BY <1>1, <1>2 DEF DurInv, Working
<1>4. r \notin Busy /\ Busy' = Busy
  BY <1>1, <1>2 DEF Busy
<1>5. OnDisk' = OnDisk
  BY DEF OnDisk, Readable, Loaded, copies
<1>6. ASSUME NEW q \in Busy, Progress(q) PROVE Progress(q)'
  <2>1. stage'[q] = stage[q]
    BY <1>2, <1>4 DEF Busy
  <2> QED
    BY <1>5, <1>6, <2>1 DEF Progress, copies
<1>7. Orderly'
  BY <1>4, <1>5, <1>6 DEF DurInv, Orderly, copies
<1> QED
  BY <1>3, <1>7 DEF DurInv

\* Every step keeps the order of the copies.
LEMMA OrderlyStep == WInv /\ TInv /\ TInv' /\ DurInv /\ [ConsentNext]_vars => DurInv'
<1> SUFFICES ASSUME WInv, TInv, TInv', DurInv, [ConsentNext]_vars PROVE DurInv'
  OBVIOUS
<1>1. CASE UNCHANGED configVars
  <2>1. UNCHANGED <<live, shadow, disk, stage, change, text, promised, disturbed>>
    BY <1>1 DEF configVars, copies
  <2>2. Busy' = Busy /\ OnDisk' = OnDisk
    BY <2>1 DEF Busy, OnDisk, Readable, Loaded
  <2>3. \A r \in Busy : Progress(r)' = Progress(r)
    BY <2>1, <2>2 DEF Progress
  <2>4. Orderly'
    BY <2>1, <2>2, <2>3 DEF DurInv, Orderly
  <2> QED
    BY <2>1, <2>4 DEF DurInv, Configured, ConfigTypeOK, Asking, Working
<1>2. ASSUME NEW r \in Requests, Configure(r) PROVE DurInv'
  BY <1>2, OrderlyBegin, OrderlyUpdate DEF Configure, Ask
<1>3. ASSUME NEW r \in Requests, Reply(r) \/ Resolve(r) \/ Leave(r) PROVE DurInv'
  BY <1>3, OrderlyAnswer, OrderlyHungUp DEF Reply, Resolve, Leave
<1>4. ASSUME NEW r \in Requests, AllowPath(r) PROVE DurInv'
  BY <1>4, OrderlyWord DEF AllowPath, TInv
<1>5. ASSUME NEW r \in Requests,
             NEW x \in cards, NEW yes \in BOOLEAN, NEW remember \in BOOLEAN,
             Respond(r, x, yes, remember)
      PROVE  DurInv'
  <2>1. CASE yes /\ remember /\ x[2] = "tool"
    <3>1. x[1] \in Calls
      BY CardFacts DEF WInv, CallTypeOK
    <3>2. [kind |-> "add_grant", key |-> KeyOf[x[1]]] \in Changes
      BY <3>1, CallAssumption DEF Changes
    <3> QED
      BY <1>5, <2>1, <3>2, OrderlyBegin DEF Respond
  <2>2. CASE ~(yes /\ remember /\ x[2] = "tool")
    <3>1. /\ stage[r] = "new" /\ UNCHANGED <<copies, change, text, promised, disturbed>>
          /\ stage' = [stage EXCEPT ![r] = IF yes /\ x[2] = "path" THEN "allow" ELSE "saved"]
      BY <1>5, <2>2 DEF Respond, Comes
    <3> QED
      BY <3>1, OrderlyWord DEF TInv
  <2> QED
    BY <2>1, <2>2
<1>6. CASE Restart
  BY <1>6, OrderlyBoot DEF Restart
<1> QED
  BY <1>1, <1>2, <1>3, <1>4, <1>5, <1>6 DEF ConsentNext, vars

\* As long as requests come one after the other, what was answered is in the
\* live copy, in the server's and in the file, before and after any number of
\* restarts and whatever calls are answered meanwhile (persist_approval_config,
\* handle_config_put, handle_config_patch).
THEOREM AnsweredIsDurable == ConsentSpec => []UpdatesDurable
<1>1. ConsentInit => DurInv
  BY OrderlyInit DEF ConsentInit
<1>2. DurInv => UpdatesDurable
  BY DEF DurInv, Orderly, UpdatesDurable, OnDisk
<1> QED
  BY <1>1, <1>2, TypedInit, TypedStep, OrderlyStep, ConsentInvariant, PTL DEF ConsentSpec

\* A restart between two requests loses nothing.  One that falls into a request
\* undoes it or completes it in all three copies, or resets the whole
\* configuration: the file was emptied and not written (tokio::fs::write,
\* load_config).
THEOREM RestartOutcomes == ConsentSpec => RestartRestores
<1> DEFINE Kept == Restart /\ ~disturbed =>
         /\ live' = shadow'.approval /\ disk' \subseteq {shadow'}
         /\ Busy = {} => shadow' = promised
         /\ \A r \in Busy :
              shadow' = CASE stage[r] \in {"sync", "saved"} -> FileWith(change[r], promised)
                          [] stage[r] = "fill" -> Default
                          [] OTHER -> promised
<1>1. DurInv => Kept
  <2> SUFFICES ASSUME DurInv, Restart, ~disturbed
               PROVE  /\ live' = shadow'.approval /\ disk' \subseteq {shadow'}
                      /\ Busy = {} => shadow' = promised
                      /\ \A r \in Busy :
                           shadow' = CASE stage[r] \in {"sync", "saved"} -> FileWith(change[r], promised)
                                       [] stage[r] = "fill" -> Default
                                       [] OTHER -> promised
    OBVIOUS
  <2>1. Readable /\ live' = Loaded.approval /\ shadow' = Loaded /\ disk' = disk
    BY DEF Restart, Boot
  <2>2. disk \subseteq {Loaded}
    BY <2>1 DEF Readable, Loaded
  <2>3. Busy = {} => Loaded = promised
    BY DEF DurInv, Orderly, OnDisk
  <2>4. ASSUME NEW r \in Busy
        PROVE  Loaded = CASE stage[r] \in {"sync", "saved"} -> FileWith(change[r], promised)
                          [] stage[r] = "fill" -> Default
                          [] OTHER -> promised
    <3>1. Progress(r)
      BY DEF DurInv, Orderly
    <3>2. CASE stage[r] \in {"sync", "saved"}
      BY <3>1, <3>2, OneText DEF Progress
    <3>3. CASE stage[r] = "fill"
      BY <3>1, <3>3 DEF Progress, Loaded
    <3>4. CASE stage[r] \notin {"sync", "saved", "fill"}
      <4>1. stage[r] \in {"read", "set", "render", "merge", "open"}
        BY <3>4 DEF DurInv, Configured, ConfigTypeOK, Working, Busy
      <4>2. Loaded = promised
        BY <3>1, <4>1 DEF Progress, OnDisk
      <4> QED
        BY <3>4, <4>2
    <3> QED
      BY <3>2, <3>3, <3>4
  <2> QED
    BY <2>1, <2>2, <2>3, <2>4
<1>2. ConsentInit => DurInv
  BY OrderlyInit DEF ConsentInit
<1> QED
  BY <1>1, <1>2, TypedInit, TypedStep, OrderlyStep, ConsentInvariant, PTL DEF ConsentSpec, RestartRestores

-----------------------------------------------------------------------------
(* A call goes forward *)

\* how far a call has come
Stand(place) == CASE place = "idle" -> 0 [] place = "path" -> 1 [] place = "tool" -> 2
                  [] place \in Ended -> 3

\* a call that moves goes forward, a deadline that passed is not forgotten at
\* the card it was for, and a call that found it passed does not wait again
Forward ==
  \A c \in Calls :
    /\ pc'[c] # pc[c] => Stand(pc'[c]) > Stand(pc[c])
    /\ pc'[c] = pc[c] /\ due[c] => due'[c] \/ ~Waiting(c)
    /\ pc'[c] = pc[c] /\ timer[c] = "deadline" => timer'[c] = "deadline" \/ ~Waiting(c)
    /\ due[c] /\ timer[c] = "none" /\ timer'[c] # "none" => timer'[c] = "deadline"

\* the stands, one by one
LEMMA Stands ==
  /\ Stand("idle") = 0 /\ Stand("path") = 1 /\ Stand("tool") = 2
  /\ Stand("ran") = 3 /\ Stand("refused") = 3 /\ Stand("dropped") = 3
BY DEF Stand, Ended

\* A call that leaves its place for a later one goes forward, and with it goes
\* what it waited with.
LEMMA GoForward ==
  ASSUME CallTypeOK, NEW c \in Calls, NEW place, NEW open, Go(c, place, open),
         Stand(place) > Stand(pc[c])
  PROVE  Forward
<1>1. /\ pc'[c] = place /\ pc[c] # place /\ timer'[c] = "none"
      /\ \A d \in Calls \ {c} : pc'[d] = pc[d] /\ due'[d] = due[d] /\ timer'[d] = timer[d]
  <2>1. pc[c] # place
    <3>1. Stand(pc[c]) \in 0 .. 3
      BY Stands DEF CallTypeOK, Ended
    <3> QED
      BY <3>1
  <2> QED
    BY <2>1 DEF Go, CallTypeOK
<1> QED
  BY <1>1 DEF Forward

\* Steps that leave each call at its place with what it waits with.
LEMMA GoNowhere == ASSUME UNCHANGED <<pc, due, timer>> PROVE Forward
BY DEF Forward

\* What a call does when a card is behind it takes it forward (check_path,
\* check_approval).
LEMMA PastForward ==
  ASSUME CallTypeOK, NEW c \in Calls, NEW open,
         \/ pc[c] \in {"idle", "path"} /\ PastPath(c, open)
         \/ pc[c] \in {"path", "tool"} /\ PastCard(c, open)
  PROVE  Forward
<1>1. \/ \E o : Go(c, "ran", o) /\ pc[c] \in {"idle", "path", "tool"}
      \/ \E o : Go(c, "tool", o) /\ pc[c] \in {"idle", "path"}
  BY DEF PastCard, PastPath, Await
<1> QED
  BY <1>1, GoForward, Stands

\* Every step of a call, of a request and of the daemon takes calls forward.
LEMMA ForwardStep == CallTypeOK /\ [ConsentNext]_vars => Forward
<1> SUFFICES ASSUME CallTypeOK, [ConsentNext]_vars PROVE Forward
  OBVIOUS
<1>1. ASSUME NEW c \in Calls, Call(c) PROVE Forward
  <2>1. CASE Passes(<<c, "path">>)
    BY <1>1, <2>1, PastForward DEF Call
  <2>2. CASE ~Passes(<<c, "path">>)
    BY <1>1, <2>2, GoForward, Stands DEF Call, Await
  <2> QED
    BY <2>1, <2>2
<1>2. ASSUME NEW c \in Calls, TakeAnswer(c) PROVE Forward
  <2>1. CASE answer[c] = "yes"
    BY <1>2, <2>1, PastForward DEF TakeAnswer, Waiting
  <2>2. CASE answer[c] # "yes"
    BY <1>2, <2>2, GoForward, Stands DEF TakeAnswer, Waiting
  <2> QED
    BY <2>1, <2>2
<1>3. ASSUME NEW c \in Calls, TimesOut(c) PROVE Forward
  BY <1>3, GoForward, Stands DEF TimesOut, Waiting
<1>4. ASSUME NEW c \in Calls, Drop(c) PROVE Forward
  BY <1>4, GoForward, Stands DEF Drop, Waiting
<1>5. ASSUME NEW c \in Calls, Reevaluates(c) PROVE Forward
  <2>1. CASE Passes(Card(c))
    BY <1>5, <2>1, PastForward DEF Reevaluates, Waiting
  <2>2. CASE ~Passes(Card(c))
    <3>1. timer[c] = "again" /\ timer' = [timer EXCEPT ![c] = "none"] /\ UNCHANGED <<pc, due>>
      BY <1>5, <2>2 DEF Reevaluates
    <3> QED
      BY <3>1 DEF Forward, CallTypeOK
  <2> QED
    BY <2>1, <2>2
<1>6. ASSUME NEW c \in Calls, Poll(c) PROVE Forward
  <2>1. /\ timer[c] = "none" /\ UNCHANGED <<pc, due>>
        /\ timer' = [timer EXCEPT ![c] = IF due[c] THEN "deadline" ELSE "again"]
    BY <1>6 DEF Poll
  <2> QED
    BY <2>1 DEF Forward, CallTypeOK
<1>7. ASSUME NEW c \in Calls, DeadlinePasses(c) PROVE Forward
  <2>1. due' = [due EXCEPT ![c] = TRUE] /\ UNCHANGED <<pc, timer>>
    BY <1>7 DEF DeadlinePasses
  <2> QED
    BY <2>1 DEF Forward, CallTypeOK
<1>8. CASE Restart
  <2>1. /\ pc' = [c \in Calls |-> IF Waiting(c) THEN "dropped" ELSE pc[c]]
        /\ timer' = [c \in Calls |-> "none"]
    BY <1>8 DEF Restart
  <2> SUFFICES ASSUME NEW c \in Calls
               PROVE  /\ pc'[c] # pc[c] => Stand(pc'[c]) > Stand(pc[c])
                      /\ pc'[c] = pc[c] => ~Waiting(c)
                      /\ timer'[c] = "none"
    BY DEF Forward
  <2> QED
    BY <2>1, Stands DEF Waiting
<1>9. ASSUME NEW r \in Requests,
             \/ Configure(r) \/ Reply(r) \/ AllowPath(r) \/ Resolve(r) \/ Leave(r)
             \/ \E x \in cards, yes, remember \in BOOLEAN : Respond(r, x, yes, remember)
      PROVE  Forward
  <2>1. UNCHANGED <<pc, due, timer>>
    BY <1>9 DEF Configure, Reply, AllowPath, Resolve, Leave, Respond, restVars, callVars
  <2> QED
    BY <2>1, GoNowhere
<1>10. CASE UNCHANGED vars
  BY <1>10, GoNowhere DEF vars, callVars
<1> QED
  BY <1>1, <1>2, <1>3, <1>4, <1>5, <1>6, <1>7, <1>8, <1>9, <1>10 DEF ConsentNext, CallStep

\* The safety half of CallReturns: whatever the user, the configuration and other
\* requests do, a call only goes from the path card to the tool card to its end,
\* and once its deadline passed the re-evaluation every half second cannot make
\* it wait on (GatedTool::execute).
THEOREM CallsGoForward == ConsentSpec => [][Forward]_vars
<1>1. WInv /\ [ConsentNext]_vars => [Forward]_vars
  BY ForwardStep DEF WInv
<1> QED
  BY <1>1, ConsentInvariant, PTL DEF ConsentSpec

=============================================================================
