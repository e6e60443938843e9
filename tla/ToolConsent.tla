------------------------------ MODULE ToolConsent ------------------------------
(***************************************************************************)
(* A tool call that needs the user's consent: GatedTool checks the path    *)
(* and the approval policy, shows a card for what is not allowed, and      *)
(* waits for the user's answer, for its deadline or for a change of the    *)
(* configuration that allows the call.                                     *)
(*                                                                         *)
(* The answers are HTTP requests beside those of ApprovalConfig, which     *)
(* this module extends: to remember an answer is to add a grant, then to   *)
(* resolve the card.  The registry of open cards is all that the call and  *)
(* the request share.                                                      *)
(***************************************************************************)
EXTENDS ApprovalConfig

CONSTANTS
  Calls,        \* tool calls, each made at most once (bound)
  ToolOf,       \* the tool of a call
  KeyOf,        \* its grant key
  DirOf,        \* the directory its path is in, NoDir when it has none
  NoDir,
  Declared,     \* the policy a tool declares
  Resolved,     \* what the tool's dynamic resolver says of a call, or Unset
  Blacklisted   \* the calls the blacklist matches

ASSUME CallAssumption ==
  /\ ToolOf \in [Calls -> Tools] /\ KeyOf \in [Calls -> Keys]
  /\ Declared \in [Tools -> Policies]
  /\ Resolved \in [Calls -> Policies \cup {Unset}]
  /\ Blacklisted \subseteq Calls

\* the two cards a call may show
Cards == Calls \X {"path", "tool"}

NoReply == [card |-> Unset]

VARIABLES
  pc,         \* where a call is: at a card, or at its end
  cards,      \* the open cards: the two registries
  answer,     \* what was sent to the call that waits at a card
  due,        \* its deadline has passed
  timer,      \* the timer it was woken by, after it found no answer
  paths,      \* directories the user allowed for a while
  reply,      \* the card a request answers, and how
  permitted,  \* cards that the configuration made needless while their call
              \* was under way (history)
  said,       \* answers that were accepted, by card (history)
  expired     \* calls refused by a deadline (history)

callVars == <<pc, cards, answer, due, timer>>
vars     == <<configVars, callVars, paths, reply, permitted, said, expired>>

Ended == {"ran", "refused", "dropped"}

CallTypeOK ==
  /\ pc \in [Calls -> {"idle", "path", "tool"} \cup Ended]
  /\ cards \subseteq Cards
  /\ answer \in [Calls -> {"none", "yes", "no"}]
  /\ due \in [Calls -> BOOLEAN]
  /\ timer \in [Calls -> {"none", "deadline", "again"}]
  /\ reply \in [Requests -> {NoReply} \cup [card : Cards, yes : BOOLEAN]]
  /\ permitted \subseteq Cards
  /\ said \in [Cards -> SUBSET {"yes", "no"}]
  /\ expired \subseteq Calls

ConsentTypeOK ==
  /\ ConfigTypeOK
  /\ CallTypeOK
  /\ paths \subseteq {DirOf[c] : c \in Calls} \ {NoDir}

ConsentInit ==
  /\ ConfigInit
  /\ pc = [c \in Calls |-> "idle"]
  /\ cards = {}
  /\ answer = [c \in Calls |-> "none"]
  /\ due = [c \in Calls |-> FALSE]
  /\ timer = [c \in Calls |-> "none"]
  /\ paths = {}
  /\ reply = [r \in Requests |-> NoReply]
  /\ permitted = {}
  /\ said = [x \in Cards |-> {}]
  /\ expired = {}

-----------------------------------------------------------------------------
(* The approval gate *)

\* phases 1 to 3 of evaluate: declared, overridden, resolved for the call at
\* hand unless the user wants to be asked always, escalated by the blacklist
Policy(c) ==
  LET set  == live.tool_overrides[ToolOf[c]]
      base == IF set # Unset THEN set ELSE Declared[ToolOf[c]]
  IN  CASE c \in Blacklisted -> "Always"
        [] c \notin Blacklisted /\ base # "Always" /\ Resolved[c] # Unset -> Resolved[c]
        [] OTHER -> base

\* phase 4: the modes Manual and AllowList decide alike
Allows(c) ==
  \/ Policy(c) = "Auto"
  \/ Policy(c) = "OnDemand" /\ (live.mode = "AutoRun" \/ KeyOf[c] \in live.allow_list)

\* what makes a card needless
Passes(x) == IF x[2] = "path" THEN DirOf[x[1]] = NoDir \/ DirOf[x[1]] \in paths
             ELSE Allows(x[1])

-----------------------------------------------------------------------------
(* A call: GatedTool::execute *)

Waiting(c) == pc[c] \in {"path", "tool"}
Card(c)    == <<c, pc[c]>>

\* a call comes to a card or to its end; what it waited with is gone
Go(c, place, open) ==
  /\ pc' = [pc EXCEPT ![c] = place]
  /\ cards' = open
  /\ answer' = [answer EXCEPT ![c] = "none"]
  /\ due' = [due EXCEPT ![c] = FALSE]
  /\ timer' = [timer EXCEPT ![c] = "none"]

\* register the card and publish it; its deadline starts
Await(c, s, open) == Go(c, s, open \cup {<<c, s>>})

\* the path is allowed: the approval gate is next
PastPath(c, open) ==
  IF Passes(<<c, "tool">>) THEN Go(c, "ran", open) ELSE Await(c, "tool", open)

PastCard(c, open) == IF pc[c] = "path" THEN PastPath(c, open) ELSE Go(c, "ran", open)

Call(c) ==
  /\ pc[c] = "idle"
  /\ IF Passes(<<c, "path">>) THEN PastPath(c, cards) ELSE Await(c, "path", cards)
  /\ UNCHANGED expired

\* the select! polls the receiver first
TakeAnswer(c) ==
  /\ Waiting(c) /\ timer[c] = "none" /\ answer[c] # "none"
  /\ IF answer[c] = "yes" THEN PastCard(c, cards)
     ELSE Go(c, "refused", cards \ {Card(c)})
  /\ UNCHANGED expired

\* Mutant of DeadlinePasses: only cards for paths have a deadline
DeadlineForPaths(c) ==
  /\ pc[c] = "path" /\ ~due[c]
  /\ due' = [due EXCEPT ![c] = TRUE]
  /\ UNCHANGED <<pc, cards, answer, timer, expired>>

\* 120 seconds have passed
DeadlinePasses(c) ==
  /\ Waiting(c) /\ ~due[c]
  /\ due' = [due EXCEPT ![c] = TRUE]
  /\ UNCHANGED <<pc, cards, answer, timer, expired>>

\* it found no answer and takes the first timer that is ready; from here on an
\* answer comes too late for this round
Poll(c) ==
  /\ Waiting(c) /\ timer[c] = "none" /\ answer[c] = "none"
  /\ timer' = [timer EXCEPT ![c] = IF due[c] THEN "deadline" ELSE "again"]
  /\ UNCHANGED <<pc, cards, answer, due, expired>>

\* Mutant of TimesOut: silence is taken for consent
TimesOutOpen(c) ==
  /\ Waiting(c) /\ timer[c] = "deadline"
  /\ PastCard(c, cards \ {Card(c)})
  /\ expired' = expired \cup {c}

TimesOut(c) ==
  /\ Waiting(c) /\ timer[c] = "deadline"
  /\ Go(c, "refused", cards \ {Card(c)})
  /\ expired' = expired \cup {c}

\* Mutant of Reevaluates: a policy that still asks is taken for a denial
ReevaluatesDenied(c) ==
  /\ Waiting(c) /\ timer[c] = "again"
  /\ IF Passes(Card(c)) THEN PastCard(c, cards \ {Card(c)})
     ELSE Go(c, "refused", cards \ {Card(c)})
  /\ UNCHANGED expired

\* every half second the configuration is asked again, as for a new call
Reevaluates(c) ==
  /\ Waiting(c) /\ timer[c] = "again"
  /\ IF Passes(Card(c)) THEN PastCard(c, cards \ {Card(c)})
     ELSE timer' = [timer EXCEPT ![c] = "none"] /\ UNCHANGED <<pc, cards, answer, due>>
  /\ UNCHANGED expired

\* the agent's task is aborted at this await: nothing takes the card away
Drop(c) ==
  /\ Waiting(c)
  /\ Go(c, "dropped", cards)
  /\ UNCHANGED expired

CallStep(c) == TakeAnswer(c) \/ Poll(c) \/ TimesOut(c) \/ Reevaluates(c)

-----------------------------------------------------------------------------
(* The user's answer: handle_tool_approval_respond, handle_path_access_respond *)

\* the card is looked up first when there is something to be done for it
Respond(r, x, yes, remember) ==
  /\ x \in cards
  /\ reply' = [reply EXCEPT ![r] = [card |-> x, yes |-> yes]]
  /\ IF yes /\ remember /\ x[2] = "tool"
     THEN Begin(r, [kind |-> "add_grant", key |-> KeyOf[x[1]]])
     ELSE /\ Comes(r)
          /\ stage' = [stage EXCEPT ![r] = IF yes /\ x[2] = "path" THEN "allow" ELSE "saved"]
          /\ UNCHANGED <<copies, change, text, promised, disturbed>>
  /\ UNCHANGED <<callVars, paths, said, expired>>

\* the directory is allowed, under the access manager's lock
AllowPath(r) ==
  /\ stage[r] = "allow"
  /\ stage' = [stage EXCEPT ![r] = "saved"]
  /\ paths' = paths \cup {DirOf[reply[r].card[1]]}
  /\ UNCHANGED <<copies, change, text, promised, disturbed>>
  /\ UNCHANGED <<callVars, reply, said, expired>>

\* Mutant of Resolve: the entry is looked at but not removed
ResolveKept(r) ==
  LET x == reply[r].card
      w == IF reply[r].yes THEN "yes" ELSE "no"
  IN /\ reply[r] # NoReply
     /\ Answered(r)
     /\ IF x \in cards
        THEN /\ answer' = IF Card(x[1]) = x THEN [answer EXCEPT ![x[1]] = w] ELSE answer
             /\ said' = [said EXCEPT ![x] = @ \cup {w}]
             /\ UNCHANGED cards
        ELSE UNCHANGED <<cards, answer, said>>
     /\ reply' = [reply EXCEPT ![r] = NoReply]
     /\ UNCHANGED <<pc, due, timer, paths, expired>>

\* resolve: the entry is removed and its sender used, or the answer is 404
Resolve(r) ==
  LET x == reply[r].card
      w == IF reply[r].yes THEN "yes" ELSE "no"
  IN /\ reply[r] # NoReply
     /\ Answered(r)
     /\ IF x \in cards
        THEN /\ cards' = cards \ {x}
             /\ answer' = IF Card(x[1]) = x THEN [answer EXCEPT ![x[1]] = w] ELSE answer
             /\ said' = [said EXCEPT ![x] = @ \cup {w}]
        ELSE UNCHANGED <<cards, answer, said>>
     /\ reply' = [reply EXCEPT ![r] = NoReply]
     /\ UNCHANGED <<pc, due, timer, paths, expired>>

-----------------------------------------------------------------------------
(* The other requests, and the daemon *)

restVars == <<callVars, paths, reply, said, expired>>

Configure(r) == (Ask(r) \/ Update(r)) /\ UNCHANGED restVars

Reply(r) == reply[r] = NoReply /\ Answered(r) /\ UNCHANGED restVars

\* a client that does not wait for its answer leaves its card open
Leave(r) ==
  /\ HangUp(r)
  /\ reply' = [reply EXCEPT ![r] = NoReply]
  /\ UNCHANGED <<callVars, paths, said, expired>>

\* cards, allowed directories and agents do not outlive the process
Restart ==
  /\ Boot
  /\ pc' = [c \in Calls |-> IF Waiting(c) THEN "dropped" ELSE pc[c]]
  /\ cards' = {}
  /\ paths' = {}
  /\ answer' = [c \in Calls |-> "none"]
  /\ due' = [c \in Calls |-> FALSE]
  /\ timer' = [c \in Calls |-> "none"]
  /\ reply' = [r \in Requests |-> NoReply]
  /\ UNCHANGED <<said, expired>>

\* which cards the configuration makes needless, from the moment a call is
\* made to its end; of a call that will not run nobody needs to know
Observe ==
  permitted' = {x \in Cards :
    /\ pc'[x[1]] \notin {"idle", "refused", "dropped"}
    /\ x \in permitted \/ (pc[x[1]] \notin Ended /\ Passes(x)')}

ConsentNext ==
  /\ \/ \E c \in Calls : /\ Call(c) \/ CallStep(c) \/ DeadlinePasses(c) \/ Drop(c)
                         /\ UNCHANGED <<configVars, paths, reply, said>>
     \/ \E r \in Requests :
          \/ Configure(r) \/ Reply(r) \/ AllowPath(r) \/ Resolve(r) \/ Leave(r)
          \/ \E x \in cards, yes, remember \in BOOLEAN : Respond(r, x, yes, remember)
     \/ Restart
  /\ Observe

ConsentSpec == ConsentInit /\ [][ConsentNext]_vars

\* a call's task is polled and its timer runs; nothing is assumed of the user
ConsentFairness ==
  \A c \in Calls : WF_callVars(CallStep(c)) /\ WF_callVars(DeadlinePasses(c))

FairConsentSpec == ConsentSpec /\ ConsentFairness

-----------------------------------------------------------------------------
(* Properties *)

\* A tool runs only when each of its two hurdles was taken: the configuration
\* allowed it at some moment of the call, or the user said yes to its card,
\* and not no.  A denied call does not run unless the configuration came to
\* allow it, whatever the order of answers, timers and re-evaluations.
RunsWithConsent ==
  \A x \in Cards : pc[x[1]] = "ran" => x \in permitted \/ said[x] = {"yes"}

\* A call is refused for a reason: its user said no, or its deadline passed
\* with no answer taken.  No card is answered in two ways.
RefusedWithReason ==
  /\ \A c \in Calls : pc[c] = "refused" => c \in expired \/ \E x \in Cards : x[1] = c /\ said[x] = {"no"}
  /\ \A x \in Cards : said[x] # {"yes", "no"}

\* A call that waits can be answered until it was, and a card that can be
\* answered is of a call that waits, or that was aborted.
CardsMatch ==
  \A x \in Cards :
    /\ Card(x[1]) = x /\ answer[x[1]] = "none" => x \in cards
    /\ x \in cards => pc[x[1]] = "dropped" \/ (Card(x[1]) = x /\ answer[x[1]] = "none")

\* A daemon that stops during a request, with none beside it, undoes the request
\* or completes it in all three copies: it never leaves one of them behind, and
\* loses what other requests set only if the file was emptied and not yet
\* written.  Between two requests it changes nothing.
RestartRestores ==
  [][Restart /\ ~disturbed =>
       /\ live' = shadow'.approval /\ disk' \subseteq {shadow'}
       /\ Busy = {} => shadow' = promised
       /\ \A r \in Busy :
            shadow' = CASE stage[r] \in {"sync", "saved"} -> FileWith(change[r], promised)
                        [] stage[r] = "fill" -> Default
                        [] OTHER -> promised]_vars

\* Every call comes to an end, though the user may never answer.
CallReturns == \A c \in Calls : pc[c] # "idle" ~> pc[c] \in Ended
=============================================================================
