------------------------------- MODULE Quotes -------------------------------
(***************************************************************************)
(* One trade request, the quotes the desk makes for it, the shareable link *)
(* of a quote with its one-time codes, and the decision of the client      *)
(* (packages/quotes).  A command locks the request and then the quote, so  *)
(* it is one action.  What is not under those locks is a step of its own:  *)
(* resolving a link, verifying a code, reading and then consuming a        *)
(* challenge, handing a code to the email provider.                        *)
(***************************************************************************)
EXTENDS Integers, FiniteSets

CONSTANTS
  Users,          \* client users a code can be sent to
  Sessions,       \* requests in progress on the public link page
  NoUser, NoSession,
  MaxQuotes,      \* bound: quotes made for the request
  MaxChallenges,  \* bound: codes asked for
  MaxTime,        \* bound: the last instant; nothing is sent that outlives it
  Validities,     \* valid_for_seconds of a quote
  LinkMinValidity,
  RequestTtl,
  OtpTtl,
  OtpWindow,
  OtpMaxSends,
  MaxAttempts

ASSUME BoundsAssumption ==
  /\ MaxQuotes \in Nat /\ MaxChallenges \in Nat /\ MaxTime \in Nat
ASSUME NobodyAssumption == NoUser \notin Users /\ NoSession \notin Sessions
ASSUME PolicyAssumption ==
  /\ Validities \subseteq Nat \ {0}
  /\ {LinkMinValidity, RequestTtl, OtpTtl, OtpWindow, OtpMaxSends, MaxAttempts} \subseteq Nat \ {0}

VARIABLES
  now,        \* inrp2p_now()
  request,    \* the trade_request row
  quote,      \* the quote rows
  link,       \* the quote_link of each quote
  challenge,  \* the acceptance_challenge rows
  code,       \* the otp_delivery of each challenge and the step of its delivery
  trades,     \* the quotes a trade was opened from
  session,    \* what each request on the link page has read so far
  lock        \* the session that holds the request and its quote, if any

vars == <<now, request, quote, link, challenge, code, trades, session, lock>>

Quotes == 1 .. MaxQuotes
Challenges == 1 .. MaxChallenges
Min2(a, b) == IF a <= b THEN a ELSE b

RequestClosed == {"ACCEPTED", "DECLINED", "WITHDRAWN", "EXPIRED"}
QuoteStates == {"ABSENT", "DRAFT", "SENT", "ACCEPTED", "EXPIRED", "REJECTED", "CANCELLED"}
ChallengeStates == {"ABSENT", "PENDING", "CONSUMED", "FAILED", "EXPIRED", "SUPERSEDED"}
Purposes == {"ACCEPT", "REJECT"}

NoQuote == [status |-> "ABSENT", valid |-> 0, expires |-> 0, via |-> "NONE", by |-> 0]
NoChallenge == [status |-> "ABSENT", quote |-> 0, user |-> NoUser, sent |-> 0,
                attempts |-> 0, for |-> "NONE"]
NoCode == [sealed |-> FALSE, step |-> "IDLE"]
Idle == [step |-> "IDLE", quote |-> 0, challenge |-> 0]

-----------------------------------------------------------------------------
(* What the commands look at. *)

Sent == {q \in Quotes : quote[q].status = "SENT"}
\* now >= expires_at
Lapsed(q) == now >= quote[q].expires
\* loadDecidableQuote: judged by the database clock, under the locks.
Decidable(q) == quote[q].status = "SENT" /\ ~Lapsed(q)
\* The TTL of a code never outlives its quote.
ChallengeExpires(c) == Min2(challenge[c].sent + OtpTtl, quote[challenge[c].quote].expires)
ChallengeLapsed(c) == now >= ChallengeExpires(c)
Pending(q) == {c \in Challenges : challenge[c].quote = q /\ challenge[c].status = "PENDING"}
\* The request and quote rows are free to lock.
Unlocked == lock = NoSession
\* Ids are handed out in order (uuidv7).
NextQuote(q) == quote[q].status = "ABSENT" /\ \A p \in Quotes : p < q => quote[p].status # "ABSENT"
NextChallenge(c) ==
  challenge[c].status = "ABSENT" /\ \A d \in Challenges : d < c => challenge[d].status # "ABSENT"

-----------------------------------------------------------------------------
(* What the commands write. *)

\* Defect: the delivery does not lock its row, so nobody waits for it.
NeverWaits(cs) == TRUE
\* The rows of otp_delivery a command erases: it waits while one is being sent.
Undisturbed(cs) == \A c \in cs : code[c].step = "IDLE"
Erased(cs) == [c \in Challenges |-> [code[c] EXCEPT !.sealed = @ /\ c \notin cs]]
Closed(cs, to) ==
  [c \in Challenges |-> IF c \in cs THEN [challenge[c] EXCEPT !.status = to] ELSE challenge[c]]
CloseChallenges(cs, to) ==
  /\ Undisturbed(cs)
  /\ challenge' = Closed(cs, to)
  /\ code' = Erased(cs)

\* last_activity_at is read only of an OPEN request, and kept only there.
Touched(status) == [status |-> status, touched |-> IF status = "OPEN" THEN now ELSE 0]
\* QUOTED -> OPEN when no other quote of the request is live.
Reopened(q) ==
  IF request.status = "QUOTED" /\ Sent \subseteq {q} THEN Touched("OPEN") ELSE request

-----------------------------------------------------------------------------
(* The desk. *)

CreateRequest ==
  /\ request.status = "ABSENT"
  /\ request' = Touched("OPEN")
  /\ UNCHANGED <<now, quote, link, challenge, code, trades, session, lock>>

\* The first dealer to quote is assigned, which counts as activity.
Unassigned == \A q \in Quotes : quote[q].status = "ABSENT"

CreateQuote(q, v) ==
  /\ Unlocked /\ request.status \in {"OPEN", "QUOTED"}
  /\ NextQuote(q)
  /\ quote' = [quote EXCEPT ![q] = [NoQuote EXCEPT !.status = "DRAFT", !.valid = v]]
  /\ request' = IF Unassigned THEN Touched(request.status) ELSE request
  /\ UNCHANGED <<now, link, challenge, code, trades, session, lock>>

\* cancelSentQuoteOfRequest: the live quote of the request, if any, is cancelled.
Superseded == [p \in Quotes |-> IF p \in Sent THEN [quote[p] EXCEPT !.status = "CANCELLED"]
                                ELSE quote[p]]
ChallengesOf(qs) == UNION {Pending(q) : q \in qs}

SendQuote(q, withLink) ==
  /\ Unlocked /\ quote[q].status = "DRAFT" /\ request.status \in {"OPEN", "QUOTED"}
  /\ withLink => quote[q].valid >= LinkMinValidity
  /\ now + quote[q].valid <= MaxTime
  /\ CloseChallenges(ChallengesOf(Sent), "SUPERSEDED")
  /\ quote' = [Superseded EXCEPT ![q].status = "SENT", ![q].expires = now + quote[q].valid]
  /\ request' = Touched("QUOTED")
  /\ link' = [link EXCEPT ![q] = IF withLink THEN "LIVE" ELSE @]
  /\ UNCHANGED <<now, trades, session, lock>>

CreateQuoteLink(q) ==
  /\ Unlocked /\ quote[q].status = "SENT" /\ link[q] = "NONE"
  /\ quote[q].expires - now >= LinkMinValidity
  /\ link' = [link EXCEPT ![q] = "LIVE"]
  /\ UNCHANGED <<now, request, quote, challenge, code, trades, session, lock>>

\* Defect: the codes of a revoked link stay open.
RevokeLinkOnly(q) ==
  /\ link[q] = "LIVE"
  /\ link' = [link EXCEPT ![q] = "REVOKED"]
  /\ UNCHANGED <<now, request, quote, challenge, code, trades, session, lock>>
\* Locks the link and its challenges only, so it may come between the steps of a decision.
RevokeQuoteLink(q) ==
  /\ link[q] = "LIVE"
  /\ link' = [link EXCEPT ![q] = "REVOKED"]
  /\ CloseChallenges(Pending(q), "SUPERSEDED")
  /\ UNCHANGED <<now, request, quote, trades, session, lock>>

CancelQuote(q) ==
  /\ Unlocked /\ quote[q].status \in {"SENT", "DRAFT"}
  /\ quote' = [quote EXCEPT ![q].status = "CANCELLED"]
  /\ CloseChallenges(Pending(q), "SUPERSEDED")
  /\ request' = IF quote[q].status = "SENT" THEN Reopened(q) ELSE request
  /\ UNCHANGED <<now, link, trades, session, lock>>

\* request.decline and request.withdraw differ in who asks and in the reason recorded.
CloseRequest(to) ==
  /\ Unlocked /\ request.status \in {"OPEN", "QUOTED"}
  /\ quote' = Superseded
  /\ CloseChallenges(ChallengesOf(Sent), "SUPERSEDED")
  /\ request' = Touched(to)
  /\ UNCHANGED <<now, link, trades, session, lock>>

DeclineRequest == CloseRequest("DECLINED")
WithdrawRequest == CloseRequest("WITHDRAWN")

-----------------------------------------------------------------------------
(* The decision of the client. *)

\* acceptCore and rejectCore.  c is the challenge consumed for it, 0 in the app.
Decided(q, c, to) ==
  [quote EXCEPT ![q].status = to, ![q].via = IF c = 0 THEN "APP" ELSE "LINK", ![q].by = c]
\* The challenge is consumed, every other one of the quote is closed.
Consume(q, c, purpose) ==
  /\ Undisturbed(Pending(q) \cup ({c} \ {0}))
  /\ challenge' = [d \in Challenges |->
       IF d = c THEN [challenge[d] EXCEPT !.status = "CONSUMED", !.for = purpose]
       ELSE IF d \in Pending(q) THEN [challenge[d] EXCEPT !.status = "SUPERSEDED"]
       ELSE challenge[d]]
  /\ code' = Erased(Pending(q) \cup ({c} \ {0}))

Accept(q, c) ==
  /\ request.status = "QUOTED"
  /\ quote' = Decided(q, c, "ACCEPTED")
  /\ request' = Touched("ACCEPTED")
  /\ trades' = trades \cup {q}
  /\ Consume(q, c, "ACCEPT")

Reject(q, c) ==
  /\ quote' = Decided(q, c, "REJECTED")
  /\ request' = Reopened(q)
  /\ Consume(q, c, "REJECT")
  /\ UNCHANGED trades

\* In the app: one command.
AcceptQuote(q) ==
  /\ Unlocked /\ Decidable(q) /\ Accept(q, 0)
  /\ UNCHANGED <<now, link, session, lock>>
RejectQuote(q) ==
  /\ Unlocked /\ Decidable(q) /\ Reject(q, 0)
  /\ UNCHANGED <<now, link, session, lock>>

-----------------------------------------------------------------------------
(* The link page. *)

Step(s, w) == session' = [session EXCEPT ![s] = w]

\* requestLinkOtp resolves the link before its command takes a lock.
OpenToAsk(s, q) ==
  /\ session[s] = Idle /\ link[q] = "LIVE"
  /\ Step(s, [Idle EXCEPT !.step = "ASKING", !.quote = q])
  /\ UNCHANGED <<now, request, quote, link, challenge, code, trades, lock>>

RecentlySent(q) ==
  {c \in Challenges : challenge[c].quote = q /\ challenge[c].status # "ABSENT"
                      /\ challenge[c].sent > now - OtpWindow}

\* A new code supersedes the pending one of the same recipient.
AskCode(s, c, u) ==
  LET q == session[s].quote
      previous == {d \in Pending(q) : challenge[d].user = u}
  IN  /\ session[s].step = "ASKING" /\ Unlocked
      /\ Decidable(q)
      /\ Cardinality(RecentlySent(q)) < OtpMaxSends
      /\ NextChallenge(c)
      /\ Undisturbed(previous)
      /\ challenge' = [Closed(previous, "SUPERSEDED") EXCEPT ![c] =
           [NoChallenge EXCEPT !.status = "PENDING", !.quote = q, !.user = u, !.sent = now]]
      /\ code' = [Erased(previous) EXCEPT ![c].sealed = TRUE]
      /\ Step(s, Idle)
      /\ UNCHANGED <<now, request, quote, link, trades, lock>>

AskRefused(s) ==
  /\ session[s].step = "ASKING"
  /\ Step(s, Idle)
  /\ UNCHANGED <<now, request, quote, link, challenge, code, trades, lock>>

\* decideViaLink: the caller names a challenge of the link's quote it was given before.
\* One that names a closed challenge is refused without a mark, so it is left out.  What the
\* caller decides plays no part before the challenge is consumed, and is chosen there.
OpenToDecide(s, c) ==
  /\ session[s] = Idle /\ challenge[c].status = "PENDING" /\ link[challenge[c].quote] = "LIVE"
  /\ Step(s, [step |-> "VERIFYING", quote |-> challenge[c].quote, challenge |-> c])
  /\ UNCHANGED <<now, request, quote, link, challenge, code, trades, lock>>

\* verifyChallengeCode, a transaction of its own that locks the challenge.  The right
\* code leaves no mark; a wrong one is counted and the last one closes the challenge.
Verifiable(s) ==
  /\ session[s].step = "VERIFYING"
  /\ Decidable(session[s].quote) /\ challenge[session[s].challenge].status = "PENDING"

VerifyRight(s) ==
  /\ Verifiable(s) /\ ~ChallengeLapsed(session[s].challenge)
  /\ Step(s, [session[s] EXCEPT !.step = "VERIFIED"])
  /\ UNCHANGED <<now, request, quote, link, challenge, code, trades, lock>>

Exhausted(attempts) == attempts >= MaxAttempts

VerifyWrong(s) ==
  LET c == session[s].challenge
      failed == Exhausted(challenge[c].attempts + 1)
  IN  /\ Verifiable(s) /\ ~ChallengeLapsed(c)
      /\ failed => Undisturbed({c})
      /\ challenge' = [challenge EXCEPT ![c].attempts = @ + 1,
                                        ![c].status = IF failed THEN "FAILED" ELSE @]
      /\ code' = IF failed THEN Erased({c}) ELSE code
      /\ Step(s, Idle)
      /\ UNCHANGED <<now, request, quote, link, trades, lock>>

VerifyLate(s) ==
  LET c == session[s].challenge
  IN  /\ Verifiable(s) /\ ChallengeLapsed(c)
      /\ CloseChallenges({c}, "EXPIRED")
      /\ Step(s, Idle)
      /\ UNCHANGED <<now, request, quote, link, trades, lock>>

VerifyRefused(s) ==
  /\ session[s].step = "VERIFYING" /\ ~Verifiable(s)
  /\ Step(s, Idle)
  /\ UNCHANGED <<now, request, quote, link, challenge, code, trades, lock>>

\* The command: locks request and quote, then reads the challenge without locking it.
BeginDecision(s) ==
  LET c == session[s].challenge
  IN  /\ session[s].step = "VERIFIED" /\ Unlocked
      /\ Decidable(session[s].quote)
      /\ challenge[c].status = "PENDING" /\ ~ChallengeLapsed(c)
      /\ Step(s, [session[s] EXCEPT !.step = "DECIDING"])
      /\ lock' = s
      /\ UNCHANGED <<now, request, quote, link, challenge, code, trades>>

\* Defect: the status read before is trusted.
TakenAtItsWord(c) == TRUE
\* Writing it fails on a challenge that is no longer pending (IX040).
StillPending(c) == challenge[c].status = "PENDING"

CommitDecision(s) ==
  LET q == session[s].quote
      c == session[s].challenge
  IN  /\ session[s].step = "DECIDING" /\ StillPending(c)
      /\ Accept(q, c) \/ Reject(q, c)
      /\ Step(s, Idle) /\ lock' = NoSession
      /\ UNCHANGED <<now, link>>

\* Any refusal, before the command or in it, rolls back everything.
AbandonDecision(s) ==
  /\ session[s].step \in {"VERIFIED", "DECIDING"}
  /\ Step(s, Idle)
  /\ lock' = IF lock = s THEN NoSession ELSE lock
  /\ UNCHANGED <<now, request, quote, link, challenge, code, trades>>

-----------------------------------------------------------------------------
(* Delivery of a code: one transaction that locks the delivery row throughout. *)

SetStep(c, to) == code' = [code EXCEPT ![c].step = to]

OpenCode(c) ==
  /\ code[c].sealed /\ code[c].step = "IDLE"
  /\ challenge[c].status = "PENDING" /\ ~ChallengeLapsed(c)
  /\ SetStep(c, "OPENED")
  /\ UNCHANGED <<now, request, quote, link, challenge, trades, session, lock>>

\* A code that has run out before its email is erased.
DropCode(c) ==
  /\ code[c].sealed /\ code[c].step = "IDLE"
  /\ challenge[c].status # "PENDING" \/ ChallengeLapsed(c)
  /\ code' = Erased({c})
  /\ UNCHANGED <<now, request, quote, link, challenge, trades, session, lock>>

MailCode(c) ==
  /\ code[c].step = "OPENED"
  /\ SetStep(c, "MAILED")
  /\ UNCHANGED <<now, request, quote, link, challenge, trades, session, lock>>

FinishDelivery(c) ==
  /\ code[c].step = "MAILED"
  /\ code' = [code EXCEPT ![c] = NoCode]
  /\ UNCHANGED <<now, request, quote, link, challenge, trades, session, lock>>

\* The provider failed or the worker died: the code stays sealed for the outbox to retry.
DeliveryFails(c) ==
  /\ code[c].step # "IDLE"
  /\ SetStep(c, "IDLE")
  /\ UNCHANGED <<now, request, quote, link, challenge, trades, session, lock>>

-----------------------------------------------------------------------------
(* Time. *)

Tick ==
  /\ now < MaxTime
  /\ now' = now + 1
  /\ UNCHANGED <<request, quote, link, challenge, code, trades, session, lock>>

\* Defect: the list of due quotes is trusted, the row is not read again.
ExpireUnchecked(q) ==
  /\ Unlocked /\ quote[q].expires # 0 /\ Lapsed(q)
  /\ quote' = [quote EXCEPT ![q].status = "EXPIRED"]
  /\ CloseChallenges(Pending(q), "EXPIRED")
  /\ request' = Reopened(q)
  /\ UNCHANGED <<now, link, trades, session, lock>>
\* The scheduled job and the sweep: idempotent, and refused before the expiry.
ExpireQuote(q) ==
  /\ Unlocked /\ quote[q].status = "SENT" /\ Lapsed(q)
  /\ quote' = [quote EXCEPT ![q].status = "EXPIRED"]
  /\ CloseChallenges(Pending(q), "EXPIRED")
  /\ request' = Reopened(q)
  /\ UNCHANGED <<now, link, trades, session, lock>>

\* Only OPEN requests run out, and a locked one is skipped.
ExpireRequest ==
  /\ Unlocked /\ request.status = "OPEN" /\ request.touched + RequestTtl <= now
  /\ request' = Touched("EXPIRED")
  /\ UNCHANGED <<now, quote, link, challenge, code, trades, session, lock>>

-----------------------------------------------------------------------------

Init ==
  /\ now = 0
  /\ request = [status |-> "ABSENT", touched |-> 0]
  /\ quote = [q \in Quotes |-> NoQuote]
  /\ link = [q \in Quotes |-> "NONE"]
  /\ challenge = [c \in Challenges |-> NoChallenge]
  /\ code = [c \in Challenges |-> NoCode]
  /\ trades = {}
  /\ session = [s \in Sessions |-> Idle]
  /\ lock = NoSession

DeskStep ==
  \/ CreateRequest \/ DeclineRequest \/ WithdrawRequest
  \/ \E q \in Quotes :
       \/ \E v \in Validities : CreateQuote(q, v)
       \/ \E withLink \in BOOLEAN : SendQuote(q, withLink)
       \/ CreateQuoteLink(q) \/ RevokeQuoteLink(q) \/ CancelQuote(q)

AppStep == \E q \in Quotes : AcceptQuote(q) \/ RejectQuote(q)

DecisionEnds(s) == CommitDecision(s) \/ AbandonDecision(s)

LinkStep(s) ==
  \/ \E q \in Quotes : OpenToAsk(s, q)
  \/ \E c \in Challenges, u \in Users : AskCode(s, c, u)
  \/ AskRefused(s)
  \/ \E c \in Challenges : OpenToDecide(s, c)
  \/ VerifyRight(s) \/ VerifyWrong(s) \/ VerifyLate(s) \/ VerifyRefused(s)
  \/ BeginDecision(s) \/ DecisionEnds(s)

DeliveryEnds(c) == FinishDelivery(c) \/ DeliveryFails(c)
DeliveryStep(c) == OpenCode(c) \/ DropCode(c) \/ MailCode(c) \/ DeliveryEnds(c)

ClockStep == Tick \/ ExpireRequest \/ \E q \in Quotes : ExpireQuote(q)

Next ==
  \/ DeskStep \/ AppStep \/ ClockStep
  \/ \E s \in Sessions : LinkStep(s)
  \/ \E c \in Challenges : DeliveryStep(c)

Spec == Init /\ [][Next]_vars

-----------------------------------------------------------------------------
(* Properties. *)

\* The types of the rows (migration 0013) and of what a session carries.
TypeOK ==
  /\ now \in 0 .. MaxTime
  /\ request \in [status : {"ABSENT", "OPEN", "QUOTED"} \cup RequestClosed,
                  touched : 0 .. MaxTime]
  /\ quote \in [Quotes -> [status : QuoteStates, valid : Validities \cup {0},
                           expires : 0 .. MaxTime, via : {"NONE", "APP", "LINK"},
                           by : Challenges \cup {0}]]
  /\ link \in [Quotes -> {"NONE", "LIVE", "REVOKED"}]
  /\ challenge \in [Challenges -> [status : ChallengeStates, quote : Quotes \cup {0},
                                   user : Users \cup {NoUser}, sent : 0 .. MaxTime,
                                   attempts : 0 .. MaxAttempts, for : Purposes \cup {"NONE"}]]
  /\ code \in [Challenges -> [sealed : BOOLEAN, step : {"IDLE", "OPENED", "MAILED"}]]
  /\ trades \subseteq Quotes
  /\ session \in [Sessions -> [step : {"IDLE", "ASKING", "VERIFYING", "VERIFIED", "DECIDING"},
                               quote : Quotes \cup {0}, challenge : Challenges \cup {0}]]
  /\ lock \in Sessions \cup {NoSession}

\* FI-05: a request becomes at most one trade, the trade of the one quote accepted, and a
\* trade stands exactly on a request and a quote that say so.  FI-06: a request is QUOTED
\* exactly while one quote of it is live, whichever way quotes were sent, replaced,
\* cancelled, rejected, run out or decided.
OneDeal ==
  /\ TypeOK
  /\ \A p, q \in trades : p = q
  /\ trades = {q \in Quotes : quote[q].status = "ACCEPTED"}
  /\ request.status = "ACCEPTED" <=> trades # {}
  /\ \A p, q \in Sent : p = q
  /\ request.status = "QUOTED" <=> Sent # {}

\* FI-07: a decision by link consumed a code of that quote for that decision, a consumed
\* code decided its quote, and one that had all its wrong attempts never did.
DecisionIsVerified ==
  /\ \A q \in Quotes : quote[q].via = "LINK" =>
       LET c == challenge[quote[q].by]
       IN  c.quote = q /\ c.status = "CONSUMED"
           /\ (quote[q].status = "ACCEPTED" <=> c.for = "ACCEPT")
  /\ \A c \in Challenges : challenge[c].status = "CONSUMED" =>
       /\ challenge[c].attempts < MaxAttempts
       /\ quote[challenge[c].quote].by = c

\* deliverAcceptanceCode: a code is handed to the email provider only while its challenge
\* is open, even if someone closes the challenge while the email is on its way out.
CodeMailedWhileOpen ==
  [][\A c \in Challenges :
       code[c].step = "OPENED" /\ code'[c].step = "MAILED" => challenge[c].status = "PENDING"]_vars

\* A code never outlives its challenge, nor a challenge the life of its quote, and none
\* is mailed after either ended (eraseDeliveries, closePendingChallenges,
\* deliverAcceptanceCode).
CodesDieWithQuote ==
  /\ [](\A c \in Challenges :
          /\ code[c].sealed => challenge[c].status = "PENDING"
          /\ challenge[c].status = "PENDING" => challenge[c].quote \in Sent)
  /\ CodeMailedWhileOpen

\* revokeQuoteLink: once a link is revoked nothing is decided through it, not even by a
\* caller who had resolved the link and verified its code before.
RevokedLinkDecidesNothing ==
  [][\A q \in Quotes : quote'[q].via = "LINK" /\ quote[q].via # "LINK" => link[q] = "LIVE"]_vars
=============================================================================
