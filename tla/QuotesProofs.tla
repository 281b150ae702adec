------------------------------ MODULE QuotesProofs ------------------------------
(***************************************************************************)
(* That a request becomes at most one deal, that a decision by link is     *)
(* verified, that a code dies with its challenge and its quote, and that a *)
(* revoked link decides nothing, for any number of quotes, codes, users    *)
(* and callers.                                                            *)
(***************************************************************************)
EXTENDS Quotes, TLAPS

QuoteRow ==
  [status : QuoteStates, valid : Validities \cup {0}, expires : 0 .. MaxTime,
   via : {"NONE", "APP", "LINK"}, by : Challenges \cup {0}]
ChallengeRow ==
  [status : ChallengeStates, quote : Quotes \cup {0}, user : Users \cup {NoUser},
   sent : 0 .. MaxTime, attempts : 0 .. MaxAttempts, for : Purposes \cup {"NONE"}]
CodeRow == [sealed : BOOLEAN, step : {"IDLE", "OPENED", "MAILED"}]
SessionRow ==
  [step : {"IDLE", "ASKING", "VERIFYING", "VERIFIED", "DECIDING"},
   quote : Quotes \cup {0}, challenge : Challenges \cup {0}]

OnThePage == {"VERIFYING", "VERIFIED", "DECIDING"}

\* Only a decided quote says how it was decided, and only one decided by link by what.
QuoteRows ==
  \A q \in Quotes :
    /\ quote[q].via = "NONE" <=> quote[q].status \notin {"ACCEPTED", "REJECTED"}
    /\ quote[q].by # 0 <=> quote[q].via = "LINK"

\* An open challenge is of the live quote and has attempts left; a code waits for the
\* challenge it is of, and is on its way only while it waits.
CodesFollow ==
  \A c \in Challenges :
    /\ challenge[c].status # "ABSENT" => challenge[c].quote \in Quotes
    /\ challenge[c].status = "PENDING" =>
         challenge[c].quote \in Sent /\ challenge[c].attempts < MaxAttempts
    /\ code[c].sealed => challenge[c].status = "PENDING"
    /\ code[c].step # "IDLE" => code[c].sealed

\* A caller that names a challenge names one of its quote, and while that is open the link
\* it came through is live.
SessionsSound ==
  \A s \in Sessions :
    /\ session[s].step # "IDLE" => session[s].quote \in Quotes
    /\ session[s].step \in OnThePage =>
         /\ session[s].challenge \in Challenges
         /\ challenge[session[s].challenge].status # "ABSENT"
         /\ challenge[session[s].challenge].quote = session[s].quote
         /\ challenge[session[s].challenge].status = "PENDING" => link[session[s].quote] = "LIVE"

\* The caller that decides is the one that holds the locks, and its quote stays live.
LockSound ==
  \A s \in Sessions :
    /\ session[s].step = "DECIDING" <=> lock = s
    /\ lock = s => quote[session[s].quote].status = "SENT"

IInv ==
  /\ OneDeal /\ DecisionIsVerified
  /\ QuoteRows /\ CodesFollow /\ SessionsSound /\ LockSound

-----------------------------------------------------------------------------
(* What a command writes, row by row.                                        *)

\* The rows of a state, typed.
LEMMA Rows ==
  ASSUME TypeOK
  PROVE  /\ quote \in [Quotes -> QuoteRow] /\ challenge \in [Challenges -> ChallengeRow]
         /\ code \in [Challenges -> CodeRow] /\ session \in [Sessions -> SessionRow]
         /\ now \in 0 .. MaxTime /\ trades \subseteq Quotes /\ lock \in Sessions \cup {NoSession}
  BY DEF TypeOK, QuoteRow, ChallengeRow, CodeRow, SessionRow

\* The bounds are numbers, and nothing is numbered 0.
LEMMA Numbers ==
  /\ MaxTime \in Nat /\ MaxAttempts \in Nat /\ MaxAttempts > 0
  /\ 0 \notin Quotes /\ 0 \notin Challenges /\ Validities \subseteq Nat
  BY BoundsAssumption, PolicyAssumption DEF Quotes, Challenges

\* What no step but a decision does to quotes: it writes how one was decided.
QuietQuotes ==
  /\ quote' \in [Quotes -> QuoteRow]
  /\ \A q \in Quotes :
       /\ quote'[q].via = quote[q].via /\ quote'[q].by = quote[q].by
       /\ \/ quote'[q].status = quote[q].status
          \/ /\ quote[q].status \notin {"ACCEPTED", "REJECTED"}
             /\ quote'[q].status \notin {"ACCEPTED", "REJECTED"}

\* ... nor does it consume a challenge, or touch one that was.
QuietChallenges ==
  /\ challenge' \in [Challenges -> ChallengeRow] /\ code' \in [Challenges -> CodeRow]
  /\ \A c \in Challenges :
       challenge[c].status = "CONSUMED" \/ challenge'[c].status = "CONSUMED" =>
         challenge'[c] = challenge[c]

LEMMA QuotesStay ==
  ASSUME TypeOK, quote' = quote
  PROVE  QuietQuotes /\ Sent' = Sent
  BY Rows DEF QuietQuotes, Sent

\* One quote takes a status.
LEMMA QuoteTakes ==
  ASSUME TypeOK, NEW q \in Quotes, NEW to \in QuoteStates, quote' = [quote EXCEPT ![q].status = to]
  PROVE  /\ quote' \in [Quotes -> QuoteRow]
         /\ quote'[q].status = to /\ quote'[q].via = quote[q].via /\ quote'[q].by = quote[q].by
         /\ \A p \in Quotes \ {q} : quote'[p] = quote[p]
<1> PICK row : row = [quote[q] EXCEPT !.status = to]
  OBVIOUS
<1>1. quote[q] \in QuoteRow /\ quote \in [Quotes -> QuoteRow]
  BY Rows
<1>2. row \in QuoteRow /\ row.status = to /\ row.via = quote[q].via /\ row.by = quote[q].by
  BY <1>1 DEF QuoteRow
<1>3. quote' = [quote EXCEPT ![q] = row]
  BY <1>1
<1> QED BY <1>1, <1>2, <1>3

\* The live quotes are cancelled.
LEMMA QuotesSuperseded ==
  ASSUME TypeOK, NEW p \in Quotes
  PROVE  /\ Superseded[p] \in QuoteRow
         /\ Superseded[p].via = quote[p].via /\ Superseded[p].by = quote[p].by
         /\ Superseded[p].status = (IF p \in Sent THEN "CANCELLED" ELSE quote[p].status)
<1>1. quote[p] \in QuoteRow
  BY Rows
<1>2. Superseded[p] = IF p \in Sent THEN [quote[p] EXCEPT !.status = "CANCELLED"] ELSE quote[p]
  BY DEF Superseded
<1>3. "CANCELLED" \in QuoteStates
  BY DEF QuoteStates
<1> QED BY <1>1, <1>2, <1>3 DEF QuoteRow

\* One of several rows of challenges or codes.
LEMMA ChallengeClosed ==
  ASSUME TypeOK, NEW cs, NEW to \in ChallengeStates, NEW c \in Challenges
  PROVE  /\ Closed(cs, to)[c] \in ChallengeRow
         /\ Closed(cs, to)[c].status = (IF c \in cs THEN to ELSE challenge[c].status)
         /\ Closed(cs, to)[c].quote = challenge[c].quote
         /\ Closed(cs, to)[c].attempts = challenge[c].attempts
         /\ c \notin cs => Closed(cs, to)[c] = challenge[c]
<1>1. challenge[c] \in ChallengeRow
  BY Rows
<1>2. Closed(cs, to)[c] = IF c \in cs THEN [challenge[c] EXCEPT !.status = to] ELSE challenge[c]
  BY DEF Closed
<1> QED BY <1>1, <1>2 DEF ChallengeRow

LEMMA CodeErased ==
  ASSUME TypeOK, NEW cs, NEW c \in Challenges
  PROVE  /\ Erased(cs)[c] \in CodeRow
         /\ Erased(cs)[c].sealed <=> code[c].sealed /\ c \notin cs
         /\ Erased(cs)[c].step = code[c].step
<1>1. code[c] \in CodeRow
  BY Rows
<1> PICK left \in BOOLEAN : left = (code[c].sealed /\ c \notin cs)
  OBVIOUS
<1>2. Erased(cs)[c] = [code[c] EXCEPT !.sealed = left]
  BY DEF Erased
<1> QED BY <1>1, <1>2 DEF CodeRow

\* One caller goes on.
LEMMA SessionSteps ==
  ASSUME TypeOK, NEW s \in Sessions, NEW w \in SessionRow, Step(s, w)
  PROVE  /\ session' \in [Sessions -> SessionRow] /\ session'[s] = w
         /\ \A r \in Sessions \ {s} : session'[r] = session[r]
  BY Rows DEF Step

-----------------------------------------------------------------------------
(* What keeps each part of the invariant.                                    *)

LEMMA Have ==
  ASSUME IInv
  PROVE  /\ TypeOK /\ OneDeal /\ DecisionIsVerified
         /\ QuoteRows /\ CodesFollow /\ SessionsSound /\ LockSound
  BY DEF IInv, OneDeal

LEMMA Typed ==
  ASSUME quote' \in [Quotes -> QuoteRow], challenge' \in [Challenges -> ChallengeRow],
         code' \in [Challenges -> CodeRow], session' \in [Sessions -> SessionRow],
         now' \in 0 .. MaxTime, trades' \subseteq Quotes, lock' \in Sessions \cup {NoSession},
         request' \in [status : {"ABSENT", "OPEN", "QUOTED"} \cup RequestClosed, touched : 0 .. MaxTime],
         link' \in [Quotes -> {"NONE", "LIVE", "REVOKED"}]
  PROVE  TypeOK'
  BY DEF TypeOK, QuoteRow, ChallengeRow, CodeRow, SessionRow

\* A request that is touched, or reopened.
LEMMA TouchedRow ==
  ASSUME TypeOK, NEW status \in {"ABSENT", "OPEN", "QUOTED"} \cup RequestClosed
  PROVE  /\ Touched(status).status = status
         /\ Touched(status) \in [status : {"ABSENT", "OPEN", "QUOTED"} \cup RequestClosed,
                                 touched : 0 .. MaxTime]
  BY Numbers DEF Touched, TypeOK

LEMMA ReopenedRow ==
  ASSUME TypeOK, NEW q
  PROVE  /\ Reopened(q).status = (IF request.status = "QUOTED" /\ Sent \subseteq {q} THEN "OPEN"
                                  ELSE request.status)
         /\ Reopened(q) \in [status : {"ABSENT", "OPEN", "QUOTED"} \cup RequestClosed,
                             touched : 0 .. MaxTime]
<1>1. "OPEN" \in {"ABSENT", "OPEN", "QUOTED"} \cup RequestClosed
  OBVIOUS
<1>2. request \in [status : {"ABSENT", "OPEN", "QUOTED"} \cup RequestClosed, touched : 0 .. MaxTime]
  BY DEF TypeOK
<1> QED BY <1>1, <1>2, TouchedRow DEF Reopened

\* What was decided, and by which code, stays as it was.
LEMMA DecisionsKept ==
  ASSUME IInv, QuietQuotes, QuietChallenges
  PROVE  DecisionIsVerified' /\ QuoteRows'
<1>1. QuoteRows'
  BY Have DEF QuietQuotes, QuoteRows
<1>2. ASSUME NEW q \in Quotes, quote'[q].via = "LINK"
      PROVE  /\ challenge'[quote'[q].by].quote = q /\ challenge'[quote'[q].by].status = "CONSUMED"
             /\ quote'[q].status = "ACCEPTED" <=> challenge'[quote'[q].by].for = "ACCEPT"
  <2>1. quote[q].via = "LINK" /\ quote'[q].by = quote[q].by /\ quote[q].status \in {"ACCEPTED", "REJECTED"}
    BY <1>2, Have DEF QuietQuotes, QuoteRows
  <2>2. quote'[q].status = quote[q].status
    BY <2>1 DEF QuietQuotes
  <2>3. quote[q].by \in Challenges
    BY <2>1, Have, Rows DEF QuoteRow, QuoteRows
  <2>4. challenge'[quote[q].by] = challenge[quote[q].by]
    BY <2>1, <2>3, Have DEF DecisionIsVerified, QuietChallenges
  <2> QED BY <2>1, <2>2, <2>4, Have DEF DecisionIsVerified
<1>3. ASSUME NEW c \in Challenges, challenge'[c].status = "CONSUMED"
      PROVE  challenge'[c].attempts < MaxAttempts /\ quote'[challenge'[c].quote].by = c
  <2>1. challenge'[c] = challenge[c]
    BY <1>3 DEF QuietChallenges
  <2>2. challenge[c].quote \in Quotes
    BY <1>3, <2>1, Have DEF CodesFollow
  <2> QED BY <1>3, <2>1, <2>2, Have DEF DecisionIsVerified, QuietQuotes
<1> QED BY <1>1, <1>2, <1>3 DEF DecisionIsVerified

\* No deal is made or unmade, and a request is QUOTED while a quote is live.
LEMMA DealKept ==
  ASSUME IInv, TypeOK', QuietQuotes, trades' = trades,
         request'.status = "ACCEPTED" <=> request.status = "ACCEPTED",
         \A p, q \in Sent' : p = q,
         request'.status = "QUOTED" <=> Sent' # {}
  PROVE  OneDeal'
<1>1. trades' = {q \in Quotes : quote'[q].status = "ACCEPTED"}
  BY Have DEF OneDeal, QuietQuotes
<1> QED BY <1>1, Have DEF OneDeal

\* Challenges are closed: at least those of every quote that is no longer live.
LEMMA ClosedFollow ==
  ASSUME IInv, NEW cs, NEW to \in {"FAILED", "EXPIRED", "SUPERSEDED"}, CloseChallenges(cs, to),
         \A c \in cs \cap Challenges : challenge[c].status = "PENDING",
         \A c \in Challenges \ cs : challenge[c].status = "PENDING" => challenge[c].quote \in Sent'
  PROVE  QuietChallenges /\ CodesFollow'
<1>1. \A c \in Challenges :
        /\ challenge'[c] \in ChallengeRow
        /\ challenge'[c].status = (IF c \in cs THEN to ELSE challenge[c].status)
        /\ challenge'[c].quote = challenge[c].quote /\ challenge'[c].attempts = challenge[c].attempts
        /\ c \notin cs => challenge'[c] = challenge[c]
  BY Have, ChallengeClosed DEF CloseChallenges, ChallengeStates
<1>2. \A c \in Challenges :
        /\ code'[c] \in CodeRow
        /\ code'[c].sealed <=> code[c].sealed /\ c \notin cs
        /\ code'[c].step = code[c].step
  BY Have, CodeErased DEF CloseChallenges
<1>3. challenge' \in [Challenges -> ChallengeRow] /\ code' \in [Challenges -> CodeRow]
  BY <1>1, <1>2 DEF CloseChallenges, Closed, Erased
<1>4. \A c \in cs : code[c].step = "IDLE"
  BY DEF CloseChallenges, Undisturbed
<1>5. QuietChallenges
  BY <1>1, <1>3 DEF QuietChallenges
<1>6. CodesFollow'
  BY <1>1, <1>2, <1>4, Have DEF CodesFollow
<1> QED BY <1>5, <1>6

LEMMA ChallengesStay ==
  ASSUME IInv, challenge' = challenge, code' = code, Sent \subseteq Sent'
  PROVE  QuietChallenges /\ CodesFollow'
<1>1. QuietChallenges
  BY Have, Rows DEF QuietChallenges
<1>2. CodesFollow'
  BY Have DEF CodesFollow
<1> QED BY <1>1, <1>2

\* What steps leave of challenges as callers know them.
ChallengesLast ==
  \A c \in Challenges : challenge[c].status # "ABSENT" =>
    /\ challenge'[c].status # "ABSENT" /\ challenge'[c].quote = challenge[c].quote
    /\ challenge'[c].status = "PENDING" =>
         /\ challenge[c].status = "PENDING"
         /\ link[challenge[c].quote] = "LIVE" => link'[challenge[c].quote] = "LIVE"

LEMMA ClosedLast ==
  ASSUME IInv, NEW cs, NEW to \in {"FAILED", "EXPIRED", "SUPERSEDED"}, challenge' = Closed(cs, to),
         \A c \in Challenges \ cs : challenge[c].status = "PENDING" /\ link[challenge[c].quote] = "LIVE" =>
           link'[challenge[c].quote] = "LIVE"
  PROVE  ChallengesLast
<1>1. \A c \in Challenges :
        /\ challenge'[c].status = (IF c \in cs THEN to ELSE challenge[c].status)
        /\ challenge'[c].quote = challenge[c].quote
  BY Have, ChallengeClosed DEF ChallengeStates
<1> QED BY <1>1 DEF ChallengesLast

\* A caller gives up, or goes on with the quote and the challenge it had.
LEMMA SessionsKept ==
  ASSUME IInv, ChallengesLast,
         \A s \in Sessions :
           \/ session'[s].step = "IDLE"
           \/ /\ session'[s].quote = session[s].quote /\ session'[s].challenge = session[s].challenge
              /\ session'[s].step = session[s].step \/ {session'[s].step, session[s].step} \subseteq OnThePage
  PROVE  SessionsSound'
  BY Have DEF SessionsSound, ChallengesLast, OnThePage

\* While a caller decides, its quote is left alone.
LEMMA LockKept ==
  ASSUME IInv, lock' = lock, lock = NoSession \/ quote' = quote,
         \A s \in Sessions : session'[s] = session[s] \/ "DECIDING" \notin {session'[s].step, session[s].step}
  PROVE  LockSound'
  BY Have, NobodyAssumption DEF LockSound

\* A step that leaves the request, its quotes and its trades alone.
LEMMA SameDeal ==
  ASSUME IInv, TypeOK', UNCHANGED <<request, quote, trades>>
  PROVE  QuietQuotes /\ Sent' = Sent /\ OneDeal'
<1>1. QuietQuotes /\ Sent' = Sent
  BY Have, QuotesStay
<1> QED BY <1>1, Have, DealKept DEF OneDeal

\* Steps of nobody on the link page.
LEMMA SessionsStay ==
  ASSUME IInv, ChallengesLast, session' = session
  PROVE  SessionsSound'
  BY SessionsKept

-----------------------------------------------------------------------------
(* The desk. *)

LEMMA InitHolds == Init => IInv
<1> SUFFICES ASSUME Init PROVE IInv
  OBVIOUS
<1>1. /\ NoQuote \in QuoteRow /\ NoQuote.status = "ABSENT" /\ NoQuote.via = "NONE" /\ NoQuote.by = 0
      /\ NoChallenge \in ChallengeRow /\ NoChallenge.status = "ABSENT"
      /\ NoCode \in CodeRow /\ ~NoCode.sealed /\ NoCode.step = "IDLE"
      /\ Idle \in SessionRow /\ Idle.step = "IDLE"
  BY Numbers DEF NoQuote, NoChallenge, NoCode, Idle, QuoteRow, ChallengeRow, CodeRow, SessionRow,
                 QuoteStates, ChallengeStates
<1>2. TypeOK
  <2>1. 0 \in 0 .. MaxTime
    BY Numbers
  <2>2. /\ quote \in [Quotes -> QuoteRow] /\ challenge \in [Challenges -> ChallengeRow]
        /\ code \in [Challenges -> CodeRow] /\ session \in [Sessions -> SessionRow]
    BY <1>1 DEF Init
  <2> QED BY <2>1, <2>2 DEF Init, TypeOK, QuoteRow, ChallengeRow, CodeRow, SessionRow
<1>3. /\ \A q \in Quotes : quote[q] = NoQuote
      /\ \A c \in Challenges : challenge[c] = NoChallenge /\ code[c] = NoCode
      /\ \A s \in Sessions : session[s] = Idle
  BY DEF Init
<1>4. Sent = {} /\ {q \in Quotes : quote[q].status = "ACCEPTED"} = {}
  BY <1>1, <1>3 DEF Sent
<1>5. OneDeal
  BY <1>2, <1>4 DEF Init, OneDeal
<1>6. DecisionIsVerified
  BY <1>1, <1>3 DEF DecisionIsVerified
<1>7. QuoteRows /\ CodesFollow
  BY <1>1, <1>3 DEF QuoteRows, CodesFollow
<1>8. SessionsSound /\ LockSound
  BY <1>1, <1>3, NobodyAssumption DEF Init, SessionsSound, LockSound, OnThePage
<1> QED BY <1>5, <1>6, <1>7, <1>8 DEF IInv

LEMMA CreateRequestKeeps == ASSUME IInv, CreateRequest PROVE IInv'
<1>1. /\ UNCHANGED <<now, quote, link, challenge, code, trades, session, lock>>
      /\ request.status = "ABSENT" /\ request' = Touched("OPEN")
  BY DEF CreateRequest
<1>2. TypeOK'
  BY <1>1, Have, Rows, Typed, TouchedRow DEF TypeOK
<1>3. request'.status = "OPEN"
  BY <1>1, Have, TouchedRow
<1>4. QuietQuotes /\ Sent' = Sent /\ QuietChallenges /\ CodesFollow'
  BY <1>1, Have, QuotesStay, ChallengesStay
<1>5. OneDeal'
  BY <1>1, <1>2, <1>3, <1>4, Have, DealKept DEF OneDeal
<1>6. SessionsSound' /\ LockSound'
  <2>1. ChallengesLast
    BY <1>1 DEF ChallengesLast
  <2> QED BY <1>1, <2>1, SessionsStay, LockKept
<1> QED BY <1>4, <1>5, <1>6, DecisionsKept DEF IInv

LEMMA CreateQuoteKeeps ==
  ASSUME IInv, NEW q \in Quotes, NEW v \in Validities, CreateQuote(q, v) PROVE IInv'
<1>1. /\ UNCHANGED <<now, link, challenge, code, trades, session, lock>> /\ lock = NoSession
      /\ quote[q].status = "ABSENT" /\ request.status \in {"OPEN", "QUOTED"}
      /\ request' = Touched(request.status) \/ request' = request
  BY DEF CreateQuote, NextQuote, Unlocked
<1> PICK row : row = [NoQuote EXCEPT !.status = "DRAFT", !.valid = v]
  OBVIOUS
<1>2. row \in QuoteRow /\ row.status = "DRAFT" /\ row.via = "NONE" /\ row.by = 0
  <2>1. NoQuote \in QuoteRow /\ NoQuote.via = "NONE" /\ NoQuote.by = 0
    BY Numbers DEF NoQuote, QuoteRow, QuoteStates
  <2> QED BY <2>1 DEF QuoteRow, QuoteStates
<1>3. /\ quote' \in [Quotes -> QuoteRow] /\ quote'[q] = row
      /\ \A p \in Quotes \ {q} : quote'[p] = quote[p]
  BY <1>2, Have, Rows DEF CreateQuote
<1>4. quote[q].via = "NONE" /\ quote[q].by = 0
  BY <1>1, Have DEF QuoteRows
<1>5. QuietQuotes
  BY <1>1, <1>2, <1>3, <1>4 DEF QuietQuotes
<1>6. Sent' = Sent
  BY <1>1, <1>2, <1>3 DEF Sent
<1>7. /\ request'.status = request.status
      /\ request' \in [status : {"ABSENT", "OPEN", "QUOTED"} \cup RequestClosed, touched : 0 .. MaxTime]
  BY <1>1, Have, TouchedRow DEF TypeOK
<1>8. TypeOK'
  BY <1>1, <1>3, <1>7, Have, Rows, Typed DEF TypeOK
<1>9. OneDeal'
  BY <1>1, <1>5, <1>6, <1>7, <1>8, Have, DealKept DEF OneDeal
<1>10. QuietChallenges /\ CodesFollow'
  BY <1>1, <1>6, ChallengesStay
<1>11. SessionsSound' /\ LockSound'
  <2>1. ChallengesLast
    BY <1>1 DEF ChallengesLast
  <2> QED BY <1>1, <2>1, SessionsStay, LockKept
<1> QED BY <1>5, <1>9, <1>10, <1>11, DecisionsKept DEF IInv

LEMMA SendQuoteKeeps ==
  ASSUME IInv, NEW q \in Quotes, NEW withLink \in BOOLEAN, SendQuote(q, withLink) PROVE IInv'
<1>1. /\ UNCHANGED <<now, trades, session, lock>> /\ lock = NoSession
      /\ quote[q].status = "DRAFT" /\ request.status \in {"OPEN", "QUOTED"}
      /\ request' = Touched("QUOTED") /\ now + quote[q].valid <= MaxTime
      /\ CloseChallenges(ChallengesOf(Sent), "SUPERSEDED")
      /\ link' = [link EXCEPT ![q] = IF withLink THEN "LIVE" ELSE @]
  BY DEF SendQuote, Unlocked
<1>2. now + quote[q].valid \in 0 .. MaxTime
  <2>1. quote[q].valid \in Nat /\ now \in Nat
    <3>1. quote[q] \in QuoteRow /\ now \in 0 .. MaxTime
      BY Have, Rows
    <3>2. quote[q].valid \in Validities \cup {0}
      BY <3>1 DEF QuoteRow
    <3>3. quote[q].valid \in Nat
      <4>1. \A v \in Validities : v \in Nat
        BY PolicyAssumption
      <4>2. CASE quote[q].valid = 0
        BY <4>2
      <4>3. CASE quote[q].valid \in Validities
        BY <4>1, <4>3
      <4> QED BY <3>2, <4>2, <4>3
    <3>4. now \in Nat
      BY <3>1, Numbers
    <3> QED BY <3>3, <3>4
  <2> QED BY <1>1, <2>1, Numbers
<1> PICK row : row = [Superseded[q] EXCEPT !.status = "SENT", !.expires = now + quote[q].valid]
  OBVIOUS
<1>3. q \notin Sent
  BY <1>1 DEF Sent
<1>4. row \in QuoteRow /\ row.status = "SENT" /\ row.via = quote[q].via /\ row.by = quote[q].by
  <2>1. Superseded[q] \in QuoteRow /\ Superseded[q].via = quote[q].via /\ Superseded[q].by = quote[q].by
    BY Have, QuotesSuperseded
  <2> QED BY <1>2, <2>1 DEF QuoteRow, QuoteStates
<1>5. quote' = [Superseded EXCEPT ![q] = row]
  BY DEF SendQuote, Superseded
<1>6. \A p \in Quotes : Superseded[p] \in QuoteRow
  BY Have, QuotesSuperseded
<1>7. /\ quote' \in [Quotes -> QuoteRow] /\ quote'[q] = row
      /\ \A p \in Quotes \ {q} : quote'[p] = Superseded[p]
  BY <1>4, <1>5, <1>6 DEF Superseded
<1>8. QuietQuotes
  <2>1. \A p \in Quotes : /\ Superseded[p].via = quote[p].via /\ Superseded[p].by = quote[p].by
                          /\ Superseded[p].status = (IF p \in Sent THEN "CANCELLED" ELSE quote[p].status)
    BY Have, QuotesSuperseded
  <2> QED BY <1>1, <1>4, <1>7, <2>1 DEF QuietQuotes, Sent
<1>9. Sent' = {q}
  <2>1. \A p \in Quotes : Superseded[p].status # "SENT"
    BY Have, QuotesSuperseded DEF Sent
  <2> QED BY <1>4, <1>7, <2>1 DEF Sent
<1>10. /\ request'.status = "QUOTED"
       /\ request' \in [status : {"ABSENT", "OPEN", "QUOTED"} \cup RequestClosed, touched : 0 .. MaxTime]
  BY <1>1, Have, TouchedRow
<1>11. QuietChallenges /\ CodesFollow'
  <2>1. \A c \in ChallengesOf(Sent) : challenge[c].status = "PENDING"
    BY DEF ChallengesOf, Pending
  <2>2. \A c \in Challenges : challenge[c].status = "PENDING" => c \in ChallengesOf(Sent)
    BY Have DEF ChallengesOf, Pending, CodesFollow
  <2> QED BY <1>1, <2>1, <2>2, ClosedFollow
<1>12. TypeOK'
  <2>1. link' \in [Quotes -> {"NONE", "LIVE", "REVOKED"}]
    BY <1>1, Have DEF TypeOK
  <2> QED BY <1>1, <1>7, <1>10, <1>11, <2>1, Have, Rows, Typed DEF QuietChallenges
<1>13. OneDeal'
  BY <1>1, <1>8, <1>9, <1>10, <1>12, DealKept
<1>14. SessionsSound' /\ LockSound'
  <2>1. \A p \in Quotes : link[p] = "LIVE" => link'[p] = "LIVE"
    BY <1>1, Have DEF TypeOK
  <2>2. ChallengesLast
    <3>1. \A c \in Challenges : challenge[c].status = "PENDING" => challenge[c].quote \in Quotes
      BY Have DEF CodesFollow
    <3> QED BY <1>1, <2>1, <3>1, ClosedLast DEF CloseChallenges
  <2> QED BY <1>1, <2>2, SessionsStay, LockKept
<1> QED BY <1>8, <1>11, <1>13, <1>14, DecisionsKept DEF IInv

LEMMA CreateQuoteLinkKeeps == ASSUME IInv, NEW q \in Quotes, CreateQuoteLink(q) PROVE IInv'
<1>1. /\ UNCHANGED <<now, request, quote, challenge, code, trades, session, lock>>
      /\ link' = [link EXCEPT ![q] = "LIVE"]
  BY DEF CreateQuoteLink
<1>2. link' \in [Quotes -> {"NONE", "LIVE", "REVOKED"}] /\ \A p \in Quotes : link[p] = "LIVE" => link'[p] = "LIVE"
  BY <1>1, Have DEF TypeOK
<1>3. TypeOK'
  BY <1>1, <1>2, Have, Rows, Typed DEF TypeOK
<1>4. QuietQuotes /\ Sent' = Sent /\ OneDeal' /\ QuietChallenges /\ CodesFollow'
  BY <1>1, <1>3, SameDeal, ChallengesStay
<1>5. ChallengesLast
  BY <1>1, <1>2, Have DEF ChallengesLast, CodesFollow
<1> QED BY <1>1, <1>4, <1>5, SessionsStay, LockKept, DecisionsKept DEF IInv

\* The codes of a revoked link are closed with it: nobody can go on with one.
LEMMA RevokeQuoteLinkKeeps == ASSUME IInv, NEW q \in Quotes, RevokeQuoteLink(q) PROVE IInv'
<1>1. /\ UNCHANGED <<now, request, quote, trades, session, lock>>
      /\ link' = [link EXCEPT ![q] = "REVOKED"] /\ CloseChallenges(Pending(q), "SUPERSEDED")
  BY DEF RevokeQuoteLink
<1>2. /\ link' \in [Quotes -> {"NONE", "LIVE", "REVOKED"}]
      /\ \A p \in Quotes \ {q} : link'[p] = link[p]
  BY <1>1, Have DEF TypeOK
<1>3. Sent' = Sent
  BY <1>1 DEF Sent
<1>4. QuietChallenges /\ CodesFollow'
  <2>1. \A c \in Pending(q) : challenge[c].status = "PENDING"
    BY DEF Pending
  <2>2. \A c \in Challenges : challenge[c].status = "PENDING" => challenge[c].quote \in Sent'
    BY <1>3, Have DEF CodesFollow
  <2> QED BY <1>1, <2>1, <2>2, ClosedFollow
<1>5. TypeOK'
  BY <1>1, <1>2, <1>4, Have, Rows, Typed DEF QuietChallenges, TypeOK
<1>6. QuietQuotes /\ OneDeal'
  BY <1>1, <1>5, SameDeal
<1>7. ChallengesLast
  <2>1. \A c \in Challenges \ Pending(q) :
          challenge[c].status = "PENDING" /\ link[challenge[c].quote] = "LIVE" => link'[challenge[c].quote] = "LIVE"
    BY <1>2, Have DEF Pending, CodesFollow
  <2> QED BY <1>1, <2>1, ClosedLast DEF CloseChallenges
<1> QED BY <1>1, <1>4, <1>6, <1>7, SessionsStay, LockKept, DecisionsKept DEF IInv

\* A quote is cancelled or runs out, its codes with it; its request may be open again.
LEMMA QuoteEnds ==
  ASSUME IInv, NEW q \in Quotes, NEW to \in {"CANCELLED", "EXPIRED"},
         NEW why \in {"SUPERSEDED", "EXPIRED"},
         lock = NoSession, quote[q].status \in {"SENT", "DRAFT"},
         quote' = [quote EXCEPT ![q].status = to], CloseChallenges(Pending(q), why),
         request' = (IF quote[q].status = "SENT" THEN Reopened(q) ELSE request),
         UNCHANGED <<now, link, trades, session, lock>>
  PROVE  IInv'
<1>1. /\ quote' \in [Quotes -> QuoteRow]
      /\ quote'[q].status = to /\ quote'[q].via = quote[q].via /\ quote'[q].by = quote[q].by
      /\ \A p \in Quotes \ {q} : quote'[p] = quote[p]
  BY Have, QuoteTakes DEF QuoteStates
<1>2. QuietQuotes
  BY <1>1 DEF QuietQuotes
<1>3. Sent' = Sent \ {q}
  BY <1>1 DEF Sent
<1>4. /\ request'.status = (IF request.status = "QUOTED" /\ quote[q].status = "SENT" /\ Sent \subseteq {q}
                            THEN "OPEN" ELSE request.status)
      /\ request' \in [status : {"ABSENT", "OPEN", "QUOTED"} \cup RequestClosed, touched : 0 .. MaxTime]
  <2>1. request \in [status : {"ABSENT", "OPEN", "QUOTED"} \cup RequestClosed, touched : 0 .. MaxTime]
    BY Have DEF TypeOK
  <2> QED BY <2>1, Have, ReopenedRow
<1>5. QuietChallenges /\ CodesFollow'
  <2>1. \A c \in Pending(q) : challenge[c].status = "PENDING"
    BY DEF Pending
  <2>2. \A c \in Challenges \ Pending(q) : challenge[c].status = "PENDING" => challenge[c].quote \in Sent'
    BY <1>3, Have DEF CodesFollow, Pending
  <2> QED BY <2>1, <2>2, ClosedFollow
<1>6. TypeOK'
  BY <1>1, <1>4, <1>5, Have, Rows, Typed DEF QuietChallenges, TypeOK
<1>7. OneDeal'
  <2>1. (request'.status = "ACCEPTED" <=> request.status = "ACCEPTED") /\ \A p, r \in Sent' : p = r
    BY <1>3, <1>4, Have DEF OneDeal
  <2>2. request'.status = "QUOTED" <=> Sent' # {}
    BY <1>3, <1>4, Have DEF OneDeal, Sent
  <2> QED BY <1>2, <1>6, <2>1, <2>2, DealKept
<1>8. ChallengesLast
  BY ClosedLast DEF CloseChallenges
<1> QED BY <1>2, <1>5, <1>7, <1>8, SessionsStay, LockKept, DecisionsKept DEF IInv

LEMMA CancelQuoteKeeps == ASSUME IInv, NEW q \in Quotes, CancelQuote(q) PROVE IInv'
  BY QuoteEnds DEF CancelQuote, Unlocked

LEMMA ExpireQuoteKeeps == ASSUME IInv, NEW q \in Quotes, ExpireQuote(q) PROVE IInv'
  BY QuoteEnds DEF ExpireQuote, Unlocked

LEMMA CloseRequestKeeps ==
  ASSUME IInv, NEW to \in {"DECLINED", "WITHDRAWN"}, CloseRequest(to) PROVE IInv'
<1>1. /\ UNCHANGED <<now, link, trades, session, lock>> /\ lock = NoSession
      /\ request.status \in {"OPEN", "QUOTED"} /\ request' = Touched(to)
      /\ CloseChallenges(ChallengesOf(Sent), "SUPERSEDED") /\ quote' = Superseded
  BY DEF CloseRequest, Unlocked
<1>2. \A p \in Quotes : /\ quote'[p] \in QuoteRow
                        /\ quote'[p].via = quote[p].via /\ quote'[p].by = quote[p].by
                        /\ quote'[p].status = (IF p \in Sent THEN "CANCELLED" ELSE quote[p].status)
  BY <1>1, Have, QuotesSuperseded
<1>3. quote' \in [Quotes -> QuoteRow]
  BY <1>1, <1>2 DEF Superseded
<1>4. QuietQuotes /\ Sent' = {}
  BY <1>2, <1>3 DEF QuietQuotes, Sent
<1>5. /\ request'.status = to
      /\ request' \in [status : {"ABSENT", "OPEN", "QUOTED"} \cup RequestClosed, touched : 0 .. MaxTime]
  BY <1>1, Have, TouchedRow DEF RequestClosed
<1>6. QuietChallenges /\ CodesFollow'
  <2>1. \A c \in ChallengesOf(Sent) : challenge[c].status = "PENDING"
    BY DEF ChallengesOf, Pending
  <2>2. \A c \in Challenges : challenge[c].status = "PENDING" => c \in ChallengesOf(Sent)
    BY Have DEF ChallengesOf, Pending, CodesFollow
  <2> QED BY <1>1, <2>1, <2>2, ClosedFollow
<1>7. TypeOK'
  BY <1>1, <1>3, <1>5, <1>6, Have, Rows, Typed DEF QuietChallenges, TypeOK
<1>8. OneDeal'
  BY <1>1, <1>4, <1>5, <1>7, DealKept
<1>9. ChallengesLast
  BY <1>1, ClosedLast DEF CloseChallenges
<1> QED BY <1>1, <1>4, <1>6, <1>8, <1>9, SessionsStay, LockKept, DecisionsKept DEF IInv

-----------------------------------------------------------------------------
(* The decision. *)

\* Deciding consumes the challenge it was verified with and closes the others.
LEMMA Consumes ==
  ASSUME IInv, NEW q \in Quotes, NEW c \in Challenges \cup {0}, NEW purpose \in Purposes,
         Consume(q, c, purpose), c # 0 => challenge[c].status = "PENDING" /\ challenge[c].quote = q
  PROVE  /\ challenge' \in [Challenges -> ChallengeRow] /\ code' \in [Challenges -> CodeRow]
         /\ \A d \in Challenges :
              /\ challenge'[d].quote = challenge[d].quote /\ challenge'[d].attempts = challenge[d].attempts
              /\ d = c => challenge'[d].status = "CONSUMED" /\ challenge'[d].for = purpose
              /\ d # c /\ d \in Pending(q) => challenge'[d].status = "SUPERSEDED"
              /\ d # c /\ d \notin Pending(q) => challenge'[d] = challenge[d]
              /\ code'[d].sealed <=> code[d].sealed /\ d \notin Pending(q)
              /\ code'[d].step = code[d].step
         /\ \A d \in Pending(q) : code[d].step = "IDLE"
<1>1. ASSUME NEW d \in Challenges
      PROVE  /\ challenge'[d] \in ChallengeRow
             /\ challenge'[d].quote = challenge[d].quote /\ challenge'[d].attempts = challenge[d].attempts
             /\ d = c => challenge'[d].status = "CONSUMED" /\ challenge'[d].for = purpose
             /\ d # c /\ d \in Pending(q) => challenge'[d].status = "SUPERSEDED"
             /\ d # c /\ d \notin Pending(q) => challenge'[d] = challenge[d]
  <2>1. challenge[d] \in ChallengeRow
    BY Have, Rows
  <2>2. challenge'[d] = IF d = c THEN [challenge[d] EXCEPT !.status = "CONSUMED", !.for = purpose]
                        ELSE IF d \in Pending(q) THEN [challenge[d] EXCEPT !.status = "SUPERSEDED"]
                        ELSE challenge[d]
    BY DEF Consume
  <2>3. "CONSUMED" \in ChallengeStates /\ "SUPERSEDED" \in ChallengeStates
    BY DEF ChallengeStates
  <2>4. CASE d = c
    BY <2>1, <2>2, <2>3, <2>4 DEF ChallengeRow
  <2>5. CASE d # c /\ d \in Pending(q)
    BY <2>1, <2>2, <2>3, <2>5 DEF ChallengeRow
  <2>6. CASE d # c /\ d \notin Pending(q)
    BY <2>1, <2>2, <2>6
  <2> QED BY <2>4, <2>5, <2>6
<1>2. Pending(q) \cup ({c} \ {0}) = Pending(q)
  BY DEF Pending
<1>3. code' = Erased(Pending(q)) /\ Undisturbed(Pending(q))
  BY <1>2 DEF Consume
<1>4. \A d \in Challenges : /\ code'[d] \in CodeRow /\ code'[d].step = code[d].step
                            /\ code'[d].sealed <=> code[d].sealed /\ d \notin Pending(q)
  BY <1>3, Have, CodeErased
<1>5. challenge' \in [Challenges -> ChallengeRow] /\ code' \in [Challenges -> CodeRow]
  <2>1. challenge' = [d \in Challenges |-> challenge'[d]]
    BY DEF Consume
  <2>2. code' = [d \in Challenges |-> code'[d]]
    BY <1>3 DEF Erased
  <2> QED BY <1>1, <1>4, <2>1, <2>2
<1> QED BY <1>1, <1>3, <1>4, <1>5 DEF Undisturbed

LEMMA Decides ==
  ASSUME IInv, NEW q \in Quotes, NEW c \in Challenges \cup {0}, quote[q].status = "SENT",
         c # 0 => challenge[c].status = "PENDING" /\ challenge[c].quote = q,
         Accept(q, c) \/ Reject(q, c), UNCHANGED <<now, link>>,
         session' \in [Sessions -> SessionRow], lock' \in Sessions \cup {NoSession}
  PROVE  OneDeal' /\ DecisionIsVerified' /\ QuoteRows' /\ CodesFollow' /\ ChallengesLast
<1> PICK to \in {"ACCEPTED", "REJECTED"}, purpose \in Purposes :
      /\ to = "ACCEPTED" <=> purpose = "ACCEPT"
      /\ quote' = Decided(q, c, to) /\ Consume(q, c, purpose)
      /\ to = "ACCEPTED" => /\ request.status = "QUOTED" /\ request' = Touched("ACCEPTED")
                            /\ trades' = trades \cup {q}
      /\ to = "REJECTED" => request' = Reopened(q) /\ trades' = trades
  <2>1. CASE Accept(q, c)
    BY <2>1 DEF Accept, Purposes
  <2>2. CASE Reject(q, c)
    BY <2>2 DEF Reject, Purposes
  <2> QED BY <2>1, <2>2
<1>1. PICK row \in QuoteRow : /\ row.status = to /\ row.by = c
                              /\ row.via = (IF c = 0 THEN "APP" ELSE "LINK")
                              /\ quote' = [quote EXCEPT ![q] = row]
  <2> DEFINE via == IF c = 0 THEN "APP" ELSE "LINK"
             new == [quote[q] EXCEPT !.status = to, !.via = via, !.by = c]
  <2>1. quote[q] \in QuoteRow
    BY Have, Rows
  <2>2. to \in QuoteStates /\ via \in {"NONE", "APP", "LINK"}
    BY DEF QuoteStates
  <2>3. quote' = [quote EXCEPT ![q] = new]
    BY DEF Decided
  <2> HIDE DEF via
  <2>4. new \in QuoteRow /\ new.status = to /\ new.by = c /\ new.via = via
    BY <2>1, <2>2 DEF QuoteRow
  <2> QED BY <2>3, <2>4 DEF via
<1>2. row.status = to /\ row.by = c /\ row.via = (IF c = 0 THEN "APP" ELSE "LINK")
  BY <1>1
<1>3. quote' \in [Quotes -> QuoteRow] /\ quote'[q] = row /\ \A p \in Quotes \ {q} : quote'[p] = quote[p]
  BY <1>1, Have, Rows
<1>4. /\ challenge' \in [Challenges -> ChallengeRow] /\ code' \in [Challenges -> CodeRow]
      /\ \A d \in Challenges :
           /\ challenge'[d].quote = challenge[d].quote /\ challenge'[d].attempts = challenge[d].attempts
           /\ d = c => challenge'[d].status = "CONSUMED" /\ challenge'[d].for = purpose
           /\ d # c /\ d \in Pending(q) => challenge'[d].status = "SUPERSEDED"
           /\ d # c /\ d \notin Pending(q) => challenge'[d] = challenge[d]
           /\ code'[d].sealed <=> code[d].sealed /\ d \notin Pending(q)
           /\ code'[d].step = code[d].step
      /\ \A d \in Pending(q) : code[d].step = "IDLE"
  BY Consumes
<1>5. Sent = {q} /\ Sent' = {} /\ request.status = "QUOTED" /\ trades = {}
  <2>1. q \in Sent /\ Sent = {q}
    BY Have DEF Sent, OneDeal
  <2>2. Sent' = {}
    BY <1>2, <1>3, <2>1 DEF Sent
  <2> QED BY <2>1, <2>2, Have DEF OneDeal
<1>6. /\ to = "ACCEPTED" => request'.status = "ACCEPTED"
      /\ to = "REJECTED" => request'.status = "OPEN"
      /\ request' \in [status : {"ABSENT", "OPEN", "QUOTED"} \cup RequestClosed, touched : 0 .. MaxTime]
  BY <1>5, Have, TouchedRow, ReopenedRow DEF RequestClosed
<1>7. TypeOK'
  <2>1. trades' \subseteq Quotes
    BY <1>5
  <2> QED BY <1>3, <1>4, <1>6, <2>1, Have, Typed DEF TypeOK
<1>8. OneDeal'
  <2>1. \A p \in Quotes : quote[p].status # "ACCEPTED"
    BY <1>5, Have DEF OneDeal
  <2>2. {p \in Quotes : quote'[p].status = "ACCEPTED"} = IF to = "ACCEPTED" THEN {q} ELSE {}
    BY <1>2, <1>3, <2>1
  <2> QED BY <1>5, <1>6, <1>7, <2>2 DEF OneDeal
<1>9. QuoteRows'
  BY <1>2, <1>3, Numbers, Have DEF QuoteRows
<1>10. \A d \in Challenges : challenge[d].status = "CONSUMED" => d # c /\ challenge[d].quote \in Quotes \ {q}
  <2>1. quote[q].by = 0
    BY Have DEF QuoteRows
  <2> QED BY <2>1, Numbers, Have DEF DecisionIsVerified, CodesFollow
<1>11. DecisionIsVerified'
  <2>1. ASSUME NEW p \in Quotes, quote'[p].via = "LINK"
        PROVE  /\ challenge'[quote'[p].by].quote = p /\ challenge'[quote'[p].by].status = "CONSUMED"
               /\ quote'[p].status = "ACCEPTED" <=> challenge'[quote'[p].by].for = "ACCEPT"
    <3>1. CASE p = q
      BY <1>2, <1>3, <1>4, <2>1, <3>1
    <3>2. CASE p # q
      <4>1. quote'[p] = quote[p] /\ quote[p].by \in Challenges
        BY <1>3, <2>1, <3>2, Have, Rows DEF QuoteRow, QuoteRows
      <4>2. challenge[quote[p].by].status = "CONSUMED"
        BY <2>1, <4>1, Have DEF DecisionIsVerified
      <4>3. challenge'[quote[p].by] = challenge[quote[p].by]
        BY <1>4, <1>10, <4>1, <4>2 DEF Pending
      <4> QED BY <2>1, <4>1, <4>3, Have DEF DecisionIsVerified
    <3> QED BY <3>1, <3>2
  <2>2. ASSUME NEW d \in Challenges, challenge'[d].status = "CONSUMED"
        PROVE  challenge'[d].attempts < MaxAttempts /\ quote'[challenge'[d].quote].by = d
    <3>1. CASE d = c
      BY <1>2, <1>3, <1>4, <3>1, Numbers, Have DEF CodesFollow
    <3>2. CASE d # c
      <4>1. challenge'[d] = challenge[d]
        BY <1>4, <2>2, <3>2
      <4> QED BY <1>3, <1>10, <2>2, <4>1, Have DEF DecisionIsVerified
    <3> QED BY <3>1, <3>2
  <2> QED BY <2>1, <2>2 DEF DecisionIsVerified
<1>12. CodesFollow'
  <2>1. ASSUME NEW d \in Challenges
        PROVE  /\ challenge'[d].status # "ABSENT" => challenge'[d].quote \in Quotes
               /\ challenge'[d].status # "PENDING"
               /\ ~code'[d].sealed /\ code'[d].step = "IDLE"
    <3>1. challenge[d].status = "PENDING" => d \in Pending(q)
      BY <1>5, Have DEF CodesFollow, Pending
    <3>2. d = c => d \in Pending(q)
      BY Numbers DEF Pending
    <3> QED BY <1>4, <3>1, <3>2, Have DEF CodesFollow, Pending
  <2> QED BY <2>1 DEF CodesFollow
<1>13. ChallengesLast
  BY <1>4 DEF ChallengesLast, Pending
<1> QED BY <1>8, <1>9, <1>11, <1>12, <1>13

LEMMA AppDecides ==
  ASSUME IInv, NEW q \in Quotes, AcceptQuote(q) \/ RejectQuote(q) PROVE IInv'
<1>1. /\ quote[q].status = "SENT" /\ (Accept(q, 0) \/ Reject(q, 0))
      /\ UNCHANGED <<now, link, session, lock>> /\ lock = NoSession
  BY DEF AcceptQuote, RejectQuote, Decidable, Unlocked
<1>2. OneDeal' /\ DecisionIsVerified' /\ QuoteRows' /\ CodesFollow' /\ ChallengesLast
  BY <1>1, Have, Rows, Decides
<1> QED BY <1>1, <1>2, SessionsStay, LockKept DEF IInv

LEMMA CommitDecisionKeeps == ASSUME IInv, NEW s \in Sessions, CommitDecision(s) PROVE IInv'
<1>1. /\ session[s].step = "DECIDING" /\ challenge[session[s].challenge].status = "PENDING"
      /\ Accept(session[s].quote, session[s].challenge) \/ Reject(session[s].quote, session[s].challenge)
      /\ Step(s, Idle) /\ lock' = NoSession /\ UNCHANGED <<now, link>>
  BY DEF CommitDecision, StillPending
<1>2. /\ session[s].quote \in Quotes /\ session[s].challenge \in Challenges /\ lock = s
      /\ challenge[session[s].challenge].quote = session[s].quote
      /\ quote[session[s].quote].status = "SENT"
  BY <1>1, Have DEF SessionsSound, LockSound, OnThePage
<1>3. /\ session' \in [Sessions -> SessionRow] /\ session'[s].step = "IDLE"
      /\ \A r \in Sessions \ {s} : session'[r] = session[r]
  <2>1. Idle \in SessionRow /\ Idle.step = "IDLE"
    BY DEF Idle, SessionRow
  <2> QED BY <1>1, <2>1, Have, SessionSteps
<1>4. OneDeal' /\ DecisionIsVerified' /\ QuoteRows' /\ CodesFollow' /\ ChallengesLast
  BY <1>1, <1>2, <1>3, Decides
<1>5. SessionsSound'
  BY <1>3, <1>4, SessionsKept
<1>6. LockSound'
  BY <1>1, <1>2, <1>3, Have, NobodyAssumption DEF LockSound
<1> QED BY <1>4, <1>5, <1>6 DEF IInv

-----------------------------------------------------------------------------
(* The link page.  No step of it but the decision changes a deal. *)

\* A step of one caller that changes its own session only.
LEMMA CallerSteps ==
  ASSUME IInv, NEW s \in Sessions, NEW w \in SessionRow, Step(s, w),
         UNCHANGED <<now, request, quote, link, challenge, code, trades>>,
         lock' \in Sessions \cup {NoSession}
  PROVE  /\ OneDeal' /\ DecisionIsVerified' /\ QuoteRows' /\ CodesFollow' /\ ChallengesLast
         /\ session'[s] = w /\ \A r \in Sessions \ {s} : session'[r] = session[r]
<1>1. /\ session' \in [Sessions -> SessionRow] /\ session'[s] = w
      /\ \A r \in Sessions \ {s} : session'[r] = session[r]
  BY Have, SessionSteps
<1>2. TypeOK'
  BY <1>1, Have, Rows, Typed DEF TypeOK
<1>3. QuietQuotes /\ Sent' = Sent /\ OneDeal' /\ QuietChallenges /\ CodesFollow'
  BY <1>2, SameDeal, ChallengesStay
<1>4. ChallengesLast
  BY DEF ChallengesLast
<1> QED BY <1>1, <1>3, <1>4, DecisionsKept

LEMMA IdleRow == Idle \in SessionRow /\ Idle.step = "IDLE" /\ Idle.quote = 0 /\ Idle.challenge = 0
  BY DEF Idle, SessionRow

\* A caller gives up without a trace.
LEMMA CallerLeaves ==
  ASSUME IInv, NEW s \in Sessions, session[s].step # "DECIDING", Step(s, Idle),
         UNCHANGED <<now, request, quote, link, challenge, code, trades, lock>>
  PROVE  IInv'
<1>1. /\ OneDeal' /\ DecisionIsVerified' /\ QuoteRows' /\ CodesFollow' /\ ChallengesLast
      /\ session'[s] = Idle /\ \A r \in Sessions \ {s} : session'[r] = session[r]
  BY Have, Rows, IdleRow, CallerSteps
<1>2. SessionsSound' /\ LockSound'
  BY <1>1, IdleRow, SessionsKept, LockKept
<1> QED BY <1>1, <1>2 DEF IInv

LEMMA AskRefusedKeeps == ASSUME IInv, NEW s \in Sessions, AskRefused(s) PROVE IInv'
  BY CallerLeaves DEF AskRefused

LEMMA VerifyRefusedKeeps == ASSUME IInv, NEW s \in Sessions, VerifyRefused(s) PROVE IInv'
  BY CallerLeaves DEF VerifyRefused

LEMMA OpenToAskKeeps == ASSUME IInv, NEW s \in Sessions, NEW q \in Quotes, OpenToAsk(s, q) PROVE IInv'
<1> PICK w : w = [Idle EXCEPT !.step = "ASKING", !.quote = q]
  OBVIOUS
<1>1. w \in SessionRow /\ w.step = "ASKING" /\ w.quote = q
  BY IdleRow DEF SessionRow
<1>2. /\ session[s] = Idle /\ Step(s, w)
      /\ UNCHANGED <<now, request, quote, link, challenge, code, trades, lock>>
  BY DEF OpenToAsk
<1>3. /\ OneDeal' /\ DecisionIsVerified' /\ QuoteRows' /\ CodesFollow' /\ ChallengesLast
      /\ session'[s] = w /\ \A r \in Sessions \ {s} : session'[r] = session[r]
  BY <1>1, <1>2, Have, Rows, CallerSteps
<1>4. SessionsSound'
  BY <1>1, <1>2, <1>3, Have, ZenonT(60) DEF SessionsSound, OnThePage
<1>5. LockSound'
  BY <1>1, <1>2, <1>3, IdleRow, LockKept
<1> QED BY <1>3, <1>4, <1>5 DEF IInv

LEMMA OpenToDecideKeeps ==
  ASSUME IInv, NEW s \in Sessions, NEW c \in Challenges, OpenToDecide(s, c) PROVE IInv'
<1> PICK w : w = [step |-> "VERIFYING", quote |-> challenge[c].quote, challenge |-> c]
  OBVIOUS
<1>1. /\ session[s] = Idle /\ Step(s, w) /\ challenge[c].status = "PENDING" /\ link[challenge[c].quote] = "LIVE"
      /\ UNCHANGED <<now, request, quote, link, challenge, code, trades, lock>>
  BY DEF OpenToDecide
<1>2. challenge[c].quote \in Quotes
  BY <1>1, Have DEF CodesFollow
<1>3. w \in SessionRow /\ w.step = "VERIFYING" /\ w.quote = challenge[c].quote /\ w.challenge = c
  BY <1>2 DEF SessionRow
<1>4. /\ OneDeal' /\ DecisionIsVerified' /\ QuoteRows' /\ CodesFollow' /\ ChallengesLast
      /\ session'[s] = w /\ \A r \in Sessions \ {s} : session'[r] = session[r]
  BY <1>1, <1>3, Have, Rows, CallerSteps
<1>5. SessionsSound'
  BY <1>1, <1>2, <1>3, <1>4, Have DEF SessionsSound, OnThePage
<1>6. LockSound'
  BY <1>1, <1>3, <1>4, IdleRow, LockKept
<1> QED BY <1>4, <1>5, <1>6 DEF IInv

LEMMA VerifyRightKeeps == ASSUME IInv, NEW s \in Sessions, VerifyRight(s) PROVE IInv'
<1> PICK w : w = [session[s] EXCEPT !.step = "VERIFIED"]
  OBVIOUS
<1>1. /\ session[s].step = "VERIFYING" /\ Step(s, w)
      /\ UNCHANGED <<now, request, quote, link, challenge, code, trades, lock>>
  BY DEF VerifyRight, Verifiable
<1>2. /\ w \in SessionRow /\ w.step = "VERIFIED"
      /\ w.quote = session[s].quote /\ w.challenge = session[s].challenge
  <2>1. session[s] \in SessionRow
    BY Have, Rows
  <2> QED BY <2>1 DEF SessionRow
<1>3. /\ OneDeal' /\ DecisionIsVerified' /\ QuoteRows' /\ CodesFollow' /\ ChallengesLast
      /\ session'[s] = w /\ \A r \in Sessions \ {s} : session'[r] = session[r]
  BY <1>1, <1>2, Have, Rows, CallerSteps
<1>4. SessionsSound'
  BY <1>1, <1>2, <1>3, SessionsKept DEF OnThePage
<1>5. LockSound'
  BY <1>1, <1>2, <1>3, LockKept
<1> QED BY <1>3, <1>4, <1>5 DEF IInv

LEMMA BeginDecisionKeeps == ASSUME IInv, NEW s \in Sessions, BeginDecision(s) PROVE IInv'
<1> PICK w : w = [session[s] EXCEPT !.step = "DECIDING"]
  OBVIOUS
<1>1. /\ session[s].step = "VERIFIED" /\ Step(s, w) /\ lock = NoSession /\ lock' = s
      /\ quote[session[s].quote].status = "SENT"
      /\ UNCHANGED <<now, request, quote, link, challenge, code, trades>>
  BY DEF BeginDecision, Unlocked, Decidable
<1>2. /\ w \in SessionRow /\ w.step = "DECIDING"
      /\ w.quote = session[s].quote /\ w.challenge = session[s].challenge
  <2>1. session[s] \in SessionRow
    BY Have, Rows
  <2> QED BY <2>1 DEF SessionRow
<1>3. /\ OneDeal' /\ DecisionIsVerified' /\ QuoteRows' /\ CodesFollow' /\ ChallengesLast
      /\ session'[s] = w /\ \A r \in Sessions \ {s} : session'[r] = session[r]
  BY <1>1, <1>2, Have, Rows, CallerSteps
<1>4. SessionsSound'
  BY <1>1, <1>2, <1>3, SessionsKept DEF OnThePage
<1>5. LockSound'
  <2>1. \A r \in Sessions \ {s} : session'[r].step # "DECIDING" /\ lock' # r
    BY <1>1, <1>3, Have, NobodyAssumption DEF LockSound
  <2>2. session'[s].step = "DECIDING" /\ lock' = s /\ quote'[session'[s].quote].status = "SENT"
    BY <1>1, <1>2, <1>3
  <2> QED BY <2>1, <2>2 DEF LockSound
<1> QED BY <1>3, <1>4, <1>5 DEF IInv

LEMMA AbandonDecisionKeeps == ASSUME IInv, NEW s \in Sessions, AbandonDecision(s) PROVE IInv'
<1>1. /\ session[s].step \in {"VERIFIED", "DECIDING"} /\ Step(s, Idle)
      /\ lock' = IF lock = s THEN NoSession ELSE lock
      /\ UNCHANGED <<now, request, quote, link, challenge, code, trades>>
  BY DEF AbandonDecision
<1>2. /\ OneDeal' /\ DecisionIsVerified' /\ QuoteRows' /\ CodesFollow' /\ ChallengesLast
      /\ session'[s] = Idle /\ \A r \in Sessions \ {s} : session'[r] = session[r]
  BY <1>1, Have, Rows, IdleRow, CallerSteps
<1>3. SessionsSound'
  BY <1>2, IdleRow, SessionsKept
<1>4. LockSound'
  BY <1>1, <1>2, IdleRow, Have, NobodyAssumption DEF LockSound
<1> QED BY <1>2, <1>3, <1>4 DEF IInv

\* A caller's wrong or late code: its challenge may be closed, nothing else.
LEMMA VerifyFails ==
  ASSUME IInv, NEW s \in Sessions, session[s].step = "VERIFYING", Step(s, Idle),
         UNCHANGED <<now, request, quote, link, trades, lock>>,
         QuietChallenges, CodesFollow', ChallengesLast
  PROVE  IInv'
<1>1. /\ session' \in [Sessions -> SessionRow] /\ session'[s].step = "IDLE"
      /\ \A r \in Sessions \ {s} : session'[r] = session[r]
  BY Have, IdleRow, SessionSteps
<1>2. TypeOK'
  BY <1>1, Have, Rows, Typed DEF TypeOK, QuietChallenges
<1>3. QuietQuotes /\ OneDeal'
  BY <1>2, SameDeal
<1>4. SessionsSound'
  BY <1>1, SessionsKept
<1>5. LockSound'
  BY <1>1, LockKept
<1> QED BY <1>3, <1>4, <1>5, DecisionsKept DEF IInv

LEMMA VerifyLateKeeps == ASSUME IInv, NEW s \in Sessions, VerifyLate(s) PROVE IInv'
<1> PICK c : c = session[s].challenge
  OBVIOUS
<1>1. /\ session[s].step = "VERIFYING" /\ challenge[c].status = "PENDING"
      /\ CloseChallenges({c}, "EXPIRED") /\ Step(s, Idle)
      /\ UNCHANGED <<now, request, quote, link, trades, lock>>
  BY DEF VerifyLate, Verifiable
<1>2. Sent' = Sent
  BY <1>1 DEF Sent
<1>3. QuietChallenges /\ CodesFollow'
  <2>1. \A d \in Challenges : challenge[d].status = "PENDING" => challenge[d].quote \in Sent'
    BY <1>2, Have DEF CodesFollow
  <2> QED BY <1>1, <2>1, ClosedFollow
<1>4. ChallengesLast
  BY <1>1, ClosedLast DEF CloseChallenges
<1> QED BY <1>1, <1>3, <1>4, VerifyFails

LEMMA VerifyWrongKeeps == ASSUME IInv, NEW s \in Sessions, VerifyWrong(s) PROVE IInv'
<1> PICK c : c = session[s].challenge
  OBVIOUS
<1> DEFINE failed == Exhausted(challenge[c].attempts + 1)
<1>1. /\ session[s].step = "VERIFYING" /\ challenge[c].status = "PENDING"
      /\ failed => code[c].step = "IDLE"
      /\ challenge' = [challenge EXCEPT ![c].attempts = @ + 1, ![c].status = IF failed THEN "FAILED" ELSE @]
      /\ code' = (IF failed THEN Erased({c}) ELSE code) /\ Step(s, Idle)
      /\ UNCHANGED <<now, request, quote, link, trades, lock>>
  BY DEF VerifyWrong, Verifiable, Undisturbed
<1>2. c \in Challenges
  BY <1>1, Have DEF SessionsSound, OnThePage
<1>3. challenge[c].attempts \in Nat /\ challenge[c].attempts + 1 \in 0 .. MaxAttempts
      /\ (~failed => challenge[c].attempts + 1 < MaxAttempts)
  <2>1. challenge[c] \in ChallengeRow /\ challenge[c].attempts < MaxAttempts
    BY <1>1, <1>2, Have, Rows DEF CodesFollow
  <2>2. challenge[c].attempts \in 0 .. MaxAttempts
    BY <2>1 DEF ChallengeRow
  <2> QED BY <2>1, <2>2, Numbers DEF Exhausted
<1> HIDE DEF failed
<1>4. PICK row \in ChallengeRow :
        /\ row.status = (IF failed THEN "FAILED" ELSE "PENDING")
        /\ row.attempts = challenge[c].attempts + 1 /\ row.quote = challenge[c].quote
        /\ challenge' = [challenge EXCEPT ![c] = row]
  <2> DEFINE status == IF failed THEN "FAILED" ELSE challenge[c].status
             new == [challenge[c] EXCEPT !.attempts = challenge[c].attempts + 1, !.status = status]
  <2>1. challenge[c] \in ChallengeRow
    BY <1>2, Have, Rows
  <2>2. challenge' = [challenge EXCEPT ![c] = new]
    BY <1>1
  <2>3. status \in ChallengeStates /\ status = (IF failed THEN "FAILED" ELSE "PENDING")
    BY <1>1 DEF ChallengeStates
  <2> HIDE DEF status
  <2>4. /\ new \in ChallengeRow /\ new.status = status
        /\ new.attempts = challenge[c].attempts + 1 /\ new.quote = challenge[c].quote
    BY <1>3, <2>1, <2>3 DEF ChallengeRow
  <2> QED BY <2>2, <2>3, <2>4
<1>5. /\ challenge' \in [Challenges -> ChallengeRow] /\ challenge'[c] = row
      /\ \A d \in Challenges \ {c} : challenge'[d] = challenge[d]
  BY <1>2, <1>4, Have, Rows
<1>6. /\ row.status = (IF failed THEN "FAILED" ELSE "PENDING")
      /\ row.attempts = challenge[c].attempts + 1 /\ row.quote = challenge[c].quote
  BY <1>4
<1>7. /\ code' \in [Challenges -> CodeRow]
      /\ \A d \in Challenges : /\ code'[d].step = code[d].step
                               /\ code'[d].sealed <=> code[d].sealed /\ ~(failed /\ d = c)
  <2>1. CASE failed
    <3>1. code' = Erased({c})
      BY <1>1, <2>1
    <3>2. \A d \in Challenges : /\ Erased({c})[d] \in CodeRow /\ Erased({c})[d].step = code[d].step
                                /\ Erased({c})[d].sealed <=> code[d].sealed /\ d \notin {c}
      BY Have, CodeErased
    <3> QED BY <2>1, <3>1, <3>2 DEF Erased
  <2>2. CASE ~failed
    BY <1>1, <2>2, Have, Rows
  <2> QED BY <2>1, <2>2
<1>8. Sent' = Sent
  BY <1>1 DEF Sent
<1>9. QuietChallenges
  <2>1. row.status # "CONSUMED" /\ challenge[c].status # "CONSUMED"
    BY <1>1, <1>6
  <2> QED BY <1>5, <1>7, <2>1 DEF QuietChallenges
<1>10. CodesFollow'
  <2>1. ASSUME NEW d \in Challenges
        PROVE  /\ challenge'[d].status # "ABSENT" => challenge'[d].quote \in Quotes
               /\ challenge'[d].status = "PENDING" =>
                    challenge'[d].quote \in Sent /\ challenge'[d].attempts < MaxAttempts
               /\ code'[d].sealed => challenge'[d].status = "PENDING"
               /\ code'[d].step # "IDLE" => code'[d].sealed
    <3>1. CASE d = c
      <4>1. /\ challenge'[d].quote = challenge[c].quote /\ challenge[c].quote \in Sent
            /\ challenge[c].quote \in Quotes
        BY <1>1, <1>2, <1>5, <1>6, <3>1, Have DEF CodesFollow
      <4>2. code[c].step # "IDLE" => code[c].sealed /\ ~failed
        BY <1>1, <1>2, Have DEF CodesFollow
      <4>3. CASE failed
        <5>1. code'[d].step = "IDLE" /\ ~code'[d].sealed
          BY <1>1, <1>2, <1>7, <3>1, <4>3
        <5>2. challenge'[d].status = "FAILED"
          BY <1>5, <1>6, <3>1, <4>3
        <5> QED BY <4>1, <5>1, <5>2
      <4>4. CASE ~failed
        BY <1>3, <1>5, <1>6, <1>7, <3>1, <4>1, <4>2, <4>4
      <4> QED BY <4>3, <4>4
    <3>2. CASE d # c
      BY <1>5, <1>7, <3>2, Have DEF CodesFollow
    <3> QED BY <3>1, <3>2
  <2> QED BY <1>8, <2>1 DEF CodesFollow
<1>11. ChallengesLast
  <2>1. link' = link
    BY <1>1
  <2> QED BY <1>1, <1>5, <1>6, <2>1 DEF ChallengesLast
<1>12. Step(s, Idle) /\ UNCHANGED <<now, request, quote, link, trades, lock>>
  BY <1>1
<1> QED BY <1>1, <1>9, <1>10, <1>11, <1>12, VerifyFails

\* A new code: that of the same recipient is closed, and its quote is live.
LEMMA AskCodeKeeps ==
  ASSUME IInv, NEW s \in Sessions, NEW c \in Challenges, NEW u \in Users, AskCode(s, c, u) PROVE IInv'
<1> PICK q : q = session[s].quote
  OBVIOUS
<1> DEFINE previous == {d \in Pending(q) : challenge[d].user = u}
<1>1. /\ session[s].step = "ASKING" /\ quote[q].status = "SENT" /\ challenge[c].status = "ABSENT"
      /\ Step(s, Idle) /\ UNCHANGED <<now, request, quote, link, trades, lock>>
      /\ \A d \in previous : code[d].step = "IDLE"
      /\ code' = [Erased(previous) EXCEPT ![c].sealed = TRUE]
      /\ challenge' = [Closed(previous, "SUPERSEDED") EXCEPT ![c] =
           [NoChallenge EXCEPT !.status = "PENDING", !.quote = q, !.user = u, !.sent = now]]
  BY DEF AskCode, Decidable, NextChallenge, Undisturbed
<1>2. /\ \A d \in previous : d \in Challenges /\ challenge[d].status = "PENDING"
      /\ q \in Quotes /\ c \notin previous
  BY <1>1, Have DEF Pending, SessionsSound
<1> HIDE DEF previous
<1>3. PICK row \in ChallengeRow : /\ row.status = "PENDING" /\ row.quote = q /\ row.attempts = 0
                                  /\ challenge' = [Closed(previous, "SUPERSEDED") EXCEPT ![c] = row]
  <2> DEFINE new == [NoChallenge EXCEPT !.status = "PENDING", !.quote = q, !.user = u, !.sent = now]
  <2>1. NoChallenge \in ChallengeRow /\ NoChallenge.attempts = 0
    BY Numbers DEF NoChallenge, ChallengeRow, ChallengeStates
  <2>2. new \in ChallengeRow /\ new.status = "PENDING" /\ new.quote = q /\ new.attempts = 0
    BY <1>2, <2>1, Have, Rows DEF ChallengeRow, ChallengeStates
  <2> QED BY <1>1, <2>2
<1>4. ASSUME NEW d \in Challenges
      PROVE  /\ Closed(previous, "SUPERSEDED")[d] \in ChallengeRow
             /\ Closed(previous, "SUPERSEDED")[d].status = (IF d \in previous THEN "SUPERSEDED" ELSE challenge[d].status)
             /\ Closed(previous, "SUPERSEDED")[d].quote = challenge[d].quote
             /\ d \notin previous => Closed(previous, "SUPERSEDED")[d] = challenge[d]
  BY Have, ChallengeClosed DEF ChallengeStates
<1>5. /\ challenge' \in [Challenges -> ChallengeRow] /\ challenge'[c] = row
      /\ \A d \in Challenges \ {c} : challenge'[d] = Closed(previous, "SUPERSEDED")[d]
  BY <1>3, <1>4 DEF Closed
<1>6. row.status = "PENDING" /\ row.quote = q /\ row.attempts = 0
  BY <1>3
<1>7. /\ code' \in [Challenges -> CodeRow]
      /\ code'[c].step = code[c].step
      /\ \A d \in Challenges \ {c} : /\ code'[d].step = code[d].step
                                     /\ code'[d].sealed <=> code[d].sealed /\ d \notin previous
  <2>1. ASSUME NEW d \in Challenges
        PROVE  /\ Erased(previous)[d] \in CodeRow /\ Erased(previous)[d].step = code[d].step
               /\ Erased(previous)[d].sealed <=> code[d].sealed /\ d \notin previous
    BY Have, CodeErased
  <2> PICK new : new = [Erased(previous)[c] EXCEPT !.sealed = TRUE]
    OBVIOUS
  <2>2. new \in CodeRow /\ new.step = code[c].step
    BY <2>1 DEF CodeRow
  <2>3. code' = [Erased(previous) EXCEPT ![c] = new]
    BY <1>1 DEF Erased
  <2>4. code' \in [Challenges -> CodeRow] /\ code'[c] = new /\ \A d \in Challenges \ {c} : code'[d] = Erased(previous)[d]
    BY <2>1, <2>2, <2>3 DEF Erased
  <2> QED BY <2>1, <2>2, <2>4
<1>8. /\ session' \in [Sessions -> SessionRow] /\ session'[s].step = "IDLE"
      /\ \A r \in Sessions \ {s} : session'[r] = session[r]
  BY <1>1, Have, IdleRow, SessionSteps
<1>9. /\ session[s].step = "ASKING" /\ challenge[c].status = "ABSENT" /\ quote[q].status = "SENT"
      /\ UNCHANGED <<now, request, quote, link, trades, lock>>
      /\ \A d \in previous : code[d].step = "IDLE"
  BY <1>1
<1>10. TypeOK'
  BY <1>5, <1>7, <1>8, <1>9, Have, Rows, Typed DEF TypeOK
<1>11. QuietQuotes /\ Sent' = Sent /\ OneDeal'
  BY <1>9, <1>10, SameDeal
<1>12. QuietChallenges
  BY <1>2, <1>4, <1>5, <1>6, <1>7, <1>9 DEF QuietChallenges
<1>13. CodesFollow'
  <2>1. q \in Sent
    BY <1>2, <1>9 DEF Sent
  <2>2. ASSUME NEW d \in Challenges
        PROVE  /\ challenge'[d].status # "ABSENT" => challenge'[d].quote \in Quotes
               /\ challenge'[d].status = "PENDING" =>
                    challenge'[d].quote \in Sent /\ challenge'[d].attempts < MaxAttempts
               /\ code'[d].sealed => challenge'[d].status = "PENDING"
               /\ code'[d].step # "IDLE" => code'[d].sealed
    <3>1. CASE d = c
      BY <1>2, <1>5, <1>6, <1>7, <1>9, <2>1, <3>1, Numbers, Have DEF CodesFollow
    <3>2. CASE d # c
      <4>1. CASE d \in previous
        <5>1. challenge'[d].status = "SUPERSEDED" /\ challenge'[d].quote = challenge[d].quote
          BY <1>4, <1>5, <3>2, <4>1
        <5>2. code'[d].step = "IDLE" /\ ~code'[d].sealed
          BY <1>7, <1>9, <3>2, <4>1
        <5> QED BY <1>2, <4>1, <5>1, <5>2, Have DEF CodesFollow
      <4>2. CASE d \notin previous
        <5>1. challenge'[d] = challenge[d]
          BY <1>4, <1>5, <3>2, <4>2
        <5>2. code'[d].step = code[d].step /\ (code'[d].sealed <=> code[d].sealed)
          BY <1>7, <3>2, <4>2
        <5> QED BY <5>1, <5>2, Have DEF CodesFollow
      <4> QED BY <4>1, <4>2
    <3> QED BY <3>1, <3>2
  <2> QED BY <1>11, <2>2 DEF CodesFollow
<1>14. SessionsSound' /\ LockSound'
  <2>1. ChallengesLast
    <3>1. ASSUME NEW d \in Challenges, challenge[d].status # "ABSENT"
          PROVE  /\ challenge'[d].status # "ABSENT" /\ challenge'[d].quote = challenge[d].quote
                 /\ challenge'[d].status = "PENDING" => challenge[d].status = "PENDING"
      BY <1>4, <1>5, <1>9, <3>1
    <3> QED BY <1>9, <3>1 DEF ChallengesLast
  <2> QED BY <1>8, <1>9, <2>1, SessionsKept, LockKept
<1> QED BY <1>11, <1>12, <1>13, <1>14, DecisionsKept DEF IInv

-----------------------------------------------------------------------------
(* The delivery of codes, and time. *)

\* A step of one delivery.
LEMMA DeliverySteps ==
  ASSUME IInv, UNCHANGED <<now, request, quote, link, challenge, trades, session, lock>>,
         code' \in [Challenges -> CodeRow],
         \A c \in Challenges :
           /\ code'[c].sealed => code[c].sealed
           /\ code'[c].step # "IDLE" => code'[c].sealed
  PROVE  IInv'
<1>1. TypeOK'
  BY Have, Rows, Typed DEF TypeOK
<1>2. QuietQuotes /\ Sent' = Sent /\ OneDeal'
  BY <1>1, SameDeal
<1>3. QuietChallenges
  BY Have, Rows DEF QuietChallenges
<1>4. CodesFollow'
  BY <1>2, Have DEF CodesFollow
<1>5. ChallengesLast
  BY DEF ChallengesLast
<1> QED BY <1>2, <1>3, <1>4, <1>5, SessionsStay, LockKept, DecisionsKept DEF IInv

\* The row of a code takes a step.
LEMMA StepSet ==
  ASSUME IInv, NEW c \in Challenges, NEW to \in {"IDLE", "OPENED", "MAILED"}, SetStep(c, to)
  PROVE  /\ code' \in [Challenges -> CodeRow]
         /\ code'[c].step = to /\ (code'[c].sealed <=> code[c].sealed)
         /\ \A d \in Challenges \ {c} : code'[d] = code[d]
<1> PICK row : row = [code[c] EXCEPT !.step = to]
  OBVIOUS
<1>1. code[c] \in CodeRow /\ code \in [Challenges -> CodeRow]
  BY Have, Rows
<1>2. row \in CodeRow /\ row.step = to /\ row.sealed = code[c].sealed
  BY <1>1 DEF CodeRow
<1>3. code' = [code EXCEPT ![c] = row]
  BY DEF SetStep
<1> QED BY <1>1, <1>2, <1>3

LEMMA OpenCodeKeeps == ASSUME IInv, NEW c \in Challenges, OpenCode(c) PROVE IInv'
<1>1. /\ code' \in [Challenges -> CodeRow] /\ (code'[c].sealed <=> code[c].sealed)
      /\ \A d \in Challenges \ {c} : code'[d] = code[d]
  BY StepSet DEF OpenCode
<1>2. code[c].sealed /\ UNCHANGED <<now, request, quote, link, challenge, trades, session, lock>>
  BY DEF OpenCode
<1> QED BY <1>1, <1>2, Have, DeliverySteps DEF CodesFollow

LEMMA MailCodeKeeps == ASSUME IInv, NEW c \in Challenges, MailCode(c) PROVE IInv'
<1>1. /\ code' \in [Challenges -> CodeRow] /\ (code'[c].sealed <=> code[c].sealed)
      /\ \A d \in Challenges \ {c} : code'[d] = code[d]
  BY StepSet DEF MailCode
<1>2. code[c].step = "OPENED" /\ UNCHANGED <<now, request, quote, link, challenge, trades, session, lock>>
  BY DEF MailCode
<1> QED BY <1>1, <1>2, Have, DeliverySteps DEF CodesFollow

LEMMA DeliveryFailsKeeps == ASSUME IInv, NEW c \in Challenges, DeliveryFails(c) PROVE IInv'
<1>1. /\ code' \in [Challenges -> CodeRow] /\ code'[c].step = "IDLE" /\ (code'[c].sealed <=> code[c].sealed)
      /\ \A d \in Challenges \ {c} : code'[d] = code[d]
  BY StepSet DEF DeliveryFails
<1>2. UNCHANGED <<now, request, quote, link, challenge, trades, session, lock>>
  BY DEF DeliveryFails
<1> QED BY <1>1, <1>2, Have, DeliverySteps DEF CodesFollow

LEMMA DropCodeKeeps == ASSUME IInv, NEW c \in Challenges, DropCode(c) PROVE IInv'
<1>1. /\ code[c].step = "IDLE" /\ code' = Erased({c})
      /\ UNCHANGED <<now, request, quote, link, challenge, trades, session, lock>>
  BY DEF DropCode
<1>2. \A d \in Challenges : /\ code'[d] \in CodeRow /\ code'[d].step = code[d].step
                            /\ code'[d].sealed <=> code[d].sealed /\ d \notin {c}
  BY <1>1, Have, CodeErased
<1>3. code' \in [Challenges -> CodeRow]
  BY <1>1, <1>2 DEF Erased
<1> QED BY <1>1, <1>2, <1>3, Have, DeliverySteps DEF CodesFollow

LEMMA FinishDeliveryKeeps == ASSUME IInv, NEW c \in Challenges, FinishDelivery(c) PROVE IInv'
<1>1. /\ code' = [code EXCEPT ![c] = NoCode]
      /\ UNCHANGED <<now, request, quote, link, challenge, trades, session, lock>>
  BY DEF FinishDelivery
<1>2. NoCode \in CodeRow /\ NoCode.step = "IDLE" /\ ~NoCode.sealed
  BY DEF NoCode, CodeRow
<1>3. /\ code' \in [Challenges -> CodeRow] /\ code'[c] = NoCode
      /\ \A d \in Challenges \ {c} : code'[d] = code[d]
  BY <1>1, <1>2, Have, Rows
<1> QED BY <1>1, <1>2, <1>3, Have, DeliverySteps DEF CodesFollow

LEMMA TickKeeps == ASSUME IInv, Tick PROVE IInv'
<1>1. now' \in 0 .. MaxTime /\ UNCHANGED <<request, quote, link, challenge, code, trades, session, lock>>
  BY Have, Rows, Numbers DEF Tick
<1>2. TypeOK'
  BY <1>1, Have, Rows, Typed DEF TypeOK
<1>3. QuietQuotes /\ Sent' = Sent /\ OneDeal' /\ QuietChallenges /\ CodesFollow'
  BY <1>1, <1>2, SameDeal, ChallengesStay
<1>4. ChallengesLast
  BY <1>1 DEF ChallengesLast
<1> QED BY <1>1, <1>3, <1>4, SessionsStay, LockKept, DecisionsKept DEF IInv

LEMMA ExpireRequestKeeps == ASSUME IInv, ExpireRequest PROVE IInv'
<1>1. /\ UNCHANGED <<now, quote, link, challenge, code, trades, session, lock>>
      /\ request.status = "OPEN" /\ request' = Touched("EXPIRED")
  BY DEF ExpireRequest
<1>2. /\ request'.status = "EXPIRED"
      /\ request' \in [status : {"ABSENT", "OPEN", "QUOTED"} \cup RequestClosed, touched : 0 .. MaxTime]
  BY <1>1, Have, TouchedRow DEF RequestClosed
<1>3. TypeOK'
  BY <1>1, <1>2, Have, Rows, Typed DEF TypeOK
<1>4. QuietQuotes /\ Sent' = Sent /\ QuietChallenges /\ CodesFollow'
  BY <1>1, Have, QuotesStay, ChallengesStay
<1>5. OneDeal'
  BY <1>1, <1>2, <1>3, <1>4, Have, DealKept DEF OneDeal
<1>6. ChallengesLast
  BY <1>1 DEF ChallengesLast
<1> QED BY <1>1, <1>4, <1>5, <1>6, SessionsStay, LockKept, DecisionsKept DEF IInv

LEMMA StutterKeeps == ASSUME IInv, UNCHANGED vars PROVE IInv'
<1>1. UNCHANGED <<now, request, quote, link, challenge, trades, session, lock>> /\ code' = code
  BY DEF vars
<1> QED BY <1>1, Have, Rows, DeliverySteps DEF CodesFollow

LEMMA NextKeeps == ASSUME IInv, [Next]_vars PROVE IInv'
<1>1. CASE UNCHANGED vars
  BY <1>1, StutterKeeps
<1>2. CASE DeskStep
  BY <1>2, CreateRequestKeeps, CloseRequestKeeps, CreateQuoteKeeps, SendQuoteKeeps,
     CreateQuoteLinkKeeps, RevokeQuoteLinkKeeps, CancelQuoteKeeps
     DEF DeskStep, DeclineRequest, WithdrawRequest
<1>3. CASE AppStep
  BY <1>3, AppDecides DEF AppStep
<1>4. CASE ClockStep
  BY <1>4, TickKeeps, ExpireRequestKeeps, ExpireQuoteKeeps DEF ClockStep
<1>5. CASE \E s \in Sessions : LinkStep(s)
  BY <1>5, OpenToAskKeeps, AskCodeKeeps, AskRefusedKeeps, OpenToDecideKeeps, VerifyRightKeeps,
     VerifyWrongKeeps, VerifyLateKeeps, VerifyRefusedKeeps, BeginDecisionKeeps,
     CommitDecisionKeeps, AbandonDecisionKeeps DEF LinkStep, DecisionEnds
<1>6. CASE \E c \in Challenges : DeliveryStep(c)
  BY <1>6, OpenCodeKeeps, DropCodeKeeps, MailCodeKeeps, FinishDeliveryKeeps, DeliveryFailsKeeps
     DEF DeliveryStep, DeliveryEnds
<1> QED BY <1>1, <1>2, <1>3, <1>4, <1>5, <1>6 DEF Next

\* The inductive invariant holds in every state of every request.
THEOREM QuotesInvariant == Spec => []IInv
<1>1. IInv /\ [Next]_vars => IInv'
  BY NextKeeps
<1> QED BY InitHolds, <1>1, PTL DEF Spec

\* FI-05, FI-06: however its quotes are sent, replaced, cancelled, rejected, run out or
\* decided, and by whom, a request becomes at most one trade, that of its one accepted
\* quote, and is QUOTED exactly while one quote of it is live.
THEOREM AtMostOneDeal == Spec => []OneDeal
<1>1. IInv => OneDeal
  BY DEF IInv
<1> QED BY <1>1, QuotesInvariant, PTL

\* FI-07: a decision by link consumed a code of that quote, for that decision, which had
\* attempts left; a consumed code decided its quote (consumeChallenge, verifyChallengeCode).
THEOREM VerifiedDecisions == Spec => []DecisionIsVerified
<1>1. IInv => DecisionIsVerified
  BY DEF IInv
<1> QED BY <1>1, QuotesInvariant, PTL

\* A code waits only for an open challenge of a live quote, and none is handed to the email
\* provider after its challenge was closed (deliverAcceptanceCode, eraseDeliveries,
\* closePendingChallenges).
THEOREM CodesDie == Spec => CodesDieWithQuote
<1> DEFINE Dies == \A c \in Challenges :
             /\ code[c].sealed => challenge[c].status = "PENDING"
             /\ challenge[c].status = "PENDING" => challenge[c].quote \in Sent
           Mailed == \A c \in Challenges :
             code[c].step = "OPENED" /\ code'[c].step = "MAILED" => challenge[c].status = "PENDING"
<1>1. IInv => Dies
  BY DEF IInv, CodesFollow
<1>2. IInv => [Mailed]_vars
  BY DEF IInv, CodesFollow
<1>3. Spec => []Dies
  BY <1>1, QuotesInvariant, PTL
<1>4. Spec => [][Mailed]_vars
  BY <1>2, QuotesInvariant, PTL
<1> QED BY <1>3, <1>4 DEF CodesDieWithQuote, CodeMailedWhileOpen

\* Nothing but the decision of a caller on the link page makes a quote decided by link.
LEMMA OnlyCallersDecideByLink ==
  ASSUME IInv, NEW p \in Quotes, quote'[p].via = "LINK", quote[p].via # "LINK", [Next]_vars
  PROVE  \E s \in Sessions : CommitDecision(s)
<1>1. quote' # quote
  OBVIOUS
<1>2. ASSUME NEW q \in Quotes, NEW v \in Validities, CreateQuote(q, v) PROVE FALSE
  <2> PICK row : row = [NoQuote EXCEPT !.status = "DRAFT", !.valid = v]
    OBVIOUS
  <2>1. row.via = "NONE"
    BY DEF NoQuote
  <2>2. quote' = [quote EXCEPT ![q] = row]
    BY <1>2 DEF CreateQuote
  <2> QED BY <2>1, <2>2, Have, Rows
<1>3. ASSUME NEW q \in Quotes, NEW withLink \in BOOLEAN, SendQuote(q, withLink) PROVE FALSE
  <2> PICK row : row = [Superseded[q] EXCEPT !.status = "SENT", !.expires = now + quote[q].valid]
    OBVIOUS
  <2>1. \A r \in Quotes : Superseded[r] \in QuoteRow /\ Superseded[r].via = quote[r].via
    BY Have, QuotesSuperseded
  <2>2. row.via = quote[q].via
    <3>1. Superseded[q] \in QuoteRow /\ Superseded[q].via = quote[q].via
      BY <2>1
    <3> QED BY <3>1 DEF QuoteRow
  <2>3. quote' = [Superseded EXCEPT ![q] = row]
    BY <1>3 DEF SendQuote, Superseded
  <2>4. (quote'[p] = row /\ p = q) \/ quote'[p] = Superseded[p]
    BY <2>3 DEF Superseded
  <2> QED BY <2>1, <2>2, <2>4
<1>4. ASSUME NEW q \in Quotes, CancelQuote(q) \/ ExpireQuote(q) PROVE FALSE
  <2>1. PICK to \in QuoteStates : quote' = [quote EXCEPT ![q].status = to]
    BY <1>4 DEF CancelQuote, ExpireQuote, QuoteStates
  <2> QED BY <2>1, Have, QuoteTakes
<1>5. ASSUME NEW to, CloseRequest(to) PROVE FALSE
  BY <1>5, Have, QuotesSuperseded DEF CloseRequest
<1>6. ASSUME NEW q \in Quotes, AcceptQuote(q) \/ RejectQuote(q) PROVE FALSE
  <2>1. PICK to : quote' = [quote EXCEPT ![q].status = to, ![q].via = "APP", ![q].by = 0]
    BY <1>6 DEF AcceptQuote, RejectQuote, Accept, Reject, Decided
  <2> PICK row : row = [quote[q] EXCEPT !.status = to, !.via = "APP", !.by = 0]
    OBVIOUS
  <2>2. row.via = "APP"
    <3>1. quote[q] \in QuoteRow
      BY Have, Rows
    <3> QED BY <3>1 DEF QuoteRow
  <2>3. quote' = [quote EXCEPT ![q] = row]
    BY <2>1
  <2> QED BY <2>2, <2>3, Have, Rows
<1>7. CASE DeskStep
  BY <1>1, <1>2, <1>3, <1>4, <1>5, <1>7
  DEF DeskStep, DeclineRequest, WithdrawRequest, CreateRequest, CreateQuoteLink, RevokeQuoteLink
<1>8. CASE ClockStep
  BY <1>1, <1>4, <1>8 DEF ClockStep, Tick, ExpireRequest
<1>9. CASE \E s \in Sessions : LinkStep(s)
  <2>1. PICK s \in Sessions : LinkStep(s)
    BY <1>9
  <2>2. CASE CommitDecision(s)
    BY <2>2
  <2>3. CASE ~CommitDecision(s)
    BY <1>1, <2>1, <2>3 DEF LinkStep, DecisionEnds, OpenToAsk, AskCode, AskRefused, OpenToDecide, VerifyRight,
       VerifyWrong, VerifyLate, VerifyRefused, BeginDecision, AbandonDecision
  <2> QED BY <2>2, <2>3
<1>10. ~\E c \in Challenges : DeliveryStep(c)
  BY <1>1 DEF DeliveryStep, DeliveryEnds, OpenCode, DropCode, MailCode, FinishDelivery, DeliveryFails
<1> QED BY <1>1, <1>6, <1>7, <1>8, <1>9, <1>10 DEF Next, AppStep, vars

\* revokeQuoteLink: nothing is decided through a revoked link, not even by a caller that
\* had resolved the link, verified its code and taken the locks before it was revoked.
THEOREM RevokedDecidesNothing == Spec => RevokedLinkDecidesNothing
<1> DEFINE ThroughLive ==
      \A q \in Quotes : quote'[q].via = "LINK" /\ quote[q].via # "LINK" => link[q] = "LIVE"
<1>1. ASSUME IInv, [Next]_vars, NEW p \in Quotes, quote'[p].via = "LINK", quote[p].via # "LINK"
      PROVE  link[p] = "LIVE"
  <2>1. PICK s \in Sessions : CommitDecision(s)
    BY <1>1, OnlyCallersDecideByLink
  <2>2. session[s].step = "DECIDING" /\ challenge[session[s].challenge].status = "PENDING"
    BY <2>1 DEF CommitDecision, StillPending
  <2>3. session[s].quote \in Quotes /\ link[session[s].quote] = "LIVE"
    BY <1>1, <2>2, Have DEF SessionsSound, OnThePage
  <2>4. PICK row : quote' = [quote EXCEPT ![session[s].quote] = row]
    BY <2>1 DEF CommitDecision, Accept, Reject, Decided
  <2>5. p = session[s].quote
    BY <1>1, <2>3, <2>4, Have, Rows
  <2> QED BY <2>3, <2>5
<1>2. IInv /\ [Next]_vars => [ThroughLive]_vars
  BY <1>1
<1>3. Spec => [][ThroughLive]_vars
  BY <1>2, QuotesInvariant, PTL DEF Spec
<1> QED BY <1>3 DEF RevokedLinkDecidesNothing
================================================================================
