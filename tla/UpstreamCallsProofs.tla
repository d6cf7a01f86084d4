------------------------- MODULE UpstreamCallsProofs -------------------------
(***************************************************************************)
(* Proofs about UpstreamCalls, for any credentials, endpoints, quotas and  *)
(* limits.                                                                 *)
(***************************************************************************)
EXTENDS UpstreamCalls, TLAPS

InCall == {"attempt", "hop", "rounds"}

(* What holds of the locals of call_api_with_retry where it is.            *)
Placed ==
    /\ stage = "attempt" => call.attempt <= call.quota
    /\ stage = "hop" => call.attempt < call.quota /\ cred \in Creds \ gone /\ chain > 0 /\ ~call.reuse
    /\ stage = "open" => cred \in Creds
    /\ call.reuse => stage \in InCall /\ cred \in Creds \ (call.tried \cup gone)

(* Every request that was sent has been drawn from the shared budget; the  *)
(* passthrough comes first and counts its own.                             *)
Drawn ==
    /\ sent = used
    /\ stage = "pass" => used = pass.hops
    /\ pass.cap <= MaxCalls

(* The sets of the call know what the call has reported.                   *)
Counted ==
    /\ stage \in InCall => \A c \in Creds : /\ limits[c] > 0 => c \in call.limited
                                            /\ strikes[c] > 0 => c \in call.auth
    /\ ReportedOnce

(* What the request has excluded the call counts as tried, unless the call *)
(* itself has given it back.                                               *)
Remembered == stage \in InCall => excluded \subseteq call.tried \cup call.back

IInv == TypeOK /\ Placed /\ Drawn /\ Counted /\ Remembered

(* The locals are records of their fields.                                 *)
LEMMA NoCallOK ==
    ASSUME TypeOK, NEW b \in BaseQuotas
    PROVE  NoCall(b) \in Locals
BY UpstreamCallsConstants DEF TypeOK, NoCall, Locals, Errors

(* A round's quota is what is left of the budget, at most.                 *)
LEMMA RoundQuotaOK ==
    ASSUME TypeOK, NEW b \in BaseQuotas
    PROVE  RoundQuota(b) \in 0..MaxCalls
BY UpstreamCallsConstants DEF TypeOK, RoundQuota, Min2

(* A round starts its attempts anew and keeps the sets of the call.        *)
LEMMA StartRoundOK ==
    ASSUME TypeOK, NEW c \in Locals
    PROVE  /\ StartRound(c) \in Locals
           /\ StartRound(c).attempt = 0 /\ StartRound(c).reuse = FALSE
           /\ StartRound(c).quota \in 0..MaxCalls
           /\ StartRound(c).tried = c.tried /\ StartRound(c).limited = c.limited
           /\ StartRound(c).auth = c.auth /\ StartRound(c).back = c.back
<1>1. c.base \in BaseQuotas
  BY DEF Locals
<1>2. RoundQuota(c.base) \in 0..MaxCalls
  BY <1>1, RoundQuotaOK
<1>3. 0 \in 0..MaxCalls
  BY UpstreamCallsConstants
<1> QED
  BY <1>2, <1>3 DEF StartRound, Locals

(* An answer of an error class is set down in the locals.                  *)
LEMMA NowOK ==
    ASSUME TypeOK, NEW e \in Errors
    PROVE  Now(e) \in Locals /\ Now(e) = [call EXCEPT !.err = e, !.overload = FALSE]
BY DEF TypeOK, Now, Locals

(* How an attempt ends at its hop: what is reported of the credential is   *)
(* noted in the call's sets, which never shrink, but for `tried'.          *)
Noted ==
    /\ stage = "hop" /\ stage' \in {"attempt", "rounds"}
    /\ call' \in Locals /\ call'.quota = call.quota
    /\ stage' = "attempt" => call'.attempt = call.attempt + 1
    /\ call'.tried \in {call.tried, call.tried \ {cred}}
    /\ call'.reuse => cred \notin call'.tried /\ gone' = gone
    /\ call.limited \subseteq call'.limited /\ call.auth \subseteq call'.auth
    /\ call.back \subseteq call'.back /\ call.tried \subseteq call'.tried \cup call'.back
    /\ UNCHANGED <<outer, cred, chain>>

Reports ==
    /\ \/ limits' = limits
       \/ cred \in call'.limited \ call.limited /\ limits' = Raise(limits, cred)
    /\ \/ strikes' = strikes
       \/ cred \in call'.auth \ call.auth /\ strikes' = Raise(strikes, cred)
    /\ auths' \in [Creds -> 0..2]
    /\ open' \in [Creds -> 0..2] /\ gone' \in SUBSET Creds /\ gone \subseteq gone'
    /\ proven' = proven
    /\ UNCHANGED <<used, sent>> \/ (BudgetLeft /\ Consume)

(* An attempt that ends with locals that only grew notes what it reports.  *)
LEMMA ContinueNotes ==
    ASSUME IInv, stage = "hop", NEW c \in Locals, Continue(c) \/ Break(c),
           c.quota = call.quota, c.attempt = call.attempt,
           c.tried \in {call.tried, call.tried \ {cred}},
           c.reuse => cred \notin c.tried /\ gone' = gone,
           call.limited \subseteq c.limited, call.auth \subseteq c.auth,
           call.back \subseteq c.back, call.tried \subseteq c.tried \cup c.back,
           UNCHANGED <<outer, cred, chain>>
    PROVE  Noted /\ call'.limited = c.limited /\ call'.auth = c.auth
<1>1. c.attempt \in 0..MaxCalls /\ c.quota \in 0..MaxCalls /\ c.attempt < c.quota
  BY DEF IInv, Placed, Locals
<1>2. c.attempt + 1 \in 0..MaxCalls
  BY <1>1, UpstreamCallsConstants
<1>3. CASE Continue(c)
  BY <1>2, <1>3 DEF Continue, Noted, Locals
<1>4. CASE Break(c)
  BY <1>4 DEF Break, Noted, Locals
<1> QED
  BY <1>3, <1>4

(* The counters stay in their range.                                       *)
LEMMA RaiseOK ==
    ASSUME NEW f \in [Creds -> 0..2], NEW c \in Creds
    PROVE  /\ Raise(f, c) \in [Creds -> 0..2]
           /\ \A d \in Creds : d # c => Raise(f, c)[d] = f[d]
           /\ f[c] = 0 => Raise(f, c)[c] = 1
           /\ \A n \in 0..2 : [f EXCEPT ![c] = Min2(@ + n, 2)] \in [Creds -> 0..2]
<1>1. \A n \in 0..2 : Min2(f[c] + n, 2) \in 0..2
  BY DEF Min2
<1> QED
  BY <1>1 DEF Raise, Min2

(* The errors and silences that end an attempt without a report.           *)
LEMMA PlainEnds ==
    ASSUME IInv, ChainBails \/ (CredentialGateFull /\ stage' = "attempt") \/ NoAnswer \/ ClientError
                 \/ Unknown \/ InvalidModel \/ CapacityLow
    PROVE  Noted /\ Reports
<1> DEFINE Same(c) == c \in Locals /\ c.quota = call.quota /\ c.attempt = call.attempt /\ c.tried = call.tried
                      /\ ~c.reuse /\ c.limited = call.limited /\ c.auth = call.auth
                      /\ c.back = call.back
<1>1. TypeOK /\ stage = "hop" /\ call \in Locals /\ ~call.reuse
  BY DEF IInv, TypeOK, Placed, ChainBails, CredentialGateFull, NoAnswer, ClientError, Unknown, InvalidModel,
     CapacityLow, Answers, Sends
<1>2. UNCHANGED <<outer, cred, chain, pool, history>>
  BY DEF ChainBails, CredentialGateFull, NoAnswer, ClientError, Unknown, InvalidModel, CapacityLow, Answers
<1>3. UNCHANGED <<used, sent>> \/ (BudgetLeft /\ Consume)
  BY DEF ChainBails, CredentialGateFull, NoAnswer, ClientError, Unknown, InvalidModel, CapacityLow, Answers, Sends
<1>4. \E c : Same(c) /\ (Continue(c) \/ Break(c))
  <2>1. KeepErr("final") \in Errors
    BY <1>1 DEF KeepErr, Errors, Locals
  <2>2. ASSUME NEW e \in Errors PROVE Same(Now(e)) /\ Same([call EXCEPT !.err = e])
                                    /\ \A b \in BOOLEAN : Same([call EXCEPT !.err = e, !.overload = b])
    BY <1>1 DEF Now, Locals
  <2>3. CASE ChainBails
    <3>1. (call.overload /\ call.err # "none") \in BOOLEAN
      OBVIOUS
    <3>2. \/ Break([call EXCEPT !.err = KeepErr("final")])
          \/ Break([call EXCEPT !.err = KeepErr("final"), !.overload = call.overload /\ call.err # "none"])
      BY <1>1, <2>3 DEF ChainBails, Locals
    <3> QED
      BY <2>1, <2>2, <3>1, <3>2
  <2>4. CASE CredentialGateFull /\ stage' = "attempt"
    BY <1>1, <2>1, <2>2, <2>4 DEF CredentialGateFull, Continue
  <2>5. CASE NoAnswer
    BY <2>2, <2>5 DEF NoAnswer, Errors
  <2>6. CASE ClientError
    <3>1. PICK e \in Errors : Break(Now(e))
      BY <2>6 DEF ClientError, Errors
    <3> QED
      BY <2>2, <3>1
  <2>7. CASE Unknown \/ InvalidModel
    BY <2>2, <2>7 DEF Unknown, InvalidModel, Errors
  <2>8. CASE CapacityLow
    <3> DEFINE c == [call EXCEPT !.err = "capacity", !.overload = TRUE, !.capacity = Min2(@ + 1, 2)]
    <3>1. Min2(call.capacity + 1, 2) \in 0..2
      BY <1>1 DEF Locals, Min2
    <3>2. Same(c)
      BY <1>1, <3>1 DEF Locals, Errors
    <3> QED
      BY <2>8, <3>2 DEF CapacityLow
  <2> QED
    BY <2>3, <2>4, <2>5, <2>6, <2>7, <2>8
<1>5. PICK c : Same(c) /\ (Continue(c) \/ Break(c))
  BY <1>4
<1>6. Noted
  BY <1>1, <1>2, <1>5, ContinueNotes
<1> QED
  BY <1>1, <1>2, <1>3, <1>6 DEF Reports, pool, history, TypeOK

(* The locals of an attempt are a record, and its credential is in use.    *)
LEMMA AtHop ==
    ASSUME IInv, stage = "hop"
    PROVE  /\ TypeOK /\ call \in Locals /\ ~call.reuse /\ cred \in Creds \ gone
           /\ call.limited \subseteq Creds /\ call.auth \subseteq Creds /\ call.tried \subseteq Creds
           /\ call.refreshed \subseteq Creds /\ call.fixed \subseteq Creds /\ call.switched \subseteq Creds
           /\ call.back \subseteq Creds
BY DEF IInv, TypeOK, Placed, Locals

(* report_suspicious_activity, report_server_error.                        *)
LEMMA LimitEnds ==
    ASSUME IInv, TemporaryLimit \/ ServerError
    PROVE  Noted /\ Reports
<1>1. /\ stage = "hop" /\ BudgetLeft /\ Consume /\ UNCHANGED <<outer, cred, chain, pool, strikes, auths>>
  BY DEF TemporaryLimit, ServerError, Answers, Sends
<1>2. TypeOK /\ call \in Locals /\ ~call.reuse /\ cred \in Creds
  BY <1>1, AtHop
<1>3. CASE TemporaryLimit
  <2> DEFINE c == [Now("swap") EXCEPT !.suspicious = Min2(@ + 1, 3), !.limited = @ \cup {cred}]
  <2>1. Min2(call.suspicious + 1, 3) \in 0..3
    BY <1>2 DEF Locals, Min2
  <2>2. /\ c \in Locals /\ c.quota = call.quota /\ c.attempt = call.attempt /\ c.tried = call.tried
        /\ ~c.reuse /\ c.limited = call.limited \cup {cred} /\ c.auth = call.auth
        /\ c.back = call.back
    BY <1>2, <2>1 DEF Now, Locals, Errors
  <2>3. Continue(c) \/ Break(c)
    BY <1>3 DEF TemporaryLimit
  <2> HIDE DEF c
  <2>4. Noted /\ call'.limited = call.limited \cup {cred}
    BY <1>1, <2>2, <2>3, ContinueNotes
  <2>5. limits' = IF cred \in call.limited THEN limits ELSE Raise(limits, cred)
    BY <1>3 DEF TemporaryLimit
  <2> QED
    BY <1>1, <1>2, <2>4, <2>5 DEF Reports, pool, TypeOK
<1>4. CASE ServerError /\ Continue([Now("server") EXCEPT !.limited = @ \cup {cred}])
              /\ limits' = IF cred \in call.limited THEN limits ELSE Raise(limits, cred)
  <2> DEFINE c == [Now("server") EXCEPT !.limited = @ \cup {cred}]
  <2>2. /\ c \in Locals /\ c.quota = call.quota /\ c.attempt = call.attempt /\ c.tried = call.tried
        /\ ~c.reuse /\ c.limited = call.limited \cup {cred} /\ c.auth = call.auth
        /\ c.back = call.back
    BY <1>2 DEF Now, Locals, Errors
  <2>3. Continue(c)
    BY <1>4
  <2> HIDE DEF c
  <2>4. Noted /\ call'.limited = call.limited \cup {cred}
    BY <1>1, <2>2, <2>3, ContinueNotes
  <2> QED
    BY <1>1, <1>2, <1>4, <2>4 DEF Reports, pool, TypeOK
<1>5. CASE ServerError /\ Continue(Now("final")) /\ UNCHANGED limits
  <2> DEFINE c == Now("final")
  <2>2. /\ c \in Locals /\ c.quota = call.quota /\ c.attempt = call.attempt /\ c.tried = call.tried
        /\ ~c.reuse /\ c.limited = call.limited /\ c.auth = call.auth
        /\ c.back = call.back
    BY <1>2 DEF Now, Locals, Errors
  <2>3. Continue(c)
    BY <1>5
  <2> HIDE DEF c
  <2>4. Noted
    BY <1>1, <2>2, <2>3, ContinueNotes
  <2> QED
    BY <1>1, <1>2, <1>5, <2>4 DEF Reports, pool, TypeOK
<1> QED
  BY <1>3, <1>4, <1>5 DEF ServerError

(* 429.                                                                    *)
LEMMA RateLimitEnds ==
    ASSUME IInv, RateLimited
    PROVE  Noted /\ Reports
<1>1. /\ stage = "hop" /\ BudgetLeft /\ Consume
      /\ UNCHANGED <<outer, cred, chain, gone, proven, strikes, auths>>
  BY DEF RateLimited, Answers, Sends
<1>2. TypeOK /\ call \in Locals /\ ~call.reuse /\ cred \in Creds
  BY <1>1, AtHop
<1>3. open' \in [Creds -> 0..2]
  BY <1>2 DEF RateLimited, TypeOK
<1>4. CASE Continue(GivenBack([Now("rate") EXCEPT !.reuse = TRUE])) /\ UNCHANGED limits
  <2> DEFINE c == GivenBack([Now("rate") EXCEPT !.reuse = TRUE])
  <2>2. /\ c \in Locals /\ c.quota = call.quota /\ c.attempt = call.attempt /\ c.tried = call.tried \ {cred}
        /\ c.reuse /\ c.limited = call.limited /\ c.auth = call.auth
        /\ c.back = call.back \cup {cred}
    BY <1>2 DEF GivenBack, Now, Locals, Errors
  <2>3. Continue(c)
    BY <1>4
  <2> HIDE DEF c
  <2>4. Noted
    BY <1>1, <2>2, <2>3, ContinueNotes
  <2> QED
    BY <1>1, <1>2, <1>3, <1>4, <2>4 DEF Reports, TypeOK
<1>5. CASE /\ Continue([Now("rate") EXCEPT !.limited = @ \cup {cred}])
           /\ limits' = IF cred \in call.limited THEN limits ELSE Raise(limits, cred)
  <2> DEFINE c == [Now("rate") EXCEPT !.limited = @ \cup {cred}]
  <2>2. /\ c \in Locals /\ c.quota = call.quota /\ c.attempt = call.attempt /\ c.tried = call.tried
        /\ ~c.reuse /\ c.limited = call.limited \cup {cred} /\ c.auth = call.auth
        /\ c.back = call.back
    BY <1>2 DEF Now, Locals, Errors
  <2>3. Continue(c)
    BY <1>5
  <2> HIDE DEF c
  <2>4. Noted /\ call'.limited = call.limited \cup {cred}
    BY <1>1, <2>2, <2>3, ContinueNotes
  <2> QED
    BY <1>1, <1>2, <1>3, <1>5, <2>4 DEF Reports, TypeOK
<1> QED
  BY <1>4, <1>5 DEF RateLimited

(* Answers that disable the credential.                                    *)
LEMMA DisablingEnds ==
    ASSUME IInv, MonthlyLimit \/ AccountSuspended
    PROVE  Noted /\ Reports
<1>1. /\ stage = "hop" /\ BudgetLeft /\ Consume /\ gone' = gone \cup {cred}
      /\ UNCHANGED <<outer, cred, chain, open, proven, history>>
  BY DEF MonthlyLimit, AccountSuspended, Answers, Sends
<1>2. TypeOK /\ call \in Locals /\ ~call.reuse /\ cred \in Creds
  BY <1>1, AtHop
<1>3. PICK b \in BOOLEAN : LET c == [Now("final") EXCEPT !.suspended = b] IN Continue(c) \/ Break(c)
  <2>1. Now("final") = [Now("final") EXCEPT !.suspended = call.suspended] /\ call.suspended \in BOOLEAN
    BY <1>2 DEF Now, Locals
  <2> QED
    BY <2>1 DEF MonthlyLimit, AccountSuspended
<1> DEFINE c == [Now("final") EXCEPT !.suspended = b]
<1>4. /\ c \in Locals /\ c.quota = call.quota /\ c.attempt = call.attempt /\ c.tried = call.tried
      /\ ~c.reuse /\ c.limited = call.limited /\ c.auth = call.auth
      /\ c.back = call.back
  BY <1>2 DEF Now, Locals, Errors
<1> HIDE DEF c
<1>5. Noted
  BY <1>1, <1>3, <1>4, ContinueNotes DEF c
<1> QED
  BY <1>1, <1>2, <1>5 DEF Reports, history, TypeOK

(* 401 and 403 that are cured by another region, or by a new token: the    *)
(* credential is no longer counted as tried.                               *)
LEMMA CureEnds ==
    ASSUME IInv, FeatureNotSupported \/ BearerRefreshed \/ RegionRetry
    PROVE  Noted /\ Reports
<1>1. /\ stage = "hop" /\ BudgetLeft /\ Consume
      /\ UNCHANGED <<outer, cred, chain, pool, limits, strikes>>
  BY DEF FeatureNotSupported, BearerRefreshed, RegionRetry, Answers, Sends, history
<1>2. TypeOK /\ call \in Locals /\ ~call.reuse /\ cred \in Creds
  BY <1>1, AtHop
<1>3. auths' \in [Creds -> 0..2]
  <2>1. Raise(auths, cred) \in [Creds -> 0..2]
    BY <1>2, RaiseOK DEF TypeOK
  <2> QED
    BY <1>2, <2>1 DEF FeatureNotSupported, BearerRefreshed, RegionRetry, history, TypeOK
<1> DEFINE Fits(c) ==
         /\ c \in Locals /\ c.quota = call.quota /\ c.attempt = call.attempt
         /\ c.tried \in {call.tried, call.tried \ {cred}} /\ (c.reuse => cred \notin c.tried)
         /\ c.limited = call.limited /\ c.auth = call.auth
         /\ call.back \subseteq c.back /\ call.tried \subseteq c.tried \cup c.back
<1>4. \E c : Fits(c) /\ Continue(c)
  <2>1. CASE FeatureNotSupported /\ Continue(GivenBack([Now("final") EXCEPT !.fixed = @ \cup {cred}]))
    <3> DEFINE c == GivenBack([Now("final") EXCEPT !.fixed = @ \cup {cred}])
    <3>1. Fits(c)
      BY <1>2 DEF GivenBack, Now, Locals, Errors
    <3> HIDE DEF c, Fits
    <3> QED
      BY <2>1, <3>1 DEF c
  <2>2. ASSUME NEW f \in {call.fixed, call.fixed \cup {cred}}, Continue([Now("final") EXCEPT !.fixed = f])
        PROVE  \E c : Fits(c) /\ Continue(c)
    <3> DEFINE c == [Now("final") EXCEPT !.fixed = f]
    <3>1. Fits(c)
      BY <1>2 DEF Now, Locals, Errors
    <3> HIDE DEF c, Fits
    <3> QED
      BY <2>2, <3>1 DEF c
  <2>3. CASE BearerRefreshed
    <3> DEFINE c == GivenBack([call EXCEPT !.refreshed = @ \cup {cred}])
    <3>1. Fits(c)
      BY <1>2 DEF GivenBack, Locals
    <3> HIDE DEF c, Fits
    <3> QED
      BY <2>3, <3>1 DEF BearerRefreshed, c
  <2>4. CASE RegionRetry
    <3> DEFINE c == GivenBack([Now("final") EXCEPT !.switched = @ \cup {cred}, !.reuse = TRUE])
    <3>1. Fits(c)
      BY <1>2 DEF GivenBack, Now, Locals, Errors
    <3> HIDE DEF c, Fits
    <3> QED
      BY <2>4, <3>1 DEF RegionRetry, c
  <2>5. CASE FeatureNotSupported
    BY <2>1, <2>2, <2>5 DEF FeatureNotSupported
  <2> QED
    BY <2>3, <2>4, <2>5
<1>5. PICK c : Fits(c) /\ Continue(c)
  BY <1>4
<1>6. Noted
  BY <1>1, <1>5, ContinueNotes DEF pool
<1> QED
  BY <1>1, <1>2, <1>3, <1>6 DEF Reports, pool, TypeOK

(* ...and those that are not: report_failure, or an auth cooldown.         *)
LEMMA AuthEnds ==
    ASSUME IInv, BearerInvalidProven \/ AuthFails
    PROVE  Noted /\ Reports
<1>1. /\ stage = "hop" /\ BudgetLeft /\ Consume /\ UNCHANGED <<outer, cred, chain, open, proven, limits>>
  BY DEF BearerInvalidProven, AuthFails, Answers, Sends, pool
<1>2. TypeOK /\ call \in Locals /\ ~call.reuse /\ cred \in Creds
  BY <1>1, AtHop
<1>3. auths' \in [Creds -> 0..2]
  <2>1. Raise(auths, cred) \in [Creds -> 0..2]
    BY <1>2, RaiseOK DEF TypeOK
  <2>2. CASE BearerInvalidProven
    <3> DEFINE n == (IF MayRefresh THEN 1 ELSE 0) + (IF cred \in call.auth THEN 0 ELSE 1)
    <3>1. n \in 0..2 /\ auths[cred] \in 0..2
      BY <1>2 DEF TypeOK
    <3>2. Min2(auths[cred] + (IF MayRefresh THEN 1 ELSE 0) + (IF cred \in call.auth THEN 0 ELSE 1), 2) \in 0..2
      BY <3>1 DEF Min2
    <3> QED
      BY <1>2, <2>2, <3>2 DEF BearerInvalidProven, TypeOK
  <2>3. CASE AuthFails
    BY <1>2, <2>1, <2>3 DEF AuthFails, TypeOK
  <2> QED
    BY <2>2, <2>3
<1>4. \E c \in Locals :
         /\ Continue(c) \/ Break(c)
         /\ c.quota = call.quota /\ c.attempt = call.attempt /\ c.tried = call.tried /\ ~c.reuse
         /\ c.limited = call.limited /\ c.auth = call.auth \cup {cred}
         /\ c.back = call.back
  <2> DEFINE C(r) == [Now("final") EXCEPT !.auth = @ \cup {cred}, !.refreshed = r]
             Rs == {call.refreshed, call.refreshed \cup {cred}}
  <2>1. ASSUME NEW r \in Rs
        PROVE  /\ C(r) \in Locals /\ C(r).quota = call.quota /\ C(r).attempt = call.attempt
               /\ C(r).tried = call.tried /\ ~C(r).reuse /\ C(r).limited = call.limited
               /\ C(r).auth = call.auth \cup {cred} /\ C(r).back = call.back
    BY <1>2 DEF Now, Locals, Errors
  <2>2. [Now("final") EXCEPT !.auth = @ \cup {cred}, !.refreshed = Now("final").refreshed] = C(call.refreshed)
        /\ Now("final").refreshed = call.refreshed
    BY <1>2 DEF Now, Locals
  <2>3. \E r \in Rs : Continue(C(r)) \/ Break(C(r))
    <3>1. CASE BearerInvalidProven
      <4>1. Continue(C(IF MayRefresh THEN call.refreshed \cup {cred} ELSE call.refreshed))
        BY <2>2, <3>1 DEF BearerInvalidProven
      <4> QED
        BY <4>1
    <3>2. CASE AuthFails
      <4>1. PICK bearer \in BOOLEAN :
               LET r == IF bearer /\ MayRefresh THEN call.refreshed \cup {cred} ELSE call.refreshed IN
               Continue(C(r)) \/ Break(C(r))
        BY <2>2, <3>2 DEF AuthFails
      <4> QED
        BY <4>1
    <3> QED
      BY <3>1, <3>2
  <2> HIDE DEF C
  <2> QED
    BY <2>1, <2>3
<1>5. PICK c \in Locals :
         /\ Continue(c) \/ Break(c)
         /\ c.quota = call.quota /\ c.attempt = call.attempt /\ c.tried = call.tried /\ ~c.reuse
         /\ c.limited = call.limited /\ c.auth = call.auth \cup {cred}
         /\ c.back = call.back
  BY <1>4
<1>6. Noted /\ call'.auth = call.auth \cup {cred}
  BY <1>1, <1>5, ContinueNotes
<1>7. strikes' = strikes \/ (cred \notin call.auth /\ strikes' = Raise(strikes, cred))
  BY DEF BearerInvalidProven, AuthFails, StrikesNow
<1>8. gone' = gone \/ \E dead \in SUBSET Creds : gone' = gone \cup dead
  <2>1. {} \in SUBSET Creds /\ {cred} \in SUBSET Creds
    BY <1>2
  <2>2. CASE BearerInvalidProven
    BY <2>2 DEF BearerInvalidProven, pool
  <2>3. CASE AuthFails
    BY <2>1, <2>3 DEF AuthFails
  <2> QED
    BY <2>2, <2>3
<1>9. gone' \in SUBSET Creds /\ gone \subseteq gone'
  BY <1>2, <1>8 DEF TypeOK
<1> QED
  BY <1>1, <1>2, <1>3, <1>6, <1>7, <1>9 DEF Reports, TypeOK

(* The invariant survives the end of an attempt.                           *)
LEMMA EndKeeps ==
    ASSUME IInv, Noted, Reports
    PROVE  IInv'
<1>0. /\ TypeOK /\ call \in Locals /\ ~call.reuse /\ cred \in Creds \ gone
      /\ Placed /\ Drawn /\ Counted /\ Remembered /\ stage = "hop"
      /\ excluded' = excluded /\ pass' = pass /\ reopens' = reopens /\ compress' = compress
  BY AtHop DEF IInv, Noted, outer
<1>1. used' \in 0..MaxCalls /\ sent' = used'
  BY <1>0, UpstreamCallsConstants DEF Reports, BudgetLeft, Consume, Min2, TypeOK, Drawn
<1>2. /\ limits' \in [Creds -> 0..2] /\ strikes' \in [Creds -> 0..2]
      /\ \A c \in Creds : /\ limits'[c] > 0 => c \in call'.limited
                          /\ strikes'[c] > 0 => c \in call'.auth
                          /\ limits'[c] <= 1 /\ strikes'[c] <= 1
  <2>1. limits \in [Creds -> 0..2] /\ strikes \in [Creds -> 0..2]
    BY <1>0 DEF TypeOK
  <2>2. \A c \in Creds :
           /\ limits[c] > 0 => c \in call.limited
           /\ strikes[c] > 0 => c \in call.auth
           /\ limits[c] <= 1 /\ strikes[c] <= 1
    BY <1>0 DEF Counted, ReportedOnce, InCall
  <2>3. call.limited \subseteq call'.limited /\ call.auth \subseteq call'.auth
    BY DEF Noted
  <2>4. /\ limits' \in [Creds -> 0..2]
        /\ \A c \in Creds : (limits'[c] > 0 => c \in call'.limited) /\ limits'[c] <= 1
    <3>1. CASE limits' = limits
      BY <2>1, <2>2, <2>3, <3>1
    <3>2. CASE cred \in call'.limited \ call.limited /\ limits' = Raise(limits, cred)
      <4>1. limits[cred] = 0 /\ cred \in Creds
        BY <1>0, <2>1, <2>2, <3>2
      <4>2. /\ limits' \in [Creds -> 0..2] /\ limits'[cred] = 1
            /\ \A c \in Creds \ {cred} : limits'[c] = limits[c]
        BY <2>1, <3>2, <4>1, RaiseOK
      <4> QED
        BY <2>2, <2>3, <3>2, <4>2
    <3> QED
      BY <3>1, <3>2 DEF Reports
  <2>5. /\ strikes' \in [Creds -> 0..2]
        /\ \A c \in Creds : (strikes'[c] > 0 => c \in call'.auth) /\ strikes'[c] <= 1
    <3>1. CASE strikes' = strikes
      BY <2>1, <2>2, <2>3, <3>1
    <3>2. CASE cred \in call'.auth \ call.auth /\ strikes' = Raise(strikes, cred)
      <4>1. strikes[cred] = 0 /\ cred \in Creds
        BY <1>0, <2>1, <2>2, <3>2
      <4>2. /\ strikes' \in [Creds -> 0..2] /\ strikes'[cred] = 1
            /\ \A c \in Creds \ {cred} : strikes'[c] = strikes[c]
        BY <2>1, <3>2, <4>1, RaiseOK
      <4> QED
        BY <2>2, <2>3, <3>2, <4>2
    <3> QED
      BY <3>1, <3>2 DEF Reports
  <2> QED
    BY <2>4, <2>5
<1>3. TypeOK'
  BY <1>0, <1>1, <1>2, UpstreamCallsConstants DEF Noted, Reports, TypeOK, Stages
<1>4. Placed'
  <2>1. call.attempt \in Nat /\ call.quota \in Nat /\ call.attempt < call.quota
    BY <1>0, UpstreamCallsConstants DEF Placed, Locals
  <2> QED
    BY <1>0, <2>1 DEF Noted, Placed, InCall
<1>5. Drawn'
  BY <1>0, <1>1 DEF Drawn, Noted
<1>6. Counted'
  BY <1>2 DEF Counted, ReportedOnce
<1>7. Remembered'
  BY <1>0 DEF Remembered, Noted, InCall
<1> QED
  BY <1>3, <1>4, <1>5, <1>6, <1>7 DEF IInv

(* The next endpoint of the chain is tried within the same attempt.        *)
LEMMA NextHopKeeps ==
    ASSUME IInv, (CredentialGateFull /\ stage' = "hop") \/ HopFails
    PROVE  IInv'
<1>0. TypeOK /\ call \in Locals /\ Placed /\ Drawn /\ Counted /\ Remembered /\ stage = "hop" /\ stage' = "hop"
  BY DEF IInv, TypeOK, CredentialGateFull, HopFails, Sends
<1>1. /\ chain' \in 0..MaxChain /\ chain' > 0
      /\ UNCHANGED <<outer, cred, gone, proven, history>>
  BY <1>0, UpstreamCallsConstants DEF CredentialGateFull, HopFails, Continue, TypeOK, pool
<1>2. /\ used' \in 0..MaxCalls /\ sent' = used' /\ sent' \in Nat
  BY <1>0, UpstreamCallsConstants DEF CredentialGateFull, HopFails, Sends, BudgetLeft, Consume, Min2, TypeOK, Drawn
<1>3. open' \in [Creds -> 0..2]
  BY <1>0 DEF CredentialGateFull, HopFails, TypeOK, pool, Placed
<1>4. /\ call' \in Locals /\ call'.attempt = call.attempt /\ call'.quota = call.quota /\ call'.tried = call.tried
      /\ call'.reuse = call.reuse /\ call'.limited = call.limited /\ call'.auth = call.auth
      /\ call'.back = call.back
  <2>1. KeepErr("final") \in Errors
    BY <1>0 DEF KeepErr, Errors, Locals
  <2>2. call' = call \/ call' = [call EXCEPT !.err = KeepErr("final")]
    BY <1>0 DEF CredentialGateFull, HopFails, Continue
  <2> QED
    BY <1>0, <2>1, <2>2 DEF Locals
<1>5. TypeOK'
  BY <1>0, <1>1, <1>2, <1>3, <1>4 DEF TypeOK, outer, history, Stages
<1>6. Placed' /\ Drawn'
  BY <1>0, <1>1, <1>2, <1>4 DEF Placed, Drawn, InCall, outer
<1>7. Counted' /\ Remembered'
  BY <1>0, <1>1, <1>4 DEF Counted, ReportedOnce, Remembered, InCall, outer, history
<1> QED
  BY <1>5, <1>6, <1>7 DEF IInv

(* The credential of an attempt: reused, the last resort, or untried.      *)
LEMMA TakeKeeps ==
    ASSUME IInv, TakeCredential
    PROVE  IInv'
<1>0. /\ TypeOK /\ call \in Locals /\ Placed /\ Drawn /\ Counted /\ Remembered /\ stage = "attempt"
      /\ call.attempt < call.quota /\ call.attempt \in 0..MaxCalls /\ call.quota \in 0..MaxCalls
      /\ UNCHANGED <<used, outer, pool, sent, strikes, auths>>
  BY DEF IInv, TypeOK, TakeCredential, Locals
<1>ready. PICK ready \in IF call.reuse THEN {{cred}} ELSE SUBSET (Creds \ gone) :
         \E c \in IF call.reuse THEN ready ELSE Selectable(ready, call.tried) :
            /\ cred' = c
            /\ \/ /\ open[c] > 0
                  /\ chain' \in 1..MaxChain
                  /\ stage' = "hop"
                  /\ call' = [call EXCEPT !.reuse = FALSE, !.tried = @ \cup {c}, !.ready = ready]
                  /\ UNCHANGED limits
               \/ /\ open[c] = 0
                  /\ chain' = 0
                  /\ Continue([call EXCEPT !.reuse = FALSE, !.tried = @ \cup {c}, !.err = "pool",
                                           !.overload = FALSE, !.limited = @ \cup {c}])
                  /\ limits' = IF c \in call.limited THEN limits ELSE Raise(limits, c)
  BY DEF TakeCredential
<1>1. PICK c \in IF call.reuse THEN ready ELSE Selectable(ready, call.tried) :
         /\ cred' = c
         /\ \/ /\ open[c] > 0
               /\ chain' \in 1..MaxChain
               /\ stage' = "hop"
               /\ call' = [call EXCEPT !.reuse = FALSE, !.tried = @ \cup {c}, !.ready = ready]
               /\ UNCHANGED limits
            \/ /\ open[c] = 0
               /\ chain' = 0
               /\ Continue([call EXCEPT !.reuse = FALSE, !.tried = @ \cup {c}, !.err = "pool",
                                        !.overload = FALSE, !.limited = @ \cup {c}])
               /\ limits' = IF c \in call.limited THEN limits ELSE Raise(limits, c)
  BY <1>ready
<1>2. c \in Creds \ gone /\ ready \subseteq Creds
  BY <1>0, <1>ready, <1>1 DEF Placed, Selectable
<1>3. /\ call' \in Locals /\ call'.quota = call.quota /\ call'.tried = call.tried \cup {c} /\ ~call'.reuse
      /\ call.limited \subseteq call'.limited /\ call'.auth = call.auth
      /\ call'.back = call.back
      /\ limits' = limits \/ (c \notin call.limited /\ limits' = Raise(limits, c) /\ c \in call'.limited)
      /\ \/ stage' = "hop" /\ call'.attempt = call.attempt /\ chain' \in 1..MaxChain
         \/ stage' = "attempt" /\ call'.attempt = call.attempt + 1 /\ chain' = 0
  <2>1. call.attempt + 1 \in 0..MaxCalls
    BY <1>0, UpstreamCallsConstants
  <2>2. CASE /\ chain' \in 1..MaxChain /\ stage' = "hop" /\ limits' = limits
             /\ call' = [call EXCEPT !.reuse = FALSE, !.tried = @ \cup {c}, !.ready = ready]
    BY <1>0, <1>2, <2>2 DEF Locals
  <2>3. CASE /\ chain' = 0
             /\ Continue([call EXCEPT !.reuse = FALSE, !.tried = @ \cup {c}, !.err = "pool",
                                      !.overload = FALSE, !.limited = @ \cup {c}])
             /\ limits' = IF c \in call.limited THEN limits ELSE Raise(limits, c)
    <3> DEFINE r == [call EXCEPT !.reuse = FALSE, !.tried = @ \cup {c}, !.err = "pool",
                                 !.overload = FALSE, !.limited = @ \cup {c}]
    <3>1. /\ r \in Locals /\ r.quota = call.quota /\ r.attempt = call.attempt /\ ~r.reuse
          /\ r.tried = call.tried \cup {c} /\ r.limited = call.limited \cup {c} /\ r.auth = call.auth
          /\ r.back = call.back
      BY <1>0, <1>2 DEF Locals, Errors
    <3>2. Continue(r)
      BY <2>3
    <3> HIDE DEF r
    <3>3. stage' = "attempt" /\ call' = [r EXCEPT !.attempt = call.attempt + 1, !.ready = {}]
      BY <3>1, <3>2 DEF Continue
    <3>4. /\ call' \in Locals /\ call'.quota = r.quota /\ call'.tried = r.tried /\ call'.reuse = r.reuse
          /\ call'.limited = r.limited /\ call'.auth = r.auth /\ call'.back = r.back
          /\ call'.attempt = call.attempt + 1
      BY <2>1, <3>1, <3>3 DEF Locals
    <3> QED
      BY <2>3, <3>1, <3>3, <3>4
  <2> QED
    BY <1>1, <2>2, <2>3
<1>4. /\ limits' \in [Creds -> 0..2]
      /\ \A d \in Creds : (limits'[d] > 0 => d \in call'.limited) /\ limits'[d] <= 1
  <2>1. /\ limits \in [Creds -> 0..2]
        /\ \A d \in Creds : (limits[d] > 0 => d \in call.limited) /\ limits[d] <= 1
    BY <1>0 DEF TypeOK, Counted, ReportedOnce, InCall
  <2>2. CASE limits' = limits
    BY <1>3, <2>1, <2>2
  <2>3. CASE c \notin call.limited /\ limits' = Raise(limits, c) /\ c \in call'.limited
    <3>1. limits[c] = 0
      BY <1>2, <2>1, <2>3
    <3> QED
      BY <1>2, <1>3, <2>1, <2>3, <3>1, RaiseOK
  <2> QED
    BY <1>3, <2>2, <2>3
<1>5. TypeOK'
  <2>1. chain' \in 0..MaxChain
    BY <1>3, UpstreamCallsConstants
  <2> QED
    BY <1>0, <1>1, <1>2, <1>3, <1>4, <2>1 DEF TypeOK, Stages, outer, pool
<1>6. Placed' /\ Drawn'
  BY <1>0, <1>1, <1>2, <1>3, UpstreamCallsConstants DEF Placed, Drawn, InCall, outer, pool
<1>7. Counted'
  BY <1>0, <1>3, <1>4 DEF Counted, ReportedOnce, InCall
<1>8. Remembered'
  BY <1>0, <1>3 DEF Remembered, InCall, outer
<1> QED
  BY <1>5, <1>6, <1>7, <1>8 DEF IInv

(* The passthrough counts its own requests, and stays below the budget.    *)
LEMMA PassKeeps ==
    ASSUME IInv, Pass
    PROVE  IInv'
<1>0. /\ TypeOK /\ Placed /\ Drawn /\ Counted /\ stage = "pass" /\ ~call.reuse
      /\ used = pass.hops /\ sent = used /\ pass.cap <= MaxCalls
      /\ UNCHANGED <<excluded, reopens, compress, call, cred, chain, pool, history>>
  BY DEF IInv, Drawn, Placed, InCall, Pass, PassGivesUp, PassGateFull, PassFails, PassAnswers, outer
<1>1. /\ stage' \in {"pass", "begin", "done"}
      /\ pass' \in [cap : 0..MaxHops, hops : 0..MaxHops, skips : 0..2 * MaxHops, tried : SUBSET CustomApis]
      /\ pass'.cap = pass.cap
      /\ sent' = used' /\ used' \in 0..MaxCalls
      /\ stage' = "pass" => used' = pass'.hops
  <2>1. /\ pass \in [cap : 0..MaxHops, hops : 0..MaxHops, skips : 0..2 * MaxHops, tried : SUBSET CustomApis]
        /\ pass.cap \in Nat /\ pass.hops \in Nat /\ pass.skips \in Nat
        /\ used \in 0..MaxCalls /\ MaxCalls \in Nat /\ MaxHops \in Nat
    BY <1>0, UpstreamCallsConstants DEF TypeOK
  <2>2. CASE PassGivesUp
    BY <1>0, <2>1, <2>2 DEF PassGivesUp, outer
  <2>3. CASE PassGateFull
    <3>1. pass.skips + 1 \in 0..2 * MaxHops
      BY <2>1, <2>3 DEF PassGateFull, PassMayGoOn
    <3>2. \E t \in SUBSET CustomApis : pass' = [pass EXCEPT !.skips = @ + 1, !.tried = t]
      <4>1. pass.tried \in SUBSET CustomApis
            /\ [pass EXCEPT !.skips = @ + 1] = [pass EXCEPT !.skips = @ + 1, !.tried = pass.tried]
        BY <2>1
      <4> QED
        BY <2>3, <4>1 DEF PassGateFull
    <3> QED
      BY <1>0, <2>1, <2>3, <3>1, <3>2 DEF PassGateFull
  <2>4. ASSUME PassFails \/ PassAnswers
        PROVE  used' = used + 1 /\ sent' = used' /\ used' \in 0..MaxCalls /\ pass.hops + 1 \in 0..MaxHops
    <3>1. pass.hops < pass.cap /\ pass.cap \in 0..MaxHops /\ Consume
      BY <2>1, <2>4 DEF PassFails, PassAnswers, PassMayGoOn
    <3>2. used < MaxCalls /\ pass.hops + 1 <= MaxHops
      BY <1>0, <2>1, <3>1
    <3> QED
      BY <1>0, <2>1, <3>1, <3>2 DEF Consume, Min2
  <2>5. CASE PassFails
    <3>1. PICK t \in SUBSET CustomApis : pass' = [pass EXCEPT !.hops = @ + 1, !.tried = t]
      <4>1. PICK a \in CustomApis \ pass.tried, absorb \in BOOLEAN :
               pass' = [pass EXCEPT !.hops = @ + 1,
                                    !.tried = IF absorb /\ pass.hops + 1 < pass.cap THEN @ ELSE @ \cup {a}]
        BY <2>5 DEF PassFails
      <4>2. pass.tried \in SUBSET CustomApis /\ pass.tried \cup {a} \in SUBSET CustomApis
        BY <2>1
      <4> QED
        BY <4>1, <4>2
    <3>2. stage' = "pass"
      BY <1>0, <2>5 DEF PassFails
    <3> QED
      BY <1>0, <2>1, <2>4, <2>5, <3>1, <3>2
  <2>6. CASE PassAnswers
    BY <1>0, <2>1, <2>4, <2>6 DEF PassAnswers, PassMayGoOn
  <2> QED
    BY <2>2, <2>3, <2>5, <2>6 DEF Pass
<1>2. TypeOK'
  BY <1>0, <1>1, UpstreamCallsConstants DEF TypeOK, Stages, pool, history
<1>3. Placed' /\ Drawn' /\ Counted' /\ Remembered'
  BY <1>0, <1>1 DEF Placed, Drawn, Counted, ReportedOnce, Remembered, InCall, history
<1> QED
  BY <1>2, <1>3 DEF IInv

(* A call starts with the request's excluded credentials counted as tried, *)
(* and with nothing reported.                                              *)
LEMMA BeginKeeps ==
    ASSUME IInv, Begin
    PROVE  IInv'
<1>0. /\ TypeOK /\ Drawn /\ stage = "begin" /\ stage' = "attempt" /\ cred' = NoCred /\ chain' = 0
      /\ limits' = Zero /\ strikes' = Zero /\ auths' = Zero
      /\ UNCHANGED <<used, outer, pool, sent>>
  BY DEF IInv, Begin
<1>1. PICK b \in BaseQuotas : call' = StartRound(NoCall(b))
  BY DEF Begin, TriedAtStart
<1>2. /\ call' \in Locals /\ call'.attempt = 0 /\ call'.reuse = FALSE /\ call'.quota \in 0..MaxCalls
      /\ call'.tried = excluded
  <2>1. NoCall(b) \in Locals /\ NoCall(b).tried = excluded
    BY <1>0, NoCallOK DEF NoCall
  <2> HIDE DEF Locals
  <2> QED
    BY <1>0, <1>1, <2>1, StartRoundOK
<1>3. Zero \in [Creds -> 0..2] /\ \A c \in Creds : Zero[c] = 0
  BY DEF Zero
<1>4. TypeOK'
  BY <1>0, <1>2, <1>3, UpstreamCallsConstants DEF TypeOK, Stages, outer, pool
<1>5. Placed' /\ Drawn'
  BY <1>0, <1>2 DEF Placed, Drawn, InCall, outer
<1>6. Counted'
  BY <1>0, <1>3 DEF Counted, ReportedOnce
<1>7. Remembered'
  BY <1>0, <1>2 DEF Remembered, outer
<1> QED
  BY <1>4, <1>5, <1>6, <1>7 DEF IInv

(* Between attempts and between rounds the sets of the call are kept.      *)
LEMMA RoundsKeep ==
    ASSUME IInv, AttemptsEnd \/ AcquireFails \/ AbsorbAgain
    PROVE  IInv'
<1>0. /\ TypeOK /\ call \in Locals /\ Placed /\ Drawn /\ Counted /\ Remembered
      /\ stage \in {"attempt", "rounds"} /\ stage' \in {"attempt", "rounds"}
      /\ UNCHANGED <<used, outer, cred, chain, pool, sent, history>>
  BY DEF IInv, TypeOK, AttemptsEnd, AcquireFails, AbsorbAgain, Continue, Break
<1>1. /\ call' \in Locals /\ call'.tried = call.tried /\ call'.limited = call.limited /\ call'.auth = call.auth
      /\ call'.back = call.back
      /\ call'.reuse => call.reuse
      /\ stage' = "attempt" => call'.attempt <= call'.quota
  <2>1. CASE AttemptsEnd
    BY <1>0, <2>1 DEF AttemptsEnd, Break, Locals
  <2>2. CASE AcquireFails
    <3>1. call.attempt \in Nat /\ call.quota \in 0..MaxCalls /\ call.attempt + 1 <= call.quota /\ MaxCalls \in Nat
      BY <1>0, <2>2, UpstreamCallsConstants DEF AcquireFails, Locals
    <3>2. call.attempt + 1 \in 0..MaxCalls
      BY <3>1
    <3>3. \/ call' = [call EXCEPT !.err = "pool", !.overload = FALSE, !.attempt = call.attempt + 1, !.ready = {}]
          \/ call' = [call EXCEPT !.err = "final", !.attempt = call.attempt + 1, !.ready = {}]
      BY <1>0, <2>2 DEF AcquireFails, Continue, Locals
    <3> QED
      <4>1. CASE call' = [call EXCEPT !.err = "pool", !.overload = FALSE, !.attempt = call.attempt + 1, !.ready = {}]
        BY <1>0, <3>1, <3>2, <4>1 DEF Locals, Errors
      <4>2. CASE call' = [call EXCEPT !.err = "final", !.attempt = call.attempt + 1, !.ready = {}]
        BY <1>0, <3>1, <3>2, <4>2 DEF Locals, Errors
      <4> QED
        BY <3>3, <4>1, <4>2
  <2>3. CASE AbsorbAgain
    <3> DEFINE c == StartRound(call)
    <3>1. /\ c \in Locals /\ c.attempt = 0 /\ c.reuse = FALSE /\ c.quota \in 0..MaxCalls /\ c.round = call.round
          /\ c.tried = call.tried /\ c.limited = call.limited /\ c.auth = call.auth
          /\ c.back = call.back
      <4>1. c.round = call.round
        BY <1>0 DEF StartRound, Locals
      <4> QED
        BY <1>0, <4>1, StartRoundOK
    <3>2. call' = [c EXCEPT !.round = @ + 1] /\ call.round < MaxRounds
      BY <2>3 DEF AbsorbAgain
    <3> HIDE DEF c
    <3>3. c.round + 1 \in 0..MaxRounds
      BY <1>0, <3>1, <3>2, UpstreamCallsConstants DEF Locals
    <3> QED
      BY <3>1, <3>2, <3>3 DEF Locals
  <2> QED
    BY <2>1, <2>2, <2>3
<1>2. TypeOK'
  BY <1>0, <1>1 DEF TypeOK, Stages, outer, pool, history
<1>3. Placed' /\ Drawn'
  BY <1>0, <1>1 DEF Placed, Drawn, InCall, outer, pool
<1>4. Counted' /\ Remembered'
  BY <1>0, <1>1 DEF Counted, ReportedOnce, Remembered, InCall, outer, pool, history
<1> QED
  BY <1>2, <1>3, <1>4 DEF IInv

(* The call returns.                                                       *)
LEMMA ReturnKeeps ==
    ASSUME IInv, Success \/ RoundsEnd
    PROVE  IInv'
<1>0. /\ TypeOK /\ call \in Locals /\ Placed /\ Drawn /\ Counted
      /\ call' = Returned /\ stage' \in {"open", "failed", "fallback"}
      /\ UNCHANGED <<outer, cred, chain, open, gone, history>>
      /\ stage' = "open" => stage = "hop"
  BY DEF IInv, TypeOK, Success, RoundsEnd, Answers, Sends, pool, history
<1>1. call' \in Locals /\ ~call'.reuse
  <2>1. call.base \in BaseQuotas /\ call.err \in Errors
    BY <1>0 DEF Locals
  <2>2. NoCall(call.base) \in Locals /\ NoCall(call.base).reuse = FALSE
    BY <1>0, <2>1, NoCallOK DEF NoCall
  <2> QED
    BY <1>0, <2>1, <2>2 DEF Returned, Locals
<1>2. used' \in 0..MaxCalls /\ sent' = used'
  BY <1>0, UpstreamCallsConstants DEF Success, RoundsEnd, Answers, Sends, BudgetLeft, Consume, Min2, TypeOK, Drawn
<1>3. proven' \in SUBSET Creds
  <2>1. CASE Success
    <3>1. cred \in Creds
      BY <2>1, AtHop DEF Success, Answers, Sends
    <3> QED
      BY <1>0, <2>1, <3>1 DEF Success, TypeOK
  <2>2. CASE RoundsEnd
    BY <1>0, <2>2 DEF RoundsEnd, TypeOK, pool
  <2> QED
    BY <2>1, <2>2
<1>4. TypeOK'
  BY <1>0, <1>1, <1>2, <1>3, UpstreamCallsConstants DEF TypeOK, Stages, outer, history
<1>5. Placed' /\ Drawn' /\ Counted' /\ Remembered'
  BY <1>0, <1>1, <1>2 DEF Placed, Drawn, Counted, ReportedOnce, Remembered, InCall, outer, history
<1> QED
  BY <1>4, <1>5 DEF IInv

(* The fallback model, the compress retries and the reopened streams draw   *)
(* on the same budget.                                                     *)
LEMMA AfterKeeps ==
    ASSUME IInv, Fallback \/ Failed \/ Reopen \/ StreamEnds
    PROVE  IInv'
<1>0. /\ TypeOK /\ Placed /\ Drawn /\ Counted /\ ~call.reuse
      /\ stage \in {"fallback", "failed", "open"}
      /\ stage' \in {"begin", "open", "failed", "done"}
      /\ UNCHANGED <<pass, call, chain, open, gone, history>>
  BY DEF IInv, Placed, InCall, Fallback, Failed, Reopen, StreamEnds, outer, pool, history
<1>1. used' \in 0..MaxCalls /\ sent' = used'
  BY <1>0, UpstreamCallsConstants
     DEF Fallback, Failed, Reopen, StreamEnds, BudgetLeft, Consume, Min2, TypeOK, Drawn
<1>2. /\ proven' \in SUBSET Creds /\ cred' \in Creds \cup {NoCred}
      /\ stage' = "open" => cred' \in Creds
  BY <1>0 DEF Fallback, Failed, Reopen, StreamEnds, pool, TypeOK
<1>3. excluded' \in SUBSET Creds /\ reopens' \in 0..MaxReopens /\ compress' \in 0..MaxCompress
  BY <1>0, UpstreamCallsConstants DEF Fallback, Failed, Reopen, StreamEnds, Placed, outer, TypeOK
<1>4. TypeOK'
  BY <1>0, <1>1, <1>2, <1>3, UpstreamCallsConstants DEF TypeOK, Stages, history
<1>5. Placed' /\ Drawn' /\ Counted' /\ Remembered'
  BY <1>0, <1>1, <1>2 DEF Placed, Drawn, Counted, ReportedOnce, Remembered, InCall, history
<1> QED
  BY <1>4, <1>5 DEF IInv

(* The request starts with an empty account.                               *)
LEMMA InitHolds == Init => IInv
<1> SUFFICES ASSUME Init PROVE IInv
  OBVIOUS
<1>1. PICK b \in BaseQuotas : call = NoCall(b)
  BY DEF Init
<1>2. call \in Locals /\ ~call.reuse
  BY <1>1, UpstreamCallsConstants DEF Init, NoCall, Locals, Errors
<1>3. Zero \in [Creds -> 0..2] /\ \A c \in Creds : Zero[c] = 0
  BY DEF Zero
<1>4. /\ pass \in [cap : 0..MaxHops, hops : 0..MaxHops, skips : 0..2 * MaxHops, tried : SUBSET CustomApis]
      /\ pass.cap <= MaxCalls /\ pass.hops = 0
  BY UpstreamCallsConstants DEF Init
<1>5. TypeOK
  BY <1>2, <1>3, <1>4, UpstreamCallsConstants DEF Init, TypeOK, Stages
<1>6. Placed /\ Drawn /\ Counted /\ Remembered
  BY <1>2, <1>3, <1>4 DEF Init, Placed, Drawn, Counted, ReportedOnce, Remembered, InCall
<1> QED
  BY <1>5, <1>6 DEF IInv

(* Every step of the request keeps the invariant.                          *)
LEMMA Inductive == IInv /\ [Next]_vars => IInv'
<1> SUFFICES ASSUME IInv, [Next]_vars PROVE IInv'
  OBVIOUS
<1>1. CASE Pass
  BY <1>1, PassKeeps
<1>2. CASE Begin
  BY <1>2, BeginKeeps
<1>3. CASE AttemptsEnd \/ AcquireFails \/ AbsorbAgain
  BY <1>3, RoundsKeep
<1>4. CASE TakeCredential
  BY <1>4, TakeKeeps
<1>5. CASE HopFails
  BY <1>5, NextHopKeeps
<1>6. CASE CredentialGateFull
  <2>1. stage' \in {"hop", "attempt"}
    BY <1>6 DEF CredentialGateFull, Continue
  <2> QED
    BY <1>6, <2>1, NextHopKeeps, PlainEnds, EndKeeps
<1>7. CASE ChainBails \/ NoAnswer \/ ClientError \/ Unknown \/ InvalidModel \/ CapacityLow
  BY <1>7, PlainEnds, EndKeeps
<1>8. CASE TemporaryLimit \/ ServerError
  BY <1>8, LimitEnds, EndKeeps
<1>9. CASE RateLimited
  BY <1>9, RateLimitEnds, EndKeeps
<1>10. CASE MonthlyLimit \/ AccountSuspended
  BY <1>10, DisablingEnds, EndKeeps
<1>11. CASE FeatureNotSupported \/ BearerRefreshed \/ RegionRetry
  BY <1>11, CureEnds, EndKeeps
<1>12. CASE BearerInvalidProven \/ AuthFails
  BY <1>12, AuthEnds, EndKeeps
<1>13. CASE Success \/ RoundsEnd
  BY <1>13, ReturnKeeps
<1>14. CASE Fallback \/ Failed \/ Reopen \/ StreamEnds
  BY <1>14, AfterKeeps
<1>15. CASE UNCHANGED vars
  BY <1>15 DEF vars, outer, pool, history, IInv, TypeOK, Placed, Drawn, Counted, ReportedOnce, Remembered,
               Locals, InCall
<1> QED
  BY <1>1, <1>2, <1>3, <1>4, <1>5, <1>6, <1>7, <1>8, <1>9, <1>10, <1>11, <1>12, <1>13, <1>14, <1>15
     DEF Next, Progress, Done, Attempt, Answer, After

(* IInv holds in every reachable state.                                    *)
LEMMA Reachable == Spec => []IInv
BY InitHolds, Inductive, PTL DEF Spec

(* The locals of the call, the counters and the sets stay in their types.  *)
THEOREM TypeCorrect == Spec => []TypeOK
<1>1. IInv => TypeOK
  BY DEF IInv
<1> QED
  BY <1>1, Reachable, PTL

(* ABSOLUTE_MAX_TOTAL_RETRIES bounds the requests sent upstream for one     *)
(* client request, over every nesting of the layers that retry.            *)
THEOREM BudgetKept == Spec => []BudgetHolds
<1>1. IInv => BudgetHolds
  BY UpstreamCallsConstants DEF IInv, TypeOK, Drawn, BudgetHolds
<1> QED
  BY <1>1, Reachable, PTL

(* rate_limited_reported and auth_reported let one call report a credential *)
(* once, however many attempts and rounds come back to it.                 *)
THEOREM ReportsAreOnce == Spec => []ReportedOnce
<1>1. IInv => ReportedOnce
  BY DEF IInv, Counted
<1> QED
  BY <1>1, Reachable, PTL

(* Only TakeCredential goes from an attempt to a hop.                      *)
LEMMA OnlyTake ==
    ASSUME IInv, [Next]_vars, stage = "attempt", stage' = "hop"
    PROVE  TakeCredential
BY DEF vars, Next, Progress, Done, Pass, Attempt, Answer, After, PassGivesUp, PassGateFull, PassFails, PassAnswers,
       Begin, AttemptsEnd, AcquireFails, Continue, Break, ChainBails, CredentialGateFull, HopFails, NoAnswer, Sends,
       Success, ClientError, Unknown, TemporaryLimit, MonthlyLimit, AccountSuspended, InvalidModel,
       FeatureNotSupported, BearerRefreshed, BearerInvalidProven, RegionRetry, AuthFails, CapacityLow, RateLimited,
       ServerError, Answers, AbsorbAgain, RoundsEnd, Fallback, Failed, Reopen, StreamEnds

(* A credential whose stream stayed silent comes back only when the gates   *)
(* leave nothing untried, or after the call has given it back.             *)
THEOREM SilentIsLastResort == Spec => SilentNotReselected
<1> DEFINE A == (stage = "attempt" /\ stage' = "hop" /\ cred' \in excluded /\ ~call.reuse)
                  => \/ call'.ready \subseteq call.tried \cup excluded
                     \/ cred' \in call.back
<1>1. IInv /\ [Next]_vars => A
  <2> SUFFICES ASSUME IInv, [Next]_vars, stage = "attempt", stage' = "hop", cred' \in excluded, ~call.reuse,
                      cred' \notin call.back
               PROVE  call'.ready \subseteq call.tried \cup excluded
    OBVIOUS
  <2>1. PICK ready : /\ cred' \in Selectable(ready, call.tried)
                     /\ call' = [call EXCEPT !.reuse = FALSE, !.tried = @ \cup {cred'}, !.ready = ready]
    BY OnlyTake DEF TakeCredential, Continue
  <2>2. cred' \in call.tried
    BY DEF IInv, Remembered, InCall
  <2>3. ready \subseteq call.tried
    BY <2>1, <2>2 DEF Selectable
  <2>4. call'.ready = ready
    BY <2>1 DEF IInv, TypeOK, Locals
  <2> QED
    BY <2>3, <2>4
<1>2. [Next]_vars /\ IInv => [A]_vars
  BY <1>1
<1> QED
  BY <1>2, Reachable, PTL DEF Spec, SilentNotReselected
=============================================================================
