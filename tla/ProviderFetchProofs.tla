------------------------- MODULE ProviderFetchProofs -------------------------
(***************************************************************************)
(* The properties of ProviderFetch, for every set of statuses.  The        *)
(* inductive invariant says which calls a walk consists of: the one call   *)
(* of a provider, or the three of the metadata service in their order,     *)
(* each led to by the answer of the one before.                            *)
(***************************************************************************)
EXTENDS ProviderFetch, SequenceTheorems, TLAPS

Order == <<"token", "role", "credentials">>

Leads(i, p, d, c) ==
    /\ p = "IMDS" => c[i].target = Order[i]
    /\ p # "IMDS" => c[i].target = "credentials"
    /\ i = 2 => IF Ok(c[1].answer) THEN c[2].token = Header(c[1].answer)
                ELSE c[2].token = "none" /\ FallsBack(c[1].answer) /\ ~d
    /\ i = 3 => /\ c[3].token = c[2].token
                /\ Ok(c[2].answer) /\ c[2].answer.body # "empty"

Led == \A i \in DOMAIN calls : Leads(i, provider, v1Disabled, calls)

Cached ==
    outcome = "cached" =>
        /\ calls # << >> /\ call.answer # Pending /\ call.target = "credentials"
        /\ Ok(said) /\ said.body = "complete"

(* Each call adds its time to the walk at most once, and no answer is      *)
(* older than its call.                                                    *)
Clocked == spent + left <= Len(calls) * MaxCall /\ age + left <= MaxCall

Inv == TypeOK /\ Led /\ Cached /\ Clocked

LEMMA InitInv == Init => Inv
BY MaxCallAssumption DEF Init, Inv, TypeOK, Led, Leads, Cached, Clocked

(***************************************************************************)
(* A new call at the end leaves the earlier ones as they are.              *)
(***************************************************************************)
LEMMA AskFacts ==
    ASSUME calls \in Seq(CallType), NEW t \in Targets, NEW k \in Tokens, Ask(t, k)
    PROVE  /\ calls' \in Seq(CallType) /\ Len(calls') = Len(calls) + 1
           /\ \A i \in DOMAIN calls : calls'[i] = calls[i]
           /\ DOMAIN calls = 1 .. Len(calls) /\ DOMAIN calls' = 1 .. Len(calls) + 1
           /\ calls'[Len(calls) + 1] = Call(t, k)
           /\ outcome' = outcome /\ left' = MaxCall /\ age' = 0 /\ spent' = spent
<1>1. Call(t, k) \in CallType
  BY DEF Call, CallType
<1> QED
  BY <1>1 DEF Ask

(***************************************************************************)
(* ... and gives the walk the time of one more call.                       *)
(***************************************************************************)
LEMMA MoreTime == ASSUME NEW n \in 0 .. 2, NEW c \in Nat PROVE (n + 1) * c = n * c + c
<1>1. n = 0 \/ n = 1 \/ n = 2
  OBVIOUS
<1> QED
  BY <1>1

LEMMA AskClocked ==
    ASSUME Inv, calls \in Seq(CallType), Len(calls) \in 0 .. 2,
           NEW t \in Targets, NEW k \in Tokens, Ask(t, k)
    PROVE  Clocked' /\ left' \in 0 .. MaxCall /\ spent' \in Nat /\ age' \in Nat
<1>1. /\ Len(calls') = Len(calls) + 1
      /\ left' = MaxCall /\ age' = 0 /\ spent' = spent
  BY AskFacts
<1>2. (Len(calls) + 1) * MaxCall = Len(calls) * MaxCall + MaxCall
  BY MoreTime, MaxCallAssumption
<1>3. spent + left <= Len(calls) * MaxCall /\ left \in 0 .. MaxCall /\ spent \in Nat
  BY DEF Inv, Clocked, TypeOK
<1> DEFINE before == Len(calls) * MaxCall
<1>4. before \in Int
  BY MaxCallAssumption
<1>5. spent <= before
  BY <1>3, <1>4, MaxCallAssumption
<1> HIDE DEF before
<1>6. spent' + left' <= before + MaxCall
  BY <1>1, <1>3, <1>4, <1>5, MaxCallAssumption
<1>7. Len(calls') * MaxCall = before + MaxCall
  BY <1>1, <1>2 DEF before
<1>8. age' + left' <= MaxCall
  BY <1>1, MaxCallAssumption
<1> QED
  BY <1>1, <1>3, <1>6, <1>7, <1>8, MaxCallAssumption DEF Clocked

(***************************************************************************)
(* Failing leaves all but the outcome as it is.                            *)
(***************************************************************************)
LEMMA FailInv ==
    ASSUME Inv, Fail, UNCHANGED <<provider, v1Disabled>>
    PROVE  Inv'
BY DEF Inv, TypeOK, Led, Leads, Cached, Clocked, clocks, Fail

LEMMA BeginInv == ASSUME Inv, Begin PROVE Inv'
<1>1. calls \in Seq(CallType) /\ calls = << >> /\ outcome = "none"
  BY DEF Inv, TypeOK, Begin
<1> DEFINE t == IF provider = "IMDS" THEN "token" ELSE "credentials"
<1>2. t \in Targets /\ Ask(t, "none")
  BY DEF Begin, Targets
<1>3. /\ calls' \in Seq(CallType) /\ Len(calls') = 1 /\ calls'[1] = Call(t, "none")
      /\ DOMAIN calls' = 1 .. 1 /\ outcome' = "none"
  <2>1. t \in Targets /\ "none" \in Tokens /\ Len(calls) + 1 = 1
    BY <1>1, <1>2 DEF Tokens
  <2> HIDE DEF t
  <2>2. /\ calls' \in Seq(CallType) /\ Len(calls') = Len(calls) + 1
        /\ DOMAIN calls' = 1 .. Len(calls) + 1
        /\ calls'[Len(calls) + 1] = Call(t, "none") /\ outcome' = outcome
    BY <1>1, <1>2, <2>1, AskFacts
  <2> QED
    BY <1>1, <2>1, <2>2
<1>4. Clocked' /\ left' \in 0 .. MaxCall /\ spent' \in Nat /\ age' \in Nat
  <2>1. t \in Targets /\ "none" \in Tokens /\ Len(calls) \in 0 .. 2
    BY <1>1, <1>2 DEF Tokens
  <2> HIDE DEF t
  <2> QED
    BY <1>1, <1>2, <2>1, AskClocked
<1>5. TypeOK'
  BY <1>3, <1>4 DEF Inv, TypeOK, Begin
<1>6. Led'
  BY <1>3 DEF Led, Leads, Begin, Call, Order
<1> QED
  BY <1>3, <1>5, <1>6, <1>4 DEF Inv, Cached

(***************************************************************************)
(* There is a last call once there is one.                                 *)
(***************************************************************************)
LEMMA LastFacts ==
    ASSUME Inv, calls # << >>
    PROVE  /\ calls \in Seq(CallType) /\ Len(calls) \in 1 .. 3 /\ DOMAIN calls = 1 .. Len(calls)
           /\ call = calls[Len(calls)] /\ call \in CallType
<1>1. calls \in Seq(CallType) /\ Len(calls) <= 3
  BY DEF Inv, TypeOK
<1>2. Len(calls) \in 1 .. 3 /\ DOMAIN calls = 1 .. Len(calls)
  <2>1. Len(calls) \in Nat /\ Len(calls) # 0 /\ DOMAIN calls = 1 .. Len(calls)
    BY <1>1, EmptySeq, LenProperties
  <2> QED
    BY <1>1, <2>1
<1>3. call = calls[Len(calls)]
  BY DEF call, Last
<1> QED
  BY <1>1, <1>2, <1>3

LEMMA RespondInv == ASSUME Inv, Respond PROVE Inv'
<1> DEFINE n == Len(calls)
<1>1. /\ calls \in Seq(CallType) /\ n \in 1 .. 3 /\ DOMAIN calls = 1 .. n
      /\ calls[n] \in CallType
  BY LastFacts DEF Respond
<1>2. PICK a \in Answers : calls' = [calls EXCEPT ![n].answer = a]
  BY DEF Respond
<1> DEFINE answered == [calls[n] EXCEPT !.answer = a]
<1>3. /\ answered \in CallType /\ answered.target = calls[n].target
      /\ answered.token = calls[n].token
  BY <1>1 DEF CallType
<1>4. calls' = [calls EXCEPT ![n] = answered]
  BY <1>2
<1> HIDE DEF answered
<1>5. /\ calls' \in Seq(CallType) /\ Len(calls') = n /\ DOMAIN calls' = 1 .. n
      /\ \A i \in 1 .. n : i # n => calls'[i] = calls[i]
      /\ calls'[n] = answered
  <2>1. calls' \in Seq(CallType) /\ Len(calls') = n
    BY <1>1, <1>3, <1>4, ExceptSeq
  <2>2. DOMAIN calls' = 1 .. n
    BY <2>1, LenProperties
  <2>3. calls'[n] = answered
    BY <1>1, <1>4
  <2>4. \A i \in 1 .. n : i # n => calls'[i] = calls[i]
    BY <1>1, <1>4
  <2> QED
    BY <2>1, <2>2, <2>3, <2>4
<1> HIDE DEF n
<1>6. \A i \in 1 .. n : calls'[i].target = calls[i].target /\ calls'[i].token = calls[i].token
  BY <1>1, <1>3, <1>5
<1>7. \A i \in 1 .. n : i < n => calls'[i] = calls[i]
  BY <1>1, <1>5
<1>8. UNCHANGED <<provider, v1Disabled, outcome>> /\ outcome # "cached"
  BY DEF Respond, Inv, Cached
<1>9. n <= (IF provider = "IMDS" THEN 3 ELSE 1) /\ (\A i \in 1 .. n - 1 : calls[i].answer # Pending)
  BY DEF Inv, TypeOK, n
<1>10. Led
  BY DEF Inv
<1>11. TypeOK'
  <2>1. \A i \in 1 .. n - 1 : calls'[i].answer # Pending
    BY <1>1, <1>7, <1>9
  <2> QED
    BY <1>5, <1>8, <1>9, <2>1, MaxCallAssumption DEF Inv, TypeOK, Respond
<1>12. Clocked'
  <2>1. Len(calls') = Len(calls) /\ left' = left /\ spent' = spent /\ age' = 0
    BY <1>5 DEF Respond, n
  <2> DEFINE most == Len(calls) * MaxCall
  <2>2. spent + left <= most /\ left \in 0 .. MaxCall
    BY DEF Inv, TypeOK, Clocked
  <2>3. Len(calls') * MaxCall = most
    BY <2>1
  <2> HIDE DEF most
  <2> QED
    BY <2>1, <2>2, <2>3, MaxCallAssumption DEF Clocked
<1>13. Led'
  <2>1. ASSUME NEW i \in 1 .. n PROVE Leads(i, provider, v1Disabled, calls')
    <3>1. /\ calls'[i].target = calls[i].target /\ calls'[i].token = calls[i].token
          /\ i = 2 => calls'[1] = calls[1]
          /\ i = 3 => calls'[2] = calls[2]
      BY <1>1, <1>6, <1>7
    <3>2. Leads(i, provider, v1Disabled, calls)
      BY <1>1, <1>10 DEF Led
    <3> QED
      BY <3>1, <3>2 DEF Leads
  <2> QED
    BY <1>5, <1>8, <2>1 DEF Led
<1> QED
  BY <1>8, <1>11, <1>13, <1>12 DEF Inv, Cached
(***************************************************************************)
(* The metadata service is asked for the next thing once the last call has *)
(* been answered, with a token exactly if there was one to be had.         *)
(***************************************************************************)
LEMMA NextCallInv ==
    ASSUME Inv, UNCHANGED <<provider, v1Disabled>>, provider = "IMDS", outcome = "none",
           calls # << >>, call.answer # Pending,
           NEW t \in Targets, NEW k \in Tokens, Ask(t, k),
           \/ /\ Len(calls) = 1 /\ t = "role"
              /\ IF Ok(said) THEN k = Header(said) ELSE k = "none" /\ FallsBack(said) /\ ~v1Disabled
           \/ /\ Len(calls) = 2 /\ t = "credentials"
              /\ k = call.token /\ Ok(said) /\ said.body # "empty"
    PROVE  Inv'
<1> DEFINE n == Len(calls)
<1>1. /\ calls \in Seq(CallType) /\ n \in 1 .. 2 /\ DOMAIN calls = 1 .. n
      /\ call = calls[n] /\ said = calls[n].answer
  BY LastFacts DEF said
<1>2. /\ calls' \in Seq(CallType) /\ Len(calls') = n + 1 /\ DOMAIN calls' = 1 .. n + 1
      /\ \A i \in 1 .. n : calls'[i] = calls[i]
      /\ calls'[n + 1] = Call(t, k) /\ outcome' = "none"
  BY <1>1, AskFacts
<1>3. calls'[n + 1].target = t /\ calls'[n + 1].token = k
  BY <1>2 DEF Call
<1>4. Led /\ \A i \in 1 .. n : calls[i].answer # Pending
  BY <1>1 DEF Inv, TypeOK
<1>5. n = 1 \/ n = 2
  BY <1>1
<1>6. t = Order[n + 1]
  <2>1. (n = 1 /\ t = "role") \/ (n = 2 /\ t = "credentials")
    BY Zenon
  <2>2. Order[2] = "role" /\ Order[3] = "credentials"
    BY DEF Order
  <2>3. n = 1 => n + 1 = 2
    BY <1>5
  <2>4. n = 2 => n + 1 = 3
    BY <1>5
  <2> HIDE DEF n
  <2> QED
    BY <2>1, <2>2, <2>3, <2>4, Zenon
<1>7. Clocked' /\ left' \in 0 .. MaxCall /\ spent' \in Nat /\ age' \in Nat
  BY <1>1, AskClocked
<1>8. TypeOK'
  BY <1>1, <1>2, <1>4, <1>7 DEF Inv, TypeOK
<1>9. CASE n = 1
  <2>1. /\ calls'[1] = calls[1] /\ calls'[2].target = Order[2] /\ calls'[2].token = k
        /\ DOMAIN calls' = 1 .. 2 /\ calls[1].target = Order[1] /\ t = "role"
        /\ IF Ok(calls[1].answer) THEN k = Header(calls[1].answer)
           ELSE k = "none" /\ FallsBack(calls[1].answer) /\ ~v1Disabled
    BY <1>1, <1>2, <1>3, <1>4, <1>6, <1>9 DEF Led, Leads
  <2>2. Led'
    BY <2>1 DEF Led, Leads, Ok, FallsBack
  <2> QED
    BY <1>2, <1>8, <1>7, <2>2 DEF Inv, Cached
<1>10. CASE n = 2
  <2>1. /\ calls'[1] = calls[1] /\ calls'[2] = calls[2] /\ calls'[3].target = Order[3]
        /\ calls'[3].token = calls[2].token /\ DOMAIN calls' = 1 .. 3
        /\ calls[1].target = Order[1] /\ calls[2].target = Order[2]
        /\ Ok(calls[2].answer) /\ calls[2].answer.body # "empty"
        /\ IF Ok(calls[1].answer) THEN calls[2].token = Header(calls[1].answer)
           ELSE calls[2].token = "none" /\ FallsBack(calls[1].answer) /\ ~v1Disabled
    BY <1>1, <1>2, <1>3, <1>4, <1>6, <1>10 DEF Led, Leads
  <2>2. Led'
    <3> SUFFICES ASSUME NEW i \in 1 .. 3
                 PROVE  /\ calls'[i].target = Order[i]
                        /\ i = 2 => IF Ok(calls'[1].answer) THEN calls'[2].token = Header(calls'[1].answer)
                                    ELSE calls'[2].token = "none" /\ FallsBack(calls'[1].answer) /\ ~v1Disabled
                        /\ i = 3 => /\ calls'[3].token = calls'[2].token
                                    /\ Ok(calls'[2].answer) /\ calls'[2].answer.body # "empty"
      BY <2>1 DEF Led, Leads
    <3>1. calls'[i].target = Order[i]
      BY <2>1
    <3>2. IF Ok(calls'[1].answer) THEN calls'[2].token = Header(calls'[1].answer)
          ELSE calls'[2].token = "none" /\ FallsBack(calls'[1].answer) /\ ~v1Disabled
      BY <2>1
    <3>3. calls'[3].token = calls'[2].token /\ Ok(calls'[2].answer) /\ calls'[2].answer.body # "empty"
      BY <2>1
    <3> QED
      BY <3>1, <3>2, <3>3, Zenon
  <2> QED
    BY <1>2, <1>8, <1>7, <2>2 DEF Inv, Cached
<1> QED
  BY <1>5, <1>9, <1>10

(***************************************************************************)
(* What a call asks for says where in the walk it stands.                  *)
(***************************************************************************)
LEMMA Position ==
    ASSUME Inv, calls # << >>
    PROVE  /\ call.target = "token" => provider = "IMDS" /\ Len(calls) = 1
           /\ call.target = "role" => provider = "IMDS" /\ Len(calls) = 2
           /\ call.target = "credentials" /\ provider = "IMDS" => Len(calls) = 3
<1>1. Len(calls) \in 1 .. 3 /\ Len(calls) \in DOMAIN calls /\ call = calls[Len(calls)]
  BY LastFacts
<1>2. /\ provider = "IMDS" => call.target = Order[Len(calls)]
      /\ provider # "IMDS" => call.target = "credentials"
  BY <1>1 DEF Inv, Led, Leads
<1>3. Len(calls) = 1 \/ Len(calls) = 2 \/ Len(calls) = 3
  BY <1>1
<1>4. Order[1] = "token" /\ Order[2] = "role" /\ Order[3] = "credentials"
  BY DEF Order
<1> QED
  BY <1>2, <1>3, <1>4

LEMMA ProceedInv == ASSUME Inv, Proceed PROVE Inv'
<1>1. /\ calls # << >> /\ call.answer # Pending /\ outcome = "none"
      /\ UNCHANGED <<provider, v1Disabled>>
  BY DEF Proceed
<1>2. /\ call.token \in Tokens /\ Header(said) \in Tokens /\ "none" \in Tokens
      /\ "role" \in Targets /\ "credentials" \in Targets
  BY <1>1, LastFacts DEF CallType, Targets, Tokens, Header
<1>3. CASE call.target = "token" /\ TokenAnswered
  <2>1. CASE Ok(said) /\ Ask("role", Header(said))
    BY <1>1, <1>2, <1>3, <2>1, Position, NextCallInv
  <2>2. CASE ~Ok(said) /\ FallsBack(said) /\ FallbackAllowed /\ Ask("role", "none")
    BY <1>1, <1>2, <1>3, <2>2, Position, NextCallInv DEF FallbackAllowed
  <2>3. CASE Fail
    BY <1>1, <2>3, FailInv
  <2> QED
    BY <1>3, <2>1, <2>2, <2>3 DEF TokenAnswered
<1>4. CASE call.target = "role" /\ RoleAnswered
  <2>1. CASE Ok(said) /\ said.body # "empty" /\ Ask("credentials", call.token)
    BY <1>1, <1>2, <1>4, <2>1, Position, NextCallInv
  <2>2. CASE Fail
    BY <1>1, <2>2, FailInv
  <2> QED
    BY <1>4, <2>1, <2>2 DEF RoleAnswered
<1>5. CASE call.target = "credentials" /\ CredentialsAnswered
  <2>1. CASE Fail
    BY <1>1, <2>1, FailInv
  <2>2. CASE Reads /\ HasKeys /\ outcome' = "cached" /\ UNCHANGED <<calls, clocks>>
    BY <1>1, <1>5, <2>2 DEF Inv, TypeOK, Led, Leads, Cached, Clocked, clocks, Reads, HasKeys, call, said
  <2> QED
    BY <1>5, <2>1, <2>2 DEF CredentialsAnswered
<1> QED
  BY <1>3, <1>4, <1>5 DEF Proceed

LEMMA StepInv == Inv /\ [Next]_vars => Inv'
<1> SUFFICES ASSUME Inv, [Next]_vars PROVE Inv'
  OBVIOUS
<1>1. CASE Begin
  BY <1>1, BeginInv
<1>2. CASE Misconfigured
  BY <1>2, FailInv DEF Misconfigured
<1>3. CASE Respond
  BY <1>3, RespondInv
<1>4. CASE Proceed
  BY <1>4, ProceedInv
<1>5. CASE Again
  BY <1>5, MaxCallAssumption DEF Again, Inv, TypeOK, Led, Leads, Cached, Clocked
<1>6. CASE UNCHANGED vars
  BY <1>6 DEF vars, Inv, TypeOK, Led, Leads, Cached, Clocked, call, said
<1>7. CASE Tick
  <2>1. UNCHANGED <<provider, v1Disabled, calls, outcome>>
    BY <1>7 DEF Tick
  <2>2. Led' /\ Cached'
    BY <2>1 DEF Inv, Led, Leads, Cached, call, said
  <2>3. TypeOK'
    BY <1>7, <2>1, MaxCallAssumption DEF Inv, TypeOK, Tick
  <2>4. Clocked'
    BY <1>7, <2>1, MaxCallAssumption DEF Inv, TypeOK, Clocked, Tick
  <2> QED
    BY <2>2, <2>3, <2>4 DEF Inv
<1> QED
  BY <1>1, <1>2, <1>3, <1>4, <1>5, <1>6, <1>7 DEF Next

(***************************************************************************)
(* The invariant holds of every walk.                                      *)
(***************************************************************************)
THEOREM Invariance == Spec => []Inv
BY InitInv, StepInv, PTL DEF Spec

(***************************************************************************)
(* Every variable keeps its type; a walk makes at most three calls to the  *)
(* metadata service and one to any other provider.                         *)
(***************************************************************************)
THEOREM TypeCorrect == Spec => []TypeOK
<1>1. Inv => TypeOK
  BY DEF Inv
<1> QED
  BY <1>1, Invariance, PTL

(***************************************************************************)
(* A walk takes no longer than its calls may, three for the metadata       *)
(* service, and brings credentials no older than one call.                 *)
(***************************************************************************)
THEOREM WalkInTime == Spec => []WithinBudget
<1>1. Inv => WithinBudget
  <2> SUFFICES ASSUME Inv PROVE WithinBudget
    OBVIOUS
  <2> DEFINE most == IF provider = "IMDS" THEN 3 ELSE 1
  <2>1. Len(calls) \in 0 .. most /\ most \in {1, 3}
    <3>1. calls \in Seq(CallType) /\ Len(calls) <= most
      BY DEF Inv, TypeOK
    <3> QED
      BY <3>1, LenProperties
  <2>2. Len(calls) * MaxCall <= most * MaxCall
    <3> DEFINE n == Len(calls)
    <3> HIDE DEF most, n
    <3>1. n \in Nat /\ n <= most /\ (most = 1 \/ most = 3)
      BY <2>1 DEF n
    <3>2. n = 0 \/ n = 1 \/ n = 2 \/ n = 3
      BY <3>1
    <3>3. n * MaxCall <= most * MaxCall
      BY <3>1, <3>2, MaxCallAssumption
    <3> QED
      BY <3>3 DEF n
  <2>3. spent + left <= Len(calls) * MaxCall /\ age + left <= MaxCall
    BY DEF Inv, Clocked
  <2>4. left \in 0 .. MaxCall /\ spent \in Nat /\ age \in Nat
    BY DEF Inv, TypeOK
  <2>5. spent <= most * MaxCall
    <3> DEFINE a == Len(calls) * MaxCall
               b == most * MaxCall
    <3>1. a \in Int /\ b \in Int
      BY <2>1, MaxCallAssumption
    <3> HIDE DEF a, b
    <3>2. spent + left <= a /\ a <= b
      BY <2>2, <2>3 DEF a, b
    <3>3. spent <= b
      BY <2>4, <3>1, <3>2, MaxCallAssumption
    <3> QED
      BY <3>3 DEF b
  <2> QED
    BY <2>3, <2>4, <2>5, MaxCallAssumption DEF WithinBudget
<1> QED
  BY <1>1, Invariance, PTL

(***************************************************************************)
(* With version 1 disabled nothing is asked of the metadata service before *)
(* a token request has succeeded, nor without its answer as the token,     *)
(* which is empty only if that answer was.                                 *)
(***************************************************************************)
THEOREM ClosedWithoutToken == Spec => []FailsClosed
<1>1. Inv => FailsClosed
  <2> SUFFICES ASSUME Inv, v1Disabled, provider = "IMDS", NEW i \in 2 .. Len(calls)
               PROVE  /\ Ok(calls[1].answer) /\ calls[i].token # "none"
                      /\ calls[i].token = "empty" => calls[1].answer.body = "empty"
    BY DEF FailsClosed
  <2>1. Len(calls) <= 3 /\ DOMAIN calls = 1 .. Len(calls) /\ Len(calls) \in Nat
    <3>1. calls \in Seq(CallType) /\ Len(calls) <= 3
      BY DEF Inv, TypeOK
    <3> QED
      BY <3>1, LenProperties
  <2>2. 2 \in DOMAIN calls /\ i \in DOMAIN calls /\ (i = 2 \/ i = 3)
    BY <2>1
  <2>3. Ok(calls[1].answer) /\ calls[2].token = Header(calls[1].answer)
    BY <2>2 DEF Inv, Led, Leads
  <2>4. calls[i].token = Header(calls[1].answer)
    BY <2>2, <2>3 DEF Inv, Led, Leads
  <2> QED
    BY <2>3, <2>4 DEF Header
<1> QED
  BY <1>1, Invariance, PTL

(***************************************************************************)
(* A call without the header of a token follows only an answer that says   *)
(* that the service issues none.                                           *)
(***************************************************************************)
THEOREM NeverDowngraded == Spec => []NoFalseDowngrade
<1>1. Inv => NoFalseDowngrade
  <2> SUFFICES ASSUME Inv, NEW i \in 2 .. Len(calls), calls[i].token = "none"
               PROVE  calls[1].answer.status \notin (200 .. 299) \cup {429} \cup (500 .. 599)
    BY DEF NoFalseDowngrade
  <2>1. Len(calls) <= 3 /\ DOMAIN calls = 1 .. Len(calls) /\ Len(calls) \in Nat
    <3>1. calls \in Seq(CallType) /\ Len(calls) <= 3
      BY DEF Inv, TypeOK
    <3> QED
      BY <3>1, LenProperties
  <2>2. 2 \in DOMAIN calls /\ i \in DOMAIN calls /\ (i = 2 \/ i = 3)
    BY <2>1
  <2>3. calls[2].token = "none"
    BY <2>2 DEF Inv, Led, Leads
  <2>4. ~Ok(calls[1].answer) /\ FallsBack(calls[1].answer)
    BY <2>2, <2>3 DEF Inv, Led, Leads, Header
  <2>5. calls[1].answer.status \in {0, 403, 404, 405}
    BY <2>4 DEF FallsBack
  <2> DEFINE Versed == (200 .. 299) \cup {429} \cup (500 .. 599)
  <2>6. 0 \notin Versed /\ 403 \notin Versed /\ 404 \notin Versed /\ 405 \notin Versed
    OBVIOUS
  <2> HIDE DEF Versed
  <2>7. calls[1].answer.status \notin Versed
    BY <2>5, <2>6
  <2> QED
    BY <2>7 DEF Versed
<1> QED
  BY <1>1, Invariance, PTL

(***************************************************************************)
(* Credentials are cached only from a successful answer that holds them,   *)
(* for a role that the metadata service has named.                         *)
(***************************************************************************)
THEOREM OnlyFromSuccess == Spec => []CachedFromOk
<1>1. Inv => CachedFromOk
  <2> SUFFICES ASSUME Inv, outcome = "cached" PROVE CachedFromOk
    BY DEF CachedFromOk
  <2>1. calls # << >> /\ call.target = "credentials" /\ Ok(said) /\ said.body = "complete"
    BY DEF Inv, Cached
  <2>2. provider = "IMDS" => Len(calls) = 3 /\ 3 \in DOMAIN calls
    BY <2>1, Position, LastFacts
  <2>3. provider = "IMDS" => Ok(calls[2].answer) /\ calls[2].answer.body # "empty"
    BY <2>2 DEF Inv, Led, Leads
  <2> QED
    BY <2>1, <2>2, <2>3 DEF CachedFromOk
<1> QED
  BY <1>1, Invariance, PTL
=============================================================================
