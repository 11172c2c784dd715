---------------------------- MODULE SessionProofs ----------------------------
(***************************************************************************)
(* Proofs about Session.tla, for any set of tokens.                        *)
(***************************************************************************)
EXTENDS Session, OAuthRequestProofs, TLAPS

\* What is sent is a message of the kind asked for, with the credentials that
\* belong to it, and verifies with their secret.
LEMMA SentVerifies ==
  ASSUME NEW kind \in Kinds, NEW pin, Send(kind, pin)
  PROVE  /\ sent'.kind = kind
         /\ Verifies(sent', "secret", Secret(Credentials(kind)))
<1>. DEFINE req == Request(kind, pin)
<1>1. IsRequest(req)
  BY SettersKeepRequests DEF Request, Kinds
<1>2. req.consumer_secret = "secret"
  BY DEF Request, Kinds, NewRequest, SetToken, SetVerifier
<1>3. req.token_secret = Secret(Credentials(kind))
  BY DEF Request, Kinds, NewRequest, SetToken, SetVerifier, Secret, Credentials
<1>4. /\ SignedAt.now # Null /\ SignedAt.random # Null
      /\ Null # ""
  BY ContentKinds DEF SignedAt
<1>. HIDE DEF req
<1>5. Verifies(Message(req, kind, SignedAt, SentAt),
               req.consumer_secret, req.token_secret)
  BY <1>1, <1>4, SentIsSigned
<1>6. sent' = Message(req, kind, SignedAt, SentAt)
  BY DEF Send, req
<1>7. sent'.kind = kind
  BY <1>6 DEF Message
<1>. QED  BY <1>2, <1>3, <1>5, <1>6, <1>7

\* A request for the timeline that is sent has a token.
LEMMA SentHasToken ==
  ASSUME Send("resource", Null)
  PROVE  state # Blank /\ sent'.params["oauth_token"] # Null
<1>. DEFINE req == Request("resource", Null)
            r == Prepared(req, "resource", SignedAt.now, SignedAt.random)
            signed == Signed(req, "resource", SignedAt.now, SignedAt.random)
            again == Prepared(signed, "resource", SentAt.now, SentAt.random)
<1>1. /\ r.token_key = Token(state) /\ r.extra_params = <<>>
      /\ again.token_key = Token(state) /\ again.extra_params = <<>>
  BY DEF Request, NewRequest, SetToken, Prepared, Signed, Credentials
<1>. HIDE DEF req, r, signed, again
<1>2. ASSUME NEW q, q.extra_params = <<>>
      PROVE  /\ "oauth_token" \in DOMAIN Params(q, "resource")
             /\ Params(q, "resource")["oauth_token"] = q.token_key
  BY <1>2 DEF Params, KindParams, Inserted
<1>3. Token(state) # Null
  BY <1>1, <1>2 DEF Send, CanSend, Signable, r, req
<1>4. sent'.params = RequestParams(signed, "resource", SentAt.now, SentAt.random)
  BY DEF Send, Message, signed, req
<1>5. sent'.params["oauth_token"] = Token(state)
  BY <1>1, <1>2, <1>4 DEF RequestParams, Inserted, Removed, again
<1>. QED  BY <1>3, <1>5 DEF Token

\* So has one for an access token: without a request token there is none.
LEMMA AccessHasToken ==
  ASSUME NEW pin, CanSend("access token", pin)
  PROVE  permit # Blank
<1>. DEFINE r == Prepared(Request("access token", pin), "access token",
                          SignedAt.now, SignedAt.random)
<1>1. r.token_key = Token(permit)
  BY DEF Request, NewRequest, SetToken, SetVerifier, Prepared, Credentials
<1>. HIDE DEF r
<1>2. /\ "oauth_token" \in DOMAIN Params(r, "access token")
      /\ Params(r, "access token")["oauth_token"] = r.token_key
  BY DEF Params, KindParams, Inserted
<1>. QED  BY <1>1, <1>2 DEF CanSend, Signable, Token, r

\* What the file can be worth after a write that stopped anywhere is a kind of
\* contents again, and there is a file.
LEMMA DamageIsContents ==
  ASSUME NEW old \in Contents, NEW new \in Contents \ {Missing, Torn},
         old # Missing
  PROVE  /\ Truncated(old, new) \subseteq Contents \ {Missing}
         /\ Overwritten(old, new) \subseteq Contents \ {Missing}
  BY ContentKinds DEF Truncated, Overwritten, Contents, Lost

\* TypeOK in two parts - the requests' variables and all the others - with the
\* fact that there is a file once state_write() has opened it.
StateTypes ==
  /\ file \in Contents /\ state \in Tokens \cup {Blank, Empty, Half}
  /\ pc \in Stopped \cup ShownEarly
              \cup {"read", "open cache", "login failed", "saved", "loop"}
  /\ writing \in {"no", "open", "truncate", "write"}
  /\ surplus \in BOOLEAN /\ wrote \in BOOLEAN /\ errSet \in BOOLEAN
  /\ window \in {"none", "shown", "destroyed"}
  /\ writing \in {"truncate", "write"} => file # Missing

RequestTypes ==
  /\ permit \in {Permit, Half, Empty, Blank}
  /\ sent = Null \/ sent.kind \in Kinds

\* The steps of state_write() leave contents of a known kind in a file.
LEMMA WriteKeepsTypes == StateTypes /\ StateWrite => StateTypes'
<1>. SUFFICES ASSUME StateTypes, StateWrite PROVE StateTypes'
  OBVIOUS
<1>. USE DEF StateTypes
<1>1. state \in Contents \ {Missing, Torn}
  BY ContentKinds DEF Contents, Lost
<1>2. CASE OpenFile
  BY <1>2 DEF OpenFile, Contents
<1>3. CASE Truncate
  <2>1. file' \in Contents \ {Missing}
    BY <1>1, <1>3, DamageIsContents DEF Truncate
  <2>. QED  BY <1>3, <2>1 DEF Truncate
<1>4. CASE Write
  <2>1. file' \in Contents \ {Missing}
    BY <1>1, <1>4, DamageIsContents, ContentKinds DEF Write, Contents, Lost
  <2>. QED  BY <1>4, <2>1 DEF Write
<1>. QED  BY <1>2, <1>3, <1>4 DEF StateWrite

\* Every step of the program keeps the types of its state; state_read() yields
\* what the file can be parsed to.
LEMMA StepKeepsStateTypes == StateTypes /\ [Next]_vars => StateTypes'
<1>. SUFFICES ASSUME StateTypes, [Next]_vars PROVE StateTypes'
  OBVIOUS
<1>. USE DEF StateTypes, At, Goto, CallWrite, Stopped, ShownEarly
<1>1. CASE StateWrite
  BY <1>1, WriteKeepsTypes
<1>2. CASE Read
  <2>1. Parses(file) => file \in Tokens \cup {Blank, Empty, Half}
    BY DEF Parses, Contents
  <2>. QED  BY <1>2, <2>1 DEF Read
<1>3. CASE OpenCache
  BY <1>3 DEF OpenCache, NextWithToken
<1>4. CASE RequestToken
  BY <1>4 DEF RequestToken
<1>5. CASE QueryPin
  BY <1>5 DEF QueryPin
<1>6. CASE AccessToken
  BY <1>6 DEF AccessToken, Answer
<1>7. CASE LoginFailed
  BY <1>7 DEF LoginFailed, AfterLoginFailed
<1>8. CASE Saved
  BY <1>8 DEF Saved
<1>9. CASE Fetch
  BY <1>9 DEF Fetch
<1>10. CASE CloseWindow
  BY <1>10 DEF CloseWindow
<1>11. CASE Restart
  <2>1. state \in Contents \ {Missing, Torn}
    BY ContentKinds DEF Contents, Lost
  <2>2. file' \in Contents
    BY <1>11, <2>1, DamageIsContents DEF Restart
  <2>. QED  BY <1>11, <2>2 DEF Restart
<1>12. CASE UNCHANGED vars
  BY <1>12 DEF vars
<1>. QED
  BY <1>1, <1>2, <1>3, <1>4, <1>5, <1>6, <1>7, <1>8, <1>9, <1>10, <1>11,
     <1>12 DEF Next, Main, Requests, Tick

\* Every step keeps the types of the requests: only the three steps that send
\* one, or start the program again, touch their variables.
LEMMA StepKeepsRequestTypes == RequestTypes /\ [Next]_vars => RequestTypes'
<1>. SUFFICES ASSUME RequestTypes, [Next]_vars PROVE RequestTypes'
  OBVIOUS
<1>. USE DEF RequestTypes
<1>1. CASE UNCHANGED requests
  <2>1. permit' = permit /\ sent' = sent
    BY <1>1 DEF requests
  <2>. QED  BY <2>1
<1>2. CASE RequestToken
  <2>1. sent'.kind \in Kinds
    BY <1>2, SentVerifies DEF RequestToken, Kinds
  <2>. QED  BY <1>2, <2>1 DEF RequestToken, Answer
<1>3. CASE AccessToken
  <2>1. sent' = sent \/ sent'.kind \in Kinds
    BY <1>3, SentVerifies DEF AccessToken, Kinds
  <2>2. permit' \in {Permit, Half, Empty, Blank}
    BY <1>3 DEF AccessToken
  <2>. QED  BY <2>1, <2>2
<1>4. CASE Fetch
  <2>1. sent' = sent \/ sent'.kind \in Kinds
    BY <1>4, SentVerifies DEF Fetch, Kinds
  <2>2. permit' \in {Permit, Half, Empty, Blank}
    BY <1>4 DEF Fetch
  <2>. QED  BY <2>1, <2>2
<1>5. CASE Restart
  BY <1>5 DEF Restart
<1>6. RequestToken \/ AccessToken \/ Fetch \/ Restart \/ UNCHANGED requests
  BY DEF Next, StateWrite, Main, Requests, Tick, OpenFile, Truncate, Write,
         Read, OpenCache, QueryPin, LoginFailed, Saved, CloseWindow, vars
<1>. QED  BY <1>1, <1>2, <1>3, <1>4, <1>5, <1>6

\* The variables keep their types, and what is read and written stays contents
\* of the kinds the model tells apart.
THEOREM TypeCorrect == Spec => []TypeOK
<1>1. Init => StateTypes /\ RequestTypes
  BY DEF Init, StateTypes, RequestTypes, Contents, Stopped, ShownEarly
<1>2. StateTypes /\ RequestTypes => TypeOK
  BY DEF StateTypes, RequestTypes, TypeOK
<1>. QED  BY <1>1, <1>2, StepKeepsStateTypes, StepKeepsRequestTypes, PTL DEF Spec

-----------------------------------------------------------------------------

\* FetchesHaveToken, said of the time from the answer on: an empty token is not
\* gone on with but from an answer, for which there was a request token.
TokenInv ==
  /\ pc = "loop" => state # Blank
  /\ pc \in {"saved", "fetch", "loop"} /\ state = Empty => permit # Blank
  /\ sent # Null /\ sent.kind = "resource" => sent.params["oauth_token"] # Null

\* Every step keeps TokenInv: past the fetch there is a token, for otherwise
\* there would be nothing to send, and nothing touches it any more.
LEMMA StepKeepsToken == TokenInv /\ [Next]_vars => TokenInv'
<1>. SUFFICES ASSUME TokenInv, [Next]_vars PROVE TokenInv'
  OBVIOUS
<1>. USE DEF TokenInv, At, Goto, CallWrite, requests
<1>1. CASE StateWrite
  BY <1>1 DEF StateWrite, OpenFile, Truncate, Write
<1>2. CASE Read
  BY <1>2 DEF Read
<1>3. CASE OpenCache
  BY <1>3 DEF OpenCache, NextWithToken
<1>4. CASE QueryPin \/ LoginFailed
  BY <1>4 DEF QueryPin, LoginFailed, AfterLoginFailed
<1>5. CASE RequestToken
  BY <1>5, SentVerifies DEF RequestToken, Kinds
<1>6. CASE AccessToken
  <2>1. sent' = sent \/ sent'.kind # "resource"
    BY <1>6, SentVerifies DEF AccessToken, Kinds
  <2>2. pc' = "aborted" \/ (pc' = "saved" /\ permit' = permit /\ permit # Blank)
    BY <1>6, AccessHasToken DEF AccessToken, Send
  <2>. QED  BY <2>1, <2>2, <1>6 DEF AccessToken
<1>7. CASE Fetch
  <2>1. CASE Send("resource", Null)
    BY <1>7, <2>1, SentHasToken DEF Fetch
  <2>2. CASE ~CanSend("resource", Null) /\ Goto("aborted") /\ UNCHANGED sent
    BY <2>2
  <2>. QED  BY <1>7, <2>1, <2>2 DEF Fetch
<1>8. CASE Saved \/ CloseWindow
  BY <1>8 DEF Saved, CloseWindow
<1>9. CASE Restart
  BY <1>9 DEF Restart
<1>10. CASE UNCHANGED vars
  BY <1>10 DEF vars
<1>. QED
  BY <1>1, <1>2, <1>3, <1>4, <1>5, <1>6, <1>7, <1>8, <1>9, <1>10
     DEF Next, Main, Requests, Tick

\* Whatever the file, the servers and the user do, nothing is fetched with no
\* token at all, and with an empty one only right after the answer it was in.
THEOREM TokenComesFirst == Spec => []FetchesHaveToken
<1>1. Init => TokenInv
  BY DEF Init, TokenInv
<1>2. TokenInv => FetchesHaveToken
  BY DEF TokenInv, FetchesHaveToken
<1>. QED  BY <1>1, <1>2, StepKeepsToken, PTL DEF Spec

-----------------------------------------------------------------------------

\* RequestsVerify compares a message with the login it was made for.  That one
\* is only loaded before there is a message.
VerifyInv == RequestsVerify /\ (pc = "read" => sent = Null)

\* Every step keeps VerifyInv: a new message verifies, and credentials change
\* when there is none, or one of another kind.
LEMMA StepKeepsVerified == VerifyInv /\ [Next]_vars => VerifyInv'
<1>. SUFFICES ASSUME VerifyInv, [Next]_vars PROVE VerifyInv'
  OBVIOUS
<1>. USE DEF VerifyInv, RequestsVerify, At, Goto, CallWrite, requests
<1>1. CASE StateWrite
  BY <1>1 DEF StateWrite, OpenFile, Truncate, Write, Credentials
<1>2. CASE Read
  BY <1>2 DEF Read
<1>3. CASE OpenCache \/ QueryPin \/ LoginFailed \/ Saved \/ CloseWindow
  BY <1>3 DEF OpenCache, NextWithToken, QueryPin, LoginFailed, AfterLoginFailed,
              Saved, CloseWindow, Credentials
<1>4. CASE RequestToken
  <2>1. pc' # "read" /\ Credentials("request token")' = Credentials("request token")
    BY <1>4 DEF RequestToken, Credentials
  <2>. QED  BY <1>4, <2>1, SentVerifies DEF RequestToken, Kinds
<1>5. CASE AccessToken
  <2>1. pc' # "read" /\ Credentials("access token")' = Credentials("access token")
    BY <1>5 DEF AccessToken, Credentials
  <2>2. CASE \E pin : Send("access token", pin)
    BY <2>1, <2>2, SentVerifies DEF Kinds
  <2>3. CASE UNCHANGED <<sent, state, permit>>
    BY <2>1, <2>3 DEF Credentials
  <2>. QED  BY <1>5, <2>2, <2>3 DEF AccessToken
<1>6. CASE Fetch
  <2>1. pc' # "read" /\ Credentials("resource")' = Credentials("resource")
    BY <1>6 DEF Fetch, Credentials
  <2>2. CASE Send("resource", Null)
    BY <2>1, <2>2, SentVerifies DEF Kinds
  <2>3. CASE UNCHANGED sent
    BY <1>6, <2>1, <2>3 DEF Fetch, Credentials
  <2>. QED  BY <1>6, <2>2, <2>3 DEF Fetch
<1>7. CASE Restart
  BY <1>7 DEF Restart
<1>8. CASE UNCHANGED vars
  BY <1>8 DEF vars, Credentials
<1>. QED
  BY <1>1, <1>2, <1>3, <1>4, <1>5, <1>6, <1>7, <1>8
     DEF Next, Main, Requests, Tick

\* Whatever is sent is what was signed, with the secrets of the token it names,
\* although it is gathered twice and time passes in between.
THEOREM SentIsVerified == Spec => []RequestsVerify
<1>1. Init => VerifyInv
  BY DEF Init, VerifyInv, RequestsVerify
<1>2. VerifyInv => RequestsVerify
  BY DEF VerifyInv
<1>. QED  BY <1>1, <1>2, StepKeepsVerified, PTL DEF Spec

-----------------------------------------------------------------------------

\* A login that was loaded survives every rewriting of its file, wherever it
\* fails or is cut off.
THEOREM LoadedLoginSurvives == Spec => LoadedLoginIsKept
<1>. DEFINE Kept == state \in Tokens /\ file = state => file' = file
<1>1. ASSUME [Next]_vars, state \in Tokens, file = state
      PROVE  file' = file
  <2>1. file # Missing
    BY <1>1, ContentKinds DEF Lost
  <2>2. Truncated(file, state) = {file} /\ Overwritten(file, state) = {file}
    BY <1>1 DEF Truncated, Overwritten
  <2>3. CASE OpenFile
    BY <2>1, <2>3 DEF OpenFile
  <2>4. CASE Truncate
    BY <2>2, <2>4 DEF Truncate
  <2>5. CASE Write
    BY <1>1, <2>2, <2>5 DEF Write
  <2>6. CASE Restart
    BY <2>2, <2>6 DEF Restart
  <2>7. CASE Main \/ Requests \/ QueryPin \/ CloseWindow \/ UNCHANGED vars
    BY <2>7 DEF Main, Requests, Read, OpenCache, RequestToken, AccessToken, LoginFailed,
                Saved, Fetch, QueryPin, CloseWindow, vars
  <2>. QED
    BY <1>1, <2>3, <2>4, <2>5, <2>6, <2>7 DEF Next, StateWrite, Tick
<1>2. [Next]_vars => [Kept]_vars
  BY <1>1
<1>. QED  BY <1>2, PTL DEF Spec, LoadedLoginIsKept
=============================================================================
