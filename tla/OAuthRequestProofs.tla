-------------------------- MODULE OAuthRequestProofs --------------------------
(***************************************************************************)
(* Proofs about OAuthRequest.tla: what is sent is what was signed, however *)
(* a request has been filled in and whatever time passes in between.       *)
(***************************************************************************)
EXTENDS OAuthRequest, TLAPS

\* req is a struct oauth_request, whatever the values of its fields; its extra
\* parameters are a table.
IsRequest(req) ==
  /\ req = [consumer_key |-> req.consumer_key,
            consumer_secret |-> req.consumer_secret,
            request_url |-> req.request_url,
            request_method |-> req.request_method,
            callback_url |-> req.callback_url,
            token_key |-> req.token_key, token_secret |-> req.token_secret,
            verifier |-> req.verifier, extra_params |-> req.extra_params,
            timestamp |-> req.timestamp, nonce |-> req.nonce,
            signature |-> req.signature]
  /\ DOMAIN req.extra_params \cap Reserved = {}

\* What new and the setters make is a request.
LEMMA SettersKeepRequests ==
  /\ \A key, secret, url, method, callback :
       IsRequest(NewRequest(key, secret, url, method, callback))
  /\ \A req, token, secret :
       IsRequest(req) => IsRequest(SetToken(req, token, secret))
  /\ \A req, verifier : IsRequest(req) => IsRequest(SetVerifier(req, verifier))
<1>1. DOMAIN <<>> = {}
  OBVIOUS
<1>2. \A key, secret, url, method, callback :
        IsRequest(NewRequest(key, secret, url, method, callback))
  BY <1>1 DEF IsRequest, NewRequest
<1>3. ASSUME NEW req, NEW token, NEW secret, IsRequest(req)
      PROVE  IsRequest(SetToken(req, token, secret))
  <2>. DEFINE half == [req EXCEPT !.token_key = token]
              new == [half EXCEPT !.token_secret = secret]
  <2>1. IsRequest(half)
    BY <1>3 DEF IsRequest
  <2>. HIDE DEF half
  <2>2. IsRequest(new)
    BY <2>1 DEF IsRequest
  <2>. QED  BY <2>2 DEF new, half, SetToken
<1>4. ASSUME NEW req, NEW verifier, IsRequest(req)
      PROVE  IsRequest(SetVerifier(req, verifier))
  BY <1>4 DEF IsRequest, SetVerifier
<1>. QED  BY <1>2, <1>3, <1>4

\* So does filling in one more field.
LEMMA FieldsKeepRequests ==
  \A req, v : IsRequest(req) =>
    /\ IsRequest([req EXCEPT !.verifier = v])
    /\ IsRequest([req EXCEPT !.timestamp = v])
    /\ IsRequest([req EXCEPT !.nonce = v])
    /\ IsRequest([req EXCEPT !.signature = v])
<1>1. ASSUME NEW req, NEW v, IsRequest(req)
      PROVE  IsRequest([req EXCEPT !.verifier = v])
  BY <1>1 DEF IsRequest
<1>2. ASSUME NEW req, NEW v, IsRequest(req)
      PROVE  IsRequest([req EXCEPT !.timestamp = v])
  BY <1>2 DEF IsRequest
<1>3. ASSUME NEW req, NEW v, IsRequest(req)
      PROVE  IsRequest([req EXCEPT !.nonce = v])
  BY <1>3 DEF IsRequest
<1>4. ASSUME NEW req, NEW v, IsRequest(req)
      PROVE  IsRequest([req EXCEPT !.signature = v])
  BY <1>4 DEF IsRequest
<1>. QED  BY <1>1, <1>2, <1>3, <1>4

\* gather_params() does not change a request that has been filled in.
LEMMA GatheringIsStable ==
  ASSUME NEW req, IsRequest(req), NEW kind,
         kind = "access token" => req.verifier # Null,
         req.timestamp # Null, req.nonce # Null
  PROVE  \A now, random : Prepared(req, kind, now, random) = req
<1>1. req = [req EXCEPT !.verifier = req.verifier,
                        !.timestamp = req.timestamp, !.nonce = req.nonce]
  BY DEF IsRequest
<1>. QED  BY <1>1 DEF Prepared

\* Parameters never have the names that the code takes out again.
LEMMA ParamsAreNotReserved ==
  ASSUME NEW req, NEW kind \in Kinds, DOMAIN req.extra_params \cap Reserved = {}
  PROVE  DOMAIN Params(req, kind) \cap Reserved = {}
<1>1. DOMAIN KindParams(req, kind) \cap Reserved = {}
  BY DEF KindParams, Kinds, Inserted, Reserved
<1>. QED  BY <1>1 DEF Params, Inserted, Reserved

\* Taking the signature out of what is sent leaves what was gathered.
LEMMA SignatureComesOff ==
  ASSUME NEW params, params = [k \in DOMAIN params |-> params[k]],
         DOMAIN params \cap Reserved = {}, NEW sig, NEW out,
         out = Inserted(
           Removed(params, {"oauth_consumer_secret", "oauth_token_secret"}),
           [oauth_signature |-> sig])
  PROVE  /\ out["oauth_signature"] = sig
         /\ Removed(out, {"oauth_signature"}) = params
<1>. DEFINE kept == Removed(params, {"oauth_consumer_secret", "oauth_token_secret"})
<1>1. kept = params
  BY DEF Removed, Reserved
<1>2. /\ DOMAIN out = DOMAIN params \cup {"oauth_signature"}
      /\ out["oauth_signature"] = sig
      /\ \A k \in DOMAIN params : out[k] = params[k]
  BY <1>1 DEF Inserted, Reserved
<1>3. DOMAIN out \ {"oauth_signature"} = DOMAIN params
  BY <1>2 DEF Reserved
<1>4. Removed(out, {"oauth_signature"}) = params
  BY <1>2, <1>3 DEF Removed
<1>. QED  BY <1>2, <1>4

\* Whatever a request holds and whatever clock and random device show when it
\* is gathered again, the service that knows its secrets finds the signature
\* right.
THEOREM SentIsSigned ==
  ASSUME NEW req, IsRequest(req), NEW kind \in Kinds,
         NEW signing, NEW gathering,
         signing.now # Null, signing.random # Null, Null # ""
  PROVE  Verifies(Message(req, kind, signing, gathering),
                  req.consumer_secret, req.token_secret)
<1>. DEFINE r == Prepared(req, kind, signing.now, signing.random)
            sig == Signature(r.request_method, r.request_url, Params(r, kind),
                             r.consumer_secret, r.token_secret)
            signed == [r EXCEPT !.signature = sig]
            out == RequestParams(signed, kind, gathering.now, gathering.random)
<1>1. signed = Signed(req, kind, signing.now, signing.random)
  BY DEF Signed
<1>2. /\ r.request_method = req.request_method
      /\ r.request_url = req.request_url
      /\ r.consumer_secret = req.consumer_secret
      /\ r.token_secret = req.token_secret
      /\ r.extra_params = req.extra_params
      /\ signed.signature = sig
  BY DEF IsRequest, Prepared
<1>3. /\ Prepared(signed, kind, gathering.now, gathering.random) = signed
      /\ Params(signed, kind) = Params(r, kind)
  <2>1. /\ kind = "access token" => signed.verifier # Null
        /\ signed.timestamp # Null /\ signed.nonce # Null
    BY DEF IsRequest, Prepared
  <2>2. IsRequest(signed)
    <3>. DEFINE filled(v, t, n, sg) ==
           [req EXCEPT !.verifier = v, !.timestamp = t, !.nonce = n,
                       !.signature = sg]
    <3>1. ASSUME NEW v, NEW t, NEW n, NEW sg
          PROVE  IsRequest(filled(v, t, n, sg))
      BY FieldsKeepRequests
    <3>2. signed = filled(signed.verifier, signed.timestamp, signed.nonce,
                          signed.signature)
      BY DEF IsRequest, Prepared
    <3>. HIDE DEF signed, filled
    <3>. QED  BY <3>1, <3>2
  <2>3. /\ signed.callback_url = r.callback_url /\ signed.verifier = r.verifier
        /\ signed.token_key = r.token_key
        /\ signed.extra_params = r.extra_params
        /\ signed.consumer_key = r.consumer_key
        /\ signed.timestamp = r.timestamp /\ signed.nonce = r.nonce
    BY DEF IsRequest, Prepared
  <2>. HIDE DEF r, sig, signed
  <2>4. Params(signed, kind) = Params(r, kind)
    BY <2>3 DEF Params, KindParams
  <2>. QED  BY <2>1, <2>2, <2>4, GatheringIsStable
<1>. HIDE DEF r, sig, signed, out
<1>4. DOMAIN Params(r, kind) \cap Reserved = {}
  BY <1>2, ParamsAreNotReserved DEF IsRequest
<1>5. Params(r, kind) =
        [k \in DOMAIN Params(r, kind) |-> Params(r, kind)[k]]
  BY DEF Params, Inserted
<1>6. out = Inserted(
        Removed(Params(r, kind), {"oauth_consumer_secret", "oauth_token_secret"}),
        [oauth_signature |-> sig])
  BY <1>2, <1>3 DEF RequestParams, out
<1>7. /\ out["oauth_signature"] = sig
      /\ Removed(out, {"oauth_signature"}) = Params(r, kind)
  BY <1>4, <1>5, <1>6, SignatureComesOff
<1>. DEFINE msg == Message(req, kind, signing, gathering)
<1>8. msg.params = out /\ msg.method = req.request_method /\ msg.url = req.request_url
  BY <1>1 DEF Message, out
<1>9. sig = Signature(msg.method, msg.url, Removed(msg.params, {"oauth_signature"}),
                      req.consumer_secret, req.token_secret)
  BY <1>2, <1>7, <1>8 DEF sig
<1>. QED  BY <1>7, <1>8, <1>9 DEF Verifies
=============================================================================
