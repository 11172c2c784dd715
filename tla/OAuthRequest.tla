----------------------------- MODULE OAuthRequest -----------------------------
(***************************************************************************)
(* oauth.c: struct oauth_request, as operators on records.  A request is   *)
(* filled in, signed, and then sent; what is signed and what is sent are   *)
(* gathered separately, at different moments.                              *)
(*                                                                         *)
(* Percent encoding and the sorted base string are injective, so that a    *)
(* base string is as good as the parameters it is made of.  HMAC-SHA1 is   *)
(* taken as ideal: signatures are equal if text and key are.               *)
(***************************************************************************)

CONSTANT Null       \* the NULL pointer

Kinds == {"request token", "access token", "resource"}

\* Members of the parameter table that the code itself takes out or puts over
\* what a caller may have set.
Reserved == {"oauth_consumer_secret", "oauth_token_secret", "oauth_signature"}

\* oa_req_new_with_params()
NewRequest(key, secret, url, method, callback) ==
  [consumer_key |-> key, consumer_secret |-> secret,
   request_url |-> url, request_method |-> method, callback_url |-> callback,
   token_key |-> Null, token_secret |-> Null, verifier |-> Null,
   extra_params |-> <<>>,
   timestamp |-> Null, nonce |-> Null, signature |-> Null]

\* g_hash_table_insert() of all of `more': what was there is replaced.
Inserted(params, more) ==
  [k \in DOMAIN params \cup DOMAIN more |->
     IF k \in DOMAIN more THEN more[k] ELSE params[k]]

Removed(params, S) == [k \in DOMAIN params \ S |-> params[k]]

SetToken(req, token, secret) ==
  [req EXCEPT !.token_key = token, !.token_secret = secret]

SetVerifier(req, verifier) == [req EXCEPT !.verifier = verifier]

SetExtraParams(req, more) ==
  [req EXCEPT !.extra_params = Inserted(@, more)]

\* gather_params() fills in what is not there yet.  The second time it gathers,
\* the clock shows another second and the random device yields other bytes.
PreparedAnew(req, kind, now, random) ==
  [req EXCEPT
     !.verifier = IF kind = "access token" /\ @ = Null THEN "" ELSE @,
     !.timestamp = now,
     !.nonce = random]
Prepared(req, kind, now, random) ==
  [req EXCEPT
     !.verifier = IF kind = "access token" /\ @ = Null THEN "" ELSE @,
     !.timestamp = IF @ = Null THEN now ELSE @,
     !.nonce = IF @ = Null THEN random ELSE @]

KindParams(req, kind) ==
  CASE kind = "request token" ->
         [oauth_callback |->
            IF req.callback_url = Null THEN "" ELSE req.callback_url]
    [] kind = "access token" ->
         [oauth_verifier |-> req.verifier, oauth_token |-> req.token_key]
    [] kind = "resource" ->
         Inserted([oauth_token |-> req.token_key], req.extra_params)

\* What gather_params() returns of a request it has prepared.
Params(req, kind) ==
  Inserted(KindParams(req, kind),
    [oauth_version |-> "1.0", oauth_consumer_key |-> req.consumer_key,
     oauth_signature_method |-> "HMAC-SHA1",
     oauth_timestamp |-> req.timestamp, oauth_nonce |-> req.nonce])

\* oa_sig_base() asserts that each parameter has a value; nothing is signed for
\* a consumer without a key.
SignableAnyway(req, kind) == TRUE
Signable(req, kind) ==
  /\ req.consumer_key # Null
  /\ \A k \in DOMAIN Params(req, kind) : Params(req, kind)[k] # Null

\* oauth_url_escape() of NULL
Escaped(s) == IF s = Null THEN "" ELSE s

Signature(method, url, params, consumerSecret, tokenSecret) ==
  [method |-> method, url |-> url, params |-> params,
   key |-> <<Escaped(consumerSecret), Escaped(tokenSecret)>>]

\* oa_sign_request()
Signed(req, kind, now, random) ==
  LET r == Prepared(req, kind, now, random) IN
  [r EXCEPT !.signature =
     Signature(r.request_method, r.request_url, Params(r, kind),
               r.consumer_secret, r.token_secret)]

\* oa_request_params(), of a request that has been signed
RequestParams(req, kind, now, random) ==
  Inserted(
    Removed(Params(Prepared(req, kind, now, random), kind),
            {"oauth_consumer_secret", "oauth_token_secret"}),
    [oauth_signature |-> req.signature])

\* A request as its makers in main.c and login.c send it: signed, gathered
\* again, and put into the body or the query.
Message(req, kind, signing, gathering) ==
  LET signed == Signed(req, kind, signing.now, signing.random) IN
  [kind |-> kind, method |-> req.request_method, url |-> req.request_url,
   params |-> RequestParams(signed, kind, gathering.now, gathering.random)]

\* What the service does with a message: it signs what it has received with the
\* secrets it knows.
Verifies(msg, consumerSecret, tokenSecret) ==
  msg.params["oauth_signature"] =
    Signature(msg.method, msg.url, Removed(msg.params, {"oauth_signature"}),
              consumerSecret, tokenSecret)
=============================================================================
