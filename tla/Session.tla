------------------------------- MODULE Session -------------------------------
(***************************************************************************)
(* A session of the program and the file it keeps the login in: main()     *)
(* (main.c), state_read() and state_write() (state.c) and oauth_login()    *)
(* (login.c).  The file is rewritten in place, any call on it may fail,    *)
(* and the program may be killed at any point.  Requests are made by       *)
(* OAuthRequest.                                                           *)
(***************************************************************************)
EXTENDS OAuthRequest

CONSTANTS
  Tokens,     \* access tokens; each stands for its secret as well
  Permit,     \* the request token and its secret
  Missing,    \* contents of the file: there is none,
  Blank,      \*   it can be parsed, but has no token,
  Empty,      \*   its token is the empty string,
  Half,       \*   it has a token, but not all of token and secret,
  Torn        \*   it cannot be parsed

Contents == Tokens \cup {Missing, Blank, Empty, Half, Torn}

Lost == {Null, Missing, Blank, Empty, Half, Torn}

ASSUME ContentKinds ==
  /\ Missing \notin {Blank, Empty, Half, Torn} /\ Blank \notin {Empty, Half, Torn}
  /\ Empty \notin {Half, Torn} /\ Half # Torn
  /\ Null \notin {Missing, Blank, Empty, Half, Torn, "", "12:00:00", "first"}
  /\ Tokens \cap (Lost \cup {""}) = {} /\ Permit \notin Lost \cup {""}

VARIABLES
  file,       \* what the file holds
  state,      \* what struct piiptyyt_state holds: Blank, Empty, Half or a token
  pc,         \* where main() is
  writing,    \* where state_write() is, "no" if it is not running
  surplus,    \* the file may be longer than what is being written
  wrote,      \* what the last state_write() returned
  window,     \* the main window
  errSet,     \* oauth_login() has filled in *err_p
  permit,     \* what it has been answered for a request token: Permit, Half
              \* (no secret), Empty (an empty one) or Blank (none)
  sent        \* the last message to the service, Null if there is none

requests == <<permit, sent>>
vars == <<file, state, pc, writing, surplus, wrote, window, errSet, requests>>

Stopped == {"ended", "failed", "aborted"}

Goto(l) == pc' = l

-----------------------------------------------------------------------------
(* The file *)

\* What the first so many bytes of `old' are worth, filled up with zeroes,
\* where as many are kept as `new' is long.
TruncatedToZero(old, new) == {Blank}
Truncated(old, new) ==
  IF old = new /\ old \in Tokens THEN {old}
  ELSE {Blank, Torn} \cup
       (IF {old, new} \subseteq Tokens \cup {Half, Empty}
        THEN {old, Empty, IF old = Empty THEN Empty ELSE Half} ELSE {})

\* What the file is worth when some bytes of `new' have gone over `old'.
Overwritten(old, new) ==
  IF old = new /\ old \in Tokens THEN {old}
  ELSE {old, new, Blank, Torn} \cup (IF new = Blank THEN {} ELSE {Half, Empty})

\* open() and fchmod(); a file that was missing is made, of length 0.
OpenFile ==
  /\ writing = "open"
  /\ \/ wrote' = FALSE /\ writing' = "no"
     \/ wrote' = wrote /\ writing' = "truncate"
  /\ file' \in {file} \cup (IF file = Missing THEN {Blank} ELSE {})
  /\ writing' = "truncate" => file' # Missing
  /\ UNCHANGED <<state, pc, surplus, window, errSet, requests>>

\* ftruncate(); that it fails makes no difference.
Truncate ==
  /\ writing = "truncate"
  /\ writing' = "write"
  /\ \/ surplus' = TRUE /\ file' = file
     \/ surplus' = FALSE /\ file' \in Truncated(file, state)
  /\ UNCHANGED <<state, pc, wrote, window, errSet, requests>>

\* write() of all, or of less
Write ==
  /\ writing = "write"
  /\ writing' = "no" /\ surplus' = FALSE
  /\ \/ /\ wrote' = TRUE
        /\ file' \in IF surplus /\ file # state THEN {state, Torn} ELSE {state}
     \/ /\ wrote' = FALSE
        /\ file' \in Overwritten(file, state)
  /\ UNCHANGED <<state, pc, window, errSet, requests>>

\* state_write(), to be followed by what main() does at l
CallWrite(l) == writing' = "open" /\ wrote' = FALSE /\ pc' = l

-----------------------------------------------------------------------------
(* main() *)

At(l) == pc = l /\ writing = "no"

\* g_key_file_load_from_data()
ParsesAnything(content) == content # Missing
Parses(content) == content \notin {Missing, Torn}

\* state_read().  A file that may not be read is taken for an empty one: its
\* GFileError is compared with an errno, and G_FILE_ERROR_ACCES = ENOENT.  A
\* missing one is not, but then it is made, like one that cannot be read or
\* parsed.  state_path() aborts if there can be no directory for it.
Read ==
  /\ At("read")
  /\ \/ /\ Parses(file)
        /\ state' = file /\ Goto("open cache")
        /\ UNCHANGED <<writing, wrote>>
     \/ /\ file # Missing
        /\ state' = Blank /\ Goto("open cache")
        /\ UNCHANGED <<writing, wrote>>
     \/ state' = Blank /\ CallWrite("open cache")
     \/ /\ file = Missing
        /\ Goto("aborted")
        /\ UNCHANGED <<state, writing, wrote>>
  /\ UNCHANGED <<file, surplus, window, errSet, requests>>

\* A login is needed if there is no token, or an empty one.
NextUnlessNull == IF state = Blank THEN "request" ELSE "fetch"
NextWithToken == IF state \in {Blank, Empty} THEN "request" ELSE "fetch"

\* user_cache_open() may fail.  The window is shown before the login.
OpenCache ==
  /\ At("open cache")
  /\ \/ Goto("failed") /\ UNCHANGED window
     \/ /\ window' = "shown"
        /\ Goto(NextWithToken)
  /\ UNCHANGED <<file, state, writing, surplus, wrote, errSet, requests>>

\* The message of each kind, with the credentials c: a token, Half of one, Empty
\* or Blank.  Between signing and sending a second may pass, and the random
\* device never yields the same twice.
Token(c) == IF c = Blank THEN Null ELSE IF c = Empty THEN "" ELSE c
Secret(c) == IF c \in {Blank, Empty, Half} THEN Null ELSE c

Credentials(kind) ==
  CASE kind = "request token" -> Blank
    [] kind = "access token" -> permit
    [] kind = "resource" -> state

Request(kind, pin) ==
  LET new == NewRequest("key", "secret", kind,
                        IF kind = "resource" THEN "GET" ELSE "POST", Null)
      c == Credentials(kind) IN
  CASE kind = "request token" -> new
    [] kind = "access token" ->
         SetVerifier(SetToken(new, Token(c), Secret(c)), pin)
    [] kind = "resource" -> SetToken(new, Token(c), Secret(c))

SignedAt == [now |-> "12:00:00", random |-> "first"]
SentAt == [now |-> "12:00:01", random |-> "second"]

CanSend(kind, pin) ==
  Signable(Prepared(Request(kind, pin), kind, SignedAt.now, SignedAt.random),
           kind)

Send(kind, pin) ==
  /\ CanSend(kind, pin)
  /\ sent' = Message(Request(kind, pin), kind, SignedAt, SentAt)

\* oa_parse_response(): a field that the body does not have is NULL, one without
\* a value ("oauth_token=") the empty string, and of several the last one counts.
Answer(full) == full \cup {Half, Empty, Blank}

\* oauth_login(): the request token.  Whatever body comes with status 200 is
\* taken: oa_parse_response() never returns NULL.
RequestToken ==
  /\ At("request")
  /\ Send("request token", Null)
  /\ \/ Goto("login failed") /\ UNCHANGED permit
     \/ Goto("pin") /\ permit' \in Answer({Permit})
  /\ errSet' = FALSE
  /\ UNCHANGED <<file, state, writing, surplus, wrote, window>>

\* query_pin(): the PIN, or NULL when the dialog is cancelled
QueryPin ==
  /\ At("pin")
  /\ Goto("access") \/ Goto("access without pin")
  /\ UNCHANGED <<file, state, writing, surplus, wrote, window, errSet, requests>>

\* What the service does: a login is only given away for a message that
\* verifies and has the PIN.
Granted(msg) ==
  Verifies(msg, "secret", Secret(permit)) /\ msg.params["oauth_verifier"] = "pin"

\* The access token.  Every failure aborts the program, and so does an answer
\* without the user's id; one without token or secret is taken as it is.
AccessToken ==
  /\ At("access") \/ At("access without pin")
  /\ \/ /\ Send("access token", IF pc = "access" THEN "pin" ELSE Null)
        /\ \/ Goto("aborted") /\ UNCHANGED <<state, writing, wrote>>
           \/ /\ Granted(sent')
              /\ state' \in Answer(Tokens)
              /\ CallWrite("saved")
     \/ /\ ~CanSend("access token", Null)
        /\ Goto("aborted")
        /\ UNCHANGED <<state, writing, wrote, sent>>
  /\ UNCHANGED <<file, surplus, window, errSet, permit>>

\* "login failed" and the error's message, whether there is an error or not
LoginRetried == "request"
AfterLoginFailed == IF errSet THEN "failed" ELSE "aborted"

LoginFailed ==
  /\ At("login failed")
  /\ Goto(AfterLoginFailed)
  /\ UNCHANGED <<file, state, writing, surplus, wrote, window, errSet, requests>>

\* "tokens saved."
Saved ==
  /\ At("saved")
  /\ Goto("fetch")
  /\ UNCHANGED <<file, state, writing, surplus, wrote, window, errSet, requests>>

\* fetch_more_updates().  An answer with another status is put up with; an
\* update that cannot be converted is used all the same, as a NULL pointer.
Fetch ==
  /\ At("fetch")
  /\ \/ Send("resource", Null) /\ (Goto("loop") \/ Goto("aborted"))
     \/ ~CanSend("resource", Null) /\ Goto("aborted") /\ UNCHANGED sent
  /\ UNCHANGED <<file, state, writing, surplus, wrote, window, errSet, permit>>

\* The "destroy" signal quits gtk_main().  The login and the fetch run main
\* loops of their own, so it may come before gtk_main(), which it does not
\* prevent from running then.
ShownEarly == {"request", "pin", "access", "access without pin", "fetch"}

CloseWindow ==
  /\ window = "shown"
  /\ window' = "destroyed"
  /\ \/ /\ pc \in ShownEarly /\ writing = "no"
        /\ UNCHANGED <<pc, writing, wrote>>
     \/ /\ At("loop")
        /\ CallWrite("ended")
  /\ UNCHANGED <<file, state, surplus, errSet, requests>>

\* on_update_interval() sets the timer again and does nothing else.
Tick == At("loop") /\ UNCHANGED vars

\* The program is started again, after it ended or was killed; bytes that were
\* being written may be there or not.
Restart ==
  /\ pc' = "read"
  /\ file' \in IF writing = "write" THEN Overwritten(file, state) ELSE {file}
  /\ state' = Blank /\ writing' = "no" /\ surplus' = FALSE /\ wrote' = FALSE
  /\ window' = "none" /\ errSet' = FALSE
  /\ permit' = Blank /\ sent' = Null

Init ==
  /\ file = Missing /\ state = Blank /\ pc = "read"
  /\ writing = "no" /\ surplus = FALSE /\ wrote = FALSE
  /\ window = "none" /\ errSet = FALSE
  /\ permit = Blank /\ sent = Null

StateWrite == OpenFile \/ Truncate \/ Write

Requests == RequestToken \/ AccessToken \/ Fetch

Main == Read \/ OpenCache \/ LoginFailed \/ Saved

Next == StateWrite \/ Main \/ Requests \/ QueryPin \/ CloseWindow \/ Tick \/ Restart

Spec == Init /\ [][Next]_vars

\* The program's own steps happen.  Servers need not answer (no timeout is ever
\* set), users need not enter a PIN or close the window, and nobody has to start
\* the program.
FairSpec == Spec /\ WF_vars(StateWrite) /\ WF_vars(Main)

-----------------------------------------------------------------------------
(* Properties *)

TypeOK ==
  /\ file \in Contents /\ state \in Tokens \cup {Blank, Empty, Half}
  /\ pc \in Stopped \cup ShownEarly
            \cup {"read", "open cache", "login failed", "saved", "loop"}
  /\ writing \in {"no", "open", "truncate", "write"}
  /\ surplus \in BOOLEAN /\ wrote \in BOOLEAN /\ errSet \in BOOLEAN
  /\ window \in {"none", "shown", "destroyed"}
  /\ permit \in {Permit, Half, Empty, Blank} /\ (sent = Null \/ sent.kind \in Kinds)

\* The file is rewritten in place whenever the program ends.  Still, a session
\* that began with the login in the file never loses it, wherever a call fails
\* or the program is killed: the same bytes are written over themselves.
LoadedLoginIsKept ==
  [][(state \in Tokens /\ file = state) => file' = file]_vars

\* No request for the timeline goes out, and the main loop does not run, with no
\* token at all: an answer to the login that has none ends in an assertion.  An
\* empty one passes that assertion (oauth.c:212), although main.c:361 calls it
\* none; but only the session that was answered with it fetches with it.  Every
\* later one asks for a login again, whatever of it got into the file.
FetchesHaveToken ==
  /\ pc = "loop" => state # Blank
  /\ pc \in {"fetch", "loop"} /\ state = Empty => permit # Blank
  /\ sent # Null /\ sent.kind = "resource" => sent.params["oauth_token"] # Null

\* What is sent is what was signed, with the secrets of the token it names:
\* every message verifies, unless the program only has half of a login or an
\* empty token, which no service knows a secret of.
RequestsVerify ==
  sent # Null /\ Credentials(sent.kind) \notin {Half, Empty} =>
    Verifies(sent, "secret", Secret(Credentials(sent.kind)))

\* A start comes to its end - the main loop, a dialog that waits for the user,
\* or the end of the program - whatever the file, the cache and the servers
\* answer, provided they answer, and if it is not killed and started again for
\* ever.
StartsComeThrough ==
  <>[][~Restart]_vars /\ WF_vars(Requests) =>
    (pc = "read" ~> pc \in {"pin", "loop"} \cup Stopped)

\* defs.h:126: oauth_login() fills in *err_p when it returns false.
LoginErrorIsFilledIn == At("login failed") => errSet
=============================================================================
