---------------------------- MODULE PictureSupply ----------------------------
(***************************************************************************)
(* What drawing rows with pictures comes to, without saying where pictures *)
(* are kept.  The program has a stock of pictures, on disk and in memory.  *)
(* It grows only by an answer to a request for the very picture, and       *)
(* shrinks at any time; but what is on display, or about to be, is not     *)
(* lost.  A user's picture is asked for once at a time.                    *)
(***************************************************************************)
CONSTANTS Users, URLs, None

VARIABLES
  asked,      \* asked[u]: the URL that a picture of u is asked for at, or None
  stock,      \* the pictures that the program has
  next,       \* whose picture is about to be shown, None if nobody's
  shown       \* the picture on display, None for the default picture

vars == <<asked, stock, next, shown>>

OfUser(u) == stock \cap ({u} \X URLs)

\* What the stock must not lose.
Secured ==
  /\ shown \in stock \cup {None}
  /\ next # None => OfUser(next) # {}

Init ==
  /\ asked = [u \in Users |-> None]
  /\ stock = {}
  /\ next = None /\ shown = None

Shrink == stock' \subseteq stock /\ Secured'

\* Pictures that are not needed go away.
Lose ==
  /\ Shrink
  /\ UNCHANGED <<asked, next, shown>>

\* A row is drawn without its picture, which may then be asked for.
ShowDefault ==
  /\ next = None
  /\ shown' = None
  /\ \/ UNCHANGED asked
     \/ \E u \in Users, l \in URLs :
          asked[u] = None /\ asked' = [asked EXCEPT ![u] = l]
  /\ Shrink
  /\ UNCHANGED next

\* The drawing of a row of u has found a picture of u, and shows one.
Find(u) ==
  /\ next = None /\ OfUser(u) # {}
  /\ next' = u
  /\ Shrink
  /\ UNCHANGED <<asked, shown>>

Show ==
  /\ next # None
  /\ shown' \in OfUser(next)
  /\ next' = None
  /\ Shrink
  /\ UNCHANGED asked

\* The answer may be of use or not; it may replace another picture.
Answer(u) ==
  /\ next = None /\ asked[u] # None
  /\ asked' = [asked EXCEPT ![u] = None]
  /\ stock' \subseteq stock \cup {<<u, asked[u]>>}
  /\ Secured'
  /\ UNCHANGED <<next, shown>>

\* At the end of the program nothing goes on being asked for.
Stop ==
  /\ asked' = [u \in Users |-> None]
  /\ next' = None /\ shown' \in {shown, None}
  /\ Shrink

Next ==
  \/ Lose
  \/ ShowDefault
  \/ \E u \in Users : Find(u) \/ Answer(u)
  \/ Show
  \/ Stop

Spec == Init /\ [][Next]_vars
=============================================================================
