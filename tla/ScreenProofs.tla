---------------------------- MODULE ScreenProofs ----------------------------
(***************************************************************************)
(* Theorems about what is shown of a screen: the frames a framer makes of  *)
(* it (Framer), the rows that scrolled off it (Scrollback), and the        *)
(* terminal that draws it (Terminal).                                      *)
(*                                                                         *)
(* For any subscribers, screens and bounds, no watcher is left behind, and *)
(* no delta is for another shape than its keyframe.  Neither is inductive. *)
(* What the framer owes is spread over its wake token, the generation it   *)
(* last looked at, pendingKey, deferred, the locals of the tick under way  *)
(* and the marks of each watcher; IInv says how they stand for one another *)
(* at each step of the run goroutine.                                      *)
(*                                                                         *)
(* For every capacity, the ring keeps what it is given, in order: TLC      *)
(* checks Terminal with a ring of three rows, the program keeps a thousand.*)
(*                                                                         *)
(* Good says what every operation of the terminal keeps: no row has two    *)
(* places among the screens and the ring, every row a screen holds has its *)
(* width, the ring's slots are filled in order, and the rows in them say   *)
(* what scrolled off.  Goes(u, v) says that v is a terminal u may become   *)
(* by the child's output: Good, and what is hidden kept.  Every sequence   *)
(* has a lemma that it Goes; they compose, so what repeats and what a read *)
(* dispatches Goes too.                                                    *)
(***************************************************************************)
EXTENDS Framer, Terminal, FiniteSetTheorems, SequenceTheorems, WellFoundedInduction, TLAPS

View == [rows : [Rows -> Cells \cup {Blank}], head : Heads \cup {Blank},
         shape : Shapes \cup {Blank}, keyShape : Shapes \cup {Blank}]

TypeOK ==
    /\ screen \in Screen /\ gen \in Nat /\ wake \in BOOLEAN /\ geom \in BOOLEAN
    /\ watching \subseteq Subs /\ soon \subseteq Subs /\ told \subseteq Subs
    /\ w \in [Subs -> Watcher] /\ seen \in [Subs -> View]
    /\ pendingKey \in BOOLEAN /\ deferred \in BOOLEAN
    /\ shadow \in Screen \cup {NoScreen} /\ lastGen \in Nat
    /\ pc \in {"sleep", "wait", "look", "diff", "mark", "retry", "deliver"}
    /\ tick \in [gen : Nat, key : BOOLEAN, deferred : BOOLEAN, full : BOOLEAN,
                 changed : SUBSET Rows]

\* Only a watcher in notify mode is told, so only its view comes from the pane.
ToldToRead == \A s \in told : s \in watching /\ w[s].mode = "notify"

\* The framer never knows a generation the pane has not reached.
CountsBehind == lastGen <= gen /\ tick.gen <= gen

\* A keyframe that is owed is in pendingKey, or the watcher is marked for it.
KeysAreOwed == \A s \in watching : w[s].key => pendingKey \/ w[s].pending

\* A watcher that is marked is about to be served, or deferred remembers it.
PutOffIsDeferred == \A s \in watching : w[s].pending => deferred \/ pc = "deliver"

\* Nobody else is marked.
OnlyWatchersAreOwed == \A s \in Subs \ watching : ~w[s].pending

\* Nothing is owed where nobody has watched.
SomebodyWatches == pendingKey \/ deferred => watching # {}

\* What pendingKey and deferred stand for is carried by the wake or by the tick.
WorkWakes ==
    /\ deferred /\ pc = "sleep" => wake
    /\ pc = "diff" => tick.deferred = deferred
    /\ pendingKey => wake \/ pc \in {"wait", "look", "mark"} \/ (pc = "diff" /\ tick.key)

\* Without a wake in the channel the framer has looked at the last generation, ...
SeesTheLatest ==
    watching # {} /\ ~wake =>
        /\ pc = "look" => tick.gen = gen
        /\ pc \notin {"wait", "look"} => lastGen = gen

\* ... and then its shadow is the screen, but for a pane it has yet to compare.
ShadowIsTheScreen ==
    lastGen = gen /\ pc # "diff" =>
        \/ shadow = screen
        \/ pc \in {"sleep", "wait", "look"} /\ (pendingKey \/ watching = {})

\* A client that is sent deltas has put together the shadow, but for what it is owed.
Follows(s) == s \in watching /\ w[s].mode = "frames" /\ ~w[s].key

ShapesAgree ==
    \A s \in Subs : Follows(s) =>
        seen[s].shape = shadow.shape \/ (pc = "mark" /\ tick.full)

RowsAreOwed ==
    \A s \in Subs : Follows(s) => \A y \in Rows : seen[s].rows[y] # shadow.rows[y] =>
        \/ y \in w[s].dirty /\ w[s].pending
        \/ pc = "mark" /\ y \in tick.changed

HeadsAgree ==
    \A s \in Subs : Follows(s) /\ pc # "mark" /\ ~w[s].pending =>
        seen[s].head = shadow.head

\* DeltasFitTheKeyframe, for those too who have left.
OneShape == \A s \in Subs : seen[s].shape = seen[s].keyShape

Owing    == /\ KeysAreOwed /\ PutOffIsDeferred /\ OnlyWatchersAreOwed
            /\ SomebodyWatches /\ WorkWakes
Looking  == CountsBehind /\ SeesTheLatest /\ ShadowIsTheScreen
Pictures == ShapesAgree /\ RowsAreOwed /\ HeadsAgree /\ OneShape

IInv == TypeOK /\ ToldToRead /\ Owing /\ Looking /\ Pictures

\* The invariant holds at the start.
LEMMA InitIInv == Init => IInv
<1> SUFFICES ASSUME Init PROVE IInv
  OBVIOUS
<1>1. TypeOK
  BY DEF Init, TypeOK, Watcher, NewWatcher, View, NoView, NoTick, Screen, NoScreen
<1>2. ToldToRead /\ Owing /\ Looking
  BY DEF Init, ToldToRead, Owing, KeysAreOwed, PutOffIsDeferred, OnlyWatchersAreOwed,
       SomebodyWatches, WorkWakes, Looking, CountsBehind, SeesTheLatest,
       ShadowIsTheScreen, NewWatcher, NoTick
<1>3. Pictures
  BY DEF Init, Pictures, ShapesAgree, RowsAreOwed, HeadsAgree, OneShape, Follows,
       NewWatcher, NoView
<1> QED BY <1>1, <1>2, <1>3 DEF IInv

\* The child paints: the generation moves on and the framer is woken.
LEMMA PaintIInv == ASSUME IInv, Paint PROVE IInv'
<1> USE DEF Paint
<1>1. TypeOK'
  BY FramerBounds DEF IInv, TypeOK, Screen, NoScreen, Watcher, NewWatcher, View, NoView,
       NoTick, framerVars
<1>2. ToldToRead'
  BY DEF IInv, TypeOK, ToldToRead, framerVars, Watcher
<1>3. Owing'
  BY DEF IInv, TypeOK, Owing, KeysAreOwed, PutOffIsDeferred, OnlyWatchersAreOwed,
       SomebodyWatches, WorkWakes, framerVars, Watcher
<1>4. Looking'
  BY DEF IInv, TypeOK, Looking, CountsBehind, SeesTheLatest, ShadowIsTheScreen,
       framerVars, Watcher
<1>5. Pictures'
  BY DEF IInv, TypeOK, Pictures, ShapesAgree, RowsAreOwed, HeadsAgree, OneShape,
       Follows, framerVars, Watcher
<1> QED BY <1>1, <1>2, <1>3, <1>4, <1>5 DEF IInv

\* So does a resize.
LEMMA ResizeIInv == ASSUME IInv, Resize PROVE IInv'
<1> USE DEF Resize
<1>1. TypeOK'
  BY FramerBounds DEF IInv, TypeOK, Screen, NoScreen, Watcher, NewWatcher, View, NoView,
       NoTick, framerVars
<1>2. ToldToRead'
  BY DEF IInv, TypeOK, ToldToRead, framerVars, Watcher
<1>3. Owing'
  BY DEF IInv, TypeOK, Owing, KeysAreOwed, PutOffIsDeferred, OnlyWatchersAreOwed,
       SomebodyWatches, WorkWakes, framerVars, Watcher
<1>4. Looking'
  BY DEF IInv, TypeOK, Looking, CountsBehind, SeesTheLatest, ShadowIsTheScreen,
       framerVars, Watcher
<1>5. Pictures'
  BY DEF IInv, TypeOK, Pictures, ShapesAgree, RowsAreOwed, HeadsAgree, OneShape,
       Follows, framerVars, Watcher
<1> QED BY <1>1, <1>2, <1>3, <1>4, <1>5 DEF IInv

\* A new watcher is owed a keyframe.
LEMMA AddIInv == ASSUME IInv, NEW s \in Subs, Add(s) PROVE IInv'
<1> USE DEF Add
<1>1. TypeOK'
  BY FramerBounds DEF IInv, TypeOK, Screen, NoScreen, Watcher, NewWatcher, View, NoView,
       NoTick, framerVars
<1>2. ToldToRead'
  BY DEF IInv, TypeOK, ToldToRead, framerVars, Watcher
<1>3. Owing'
  BY DEF IInv, TypeOK, Owing, KeysAreOwed, PutOffIsDeferred, OnlyWatchersAreOwed,
       SomebodyWatches, WorkWakes, framerVars, Watcher
<1>4. Looking'
  BY DEF IInv, TypeOK, Looking, CountsBehind, SeesTheLatest, ShadowIsTheScreen,
       framerVars, Watcher
<1>5. Pictures'
  BY DEF IInv, TypeOK, Pictures, ShapesAgree, RowsAreOwed, HeadsAgree, OneShape,
       Follows, framerVars, Watcher
<1> QED BY <1>1, <1>2, <1>3, <1>4, <1>5 DEF IInv

\* A watcher that leaves is owed nothing.
LEMMA RemoveIInv == ASSUME IInv, NEW s \in Subs, Remove(s) PROVE IInv'
<1> USE DEF Remove
<1>1. TypeOK'
  BY FramerBounds DEF IInv, TypeOK, Screen, NoScreen, Watcher, NewWatcher, View, NoView,
       NoTick, framerVars
<1>2. ToldToRead'
  BY DEF IInv, TypeOK, ToldToRead, framerVars, Watcher
<1>3. Owing'
  <2>1. \A other \in Subs : other # s => w'[other] = w[other]
    BY DEF IInv, TypeOK
  <2>2. ~w'[s].pending
    BY DEF IInv, TypeOK, NewWatcher
  <2>3. KeysAreOwed' /\ PutOffIsDeferred' /\ OnlyWatchersAreOwed'
    BY <2>1, <2>2 DEF IInv, TypeOK, Owing, KeysAreOwed, PutOffIsDeferred,
         OnlyWatchersAreOwed
  <2>4. PICK other \in watching : other # s
    OBVIOUS
  <2>5. SomebodyWatches'
    BY <2>4 DEF SomebodyWatches
  <2>6. WorkWakes'
    BY DEF IInv, Owing, WorkWakes
  <2> QED BY <2>3, <2>5, <2>6 DEF Owing
<1>4. Looking'
  BY DEF IInv, TypeOK, Looking, CountsBehind, SeesTheLatest, ShadowIsTheScreen,
       framerVars, Watcher
<1>5. Pictures'
  <2>1. \A other \in Subs : other \in watching' => other \in watching /\ other # s
    OBVIOUS
  <2>2. \A other \in Subs : other # s => w'[other] = w[other] /\ seen'[other] = seen[other]
    BY DEF IInv, TypeOK
  <2>3. ShapesAgree' /\ RowsAreOwed' /\ HeadsAgree'
    BY <2>1, <2>2 DEF IInv, Pictures, ShapesAgree, RowsAreOwed, HeadsAgree, Follows
  <2>4. seen'[s] = NoView
    BY DEF IInv, TypeOK
  <2>5. OneShape'
    BY <2>2, <2>4 DEF IInv, Pictures, OneShape, NoView
  <2> QED BY <2>3, <2>5 DEF Pictures
<1> QED BY <1>1, <1>2, <1>3, <1>4, <1>5 DEF IInv

\* A resync asks for a keyframe.
LEMMA ResyncIInv == ASSUME IInv, NEW s \in Subs, Resync(s) PROVE IInv'
<1> USE DEF Resync
<1>1. TypeOK'
  <2>1. w' \in [Subs -> Watcher]
    BY DEF IInv, TypeOK, Watcher
  <2> QED BY <2>1 DEF IInv, TypeOK, framerVars
<1>2. ToldToRead'
  BY DEF IInv, TypeOK, ToldToRead, framerVars, Watcher
<1>3. Owing'
  BY DEF IInv, TypeOK, Owing, KeysAreOwed, PutOffIsDeferred, OnlyWatchersAreOwed,
       SomebodyWatches, WorkWakes, framerVars, Watcher
<1>4. Looking'
  BY DEF IInv, TypeOK, Looking, CountsBehind, SeesTheLatest, ShadowIsTheScreen,
       framerVars, Watcher
<1>5. Pictures'
  BY DEF IInv, TypeOK, Pictures, ShapesAgree, RowsAreOwed, HeadsAgree, OneShape,
       Follows, framerVars, Watcher
<1> QED BY <1>1, <1>2, <1>3, <1>4, <1>5 DEF IInv

\* A client in notify mode reads the pane.
LEMMA ReadsIInv == ASSUME IInv, NEW s \in Subs, Reads(s) PROVE IInv'
<1> USE DEF Reads
<1>1. TypeOK'
  BY FramerBounds DEF IInv, TypeOK, Screen, NoScreen, Watcher, NewWatcher, View, NoView,
       NoTick, framerVars
<1>2. ToldToRead'
  BY DEF IInv, TypeOK, ToldToRead, framerVars, Watcher
<1>3. Owing'
  BY DEF IInv, TypeOK, Owing, KeysAreOwed, PutOffIsDeferred, OnlyWatchersAreOwed,
       SomebodyWatches, WorkWakes, framerVars, Watcher
<1>4. Looking'
  BY DEF IInv, TypeOK, Looking, CountsBehind, SeesTheLatest, ShadowIsTheScreen,
       framerVars, Watcher
<1>5. Pictures'
  <2>1. ~Follows(s) /\ \A other \in Subs : Follows(other)' => Follows(other) /\ other # s
    BY DEF IInv, TypeOK, ToldToRead, Follows, Watcher, framerVars
  <2>2. \A other \in Subs : other # s => seen'[other] = seen[other]
    BY DEF IInv, TypeOK
  <2>3. ShapesAgree' /\ RowsAreOwed' /\ HeadsAgree'
    BY <2>1, <2>2 DEF IInv, Pictures, ShapesAgree, RowsAreOwed, HeadsAgree, framerVars
  <2>4. seen'[s].shape = seen'[s].keyShape
    BY DEF IInv, TypeOK
  <2>5. OneShape'
    BY <2>2, <2>4 DEF IInv, Pictures, OneShape
  <2> QED BY <2>3, <2>5 DEF Pictures
<1> QED BY <1>1, <1>2, <1>3, <1>4, <1>5 DEF IInv

\* An interval runs out.
LEMMA ExpireIInv == ASSUME IInv, NEW s \in Subs, Expire(s) PROVE IInv'
<1> USE DEF Expire
<1>1. TypeOK'
  BY FramerBounds DEF IInv, TypeOK, Screen, NoScreen, Watcher, NewWatcher, View, NoView,
       NoTick, framerVars
<1>2. ToldToRead'
  BY DEF IInv, TypeOK, ToldToRead, framerVars, Watcher
<1>3. Owing'
  BY DEF IInv, TypeOK, Owing, KeysAreOwed, PutOffIsDeferred, OnlyWatchersAreOwed,
       SomebodyWatches, WorkWakes, framerVars, Watcher
<1>4. Looking'
  BY DEF IInv, TypeOK, Looking, CountsBehind, SeesTheLatest, ShadowIsTheScreen,
       framerVars, Watcher
<1>5. Pictures'
  BY DEF IInv, TypeOK, Pictures, ShapesAgree, RowsAreOwed, HeadsAgree, OneShape,
       Follows, framerVars, Watcher
<1> QED BY <1>1, <1>2, <1>3, <1>4, <1>5 DEF IInv

\* The framer takes the wake.
LEMMA WakesIInv == ASSUME IInv, Wakes PROVE IInv'
<1> USE DEF Wakes
<1>1. TypeOK'
  BY FramerBounds DEF IInv, TypeOK, Screen, NoScreen, Watcher, NewWatcher, View, NoView,
       NoTick, framerVars
<1>2. ToldToRead'
  BY DEF IInv, TypeOK, ToldToRead, framerVars, Watcher
<1>3. Owing'
  BY DEF IInv, TypeOK, Owing, KeysAreOwed, PutOffIsDeferred, OnlyWatchersAreOwed,
       SomebodyWatches, WorkWakes, framerVars, Watcher
<1>4. Looking'
  BY DEF IInv, TypeOK, Looking, CountsBehind, SeesTheLatest, ShadowIsTheScreen,
       framerVars, Watcher
<1>5. Pictures'
  BY DEF IInv, TypeOK, Pictures, ShapesAgree, RowsAreOwed, HeadsAgree, OneShape,
       Follows, framerVars, Watcher
<1> QED BY <1>1, <1>2, <1>3, <1>4, <1>5 DEF IInv

\* It reads the generation.
LEMMA LoadIInv == ASSUME IInv, Load PROVE IInv'
<1> USE DEF Load
<1>1. TypeOK'
  BY FramerBounds DEF IInv, TypeOK, Screen, NoScreen, Watcher, NewWatcher, View, NoView,
       NoTick, framerVars
<1>2. ToldToRead'
  BY DEF IInv, TypeOK, ToldToRead, framerVars, Watcher
<1>3. Owing'
  BY DEF IInv, TypeOK, Owing, KeysAreOwed, PutOffIsDeferred, OnlyWatchersAreOwed,
       SomebodyWatches, WorkWakes, framerVars, Watcher
<1>4. Looking'
  BY DEF IInv, TypeOK, Looking, CountsBehind, SeesTheLatest, ShadowIsTheScreen,
       framerVars, Watcher
<1>5. Pictures'
  BY DEF IInv, TypeOK, Pictures, ShapesAgree, RowsAreOwed, HeadsAgree, OneShape,
       Follows, framerVars, Watcher
<1> QED BY <1>1, <1>2, <1>3, <1>4, <1>5 DEF IInv

\* It looks at what it owes.
LEMMA LookIInv == ASSUME IInv, Look PROVE IInv'
<1>1. CASE Idle
  <2>1. /\ pc' = "sleep" /\ tick' = NoTick /\ geom' = FALSE
        /\ UNCHANGED <<screen, gen, wake, watching, w, soon, pendingKey, deferred, shadow,
                       lastGen, seen, told>>
    BY <1>1 DEF Look, framerVars
  <2>2. TypeOK' /\ ToldToRead'
    BY <2>1 DEF IInv, TypeOK, ToldToRead, NoTick
  <2>3. Owing'
    BY <1>1, <2>1 DEF Look, Idle, IInv, TypeOK, Owing, KeysAreOwed, PutOffIsDeferred,
         OnlyWatchersAreOwed, SomebodyWatches, WorkWakes
  <2>4. Looking'
    BY <1>1, <2>1 DEF Look, Idle, IInv, TypeOK, Looking, CountsBehind, SeesTheLatest,
         ShadowIsTheScreen, NoTick
  <2>5. Pictures'
    BY <2>1 DEF Look, IInv, Pictures, ShapesAgree, RowsAreOwed, HeadsAgree, OneShape,
         Follows
  <2> QED BY <2>2, <2>3, <2>4, <2>5 DEF IInv
<1>2. CASE ~Idle
  <2>1. /\ pc' = "diff" /\ lastGen' = tick.gen /\ geom' = FALSE
        /\ tick' = [gen |-> tick.gen, key |-> pendingKey, deferred |-> deferred,
                    full |-> geom, changed |-> {}]
        /\ UNCHANGED <<screen, gen, wake, watching, w, soon, pendingKey, deferred, shadow,
                       seen, told>>
    BY <1>2 DEF Look, framerVars
  <2>2. tick.gen \in Nat /\ pendingKey \in BOOLEAN /\ deferred \in BOOLEAN /\ geom \in BOOLEAN
    BY DEF IInv, TypeOK
  <2>3. tick' \in [gen : Nat, key : BOOLEAN, deferred : BOOLEAN, full : BOOLEAN,
                   changed : SUBSET Rows]
    BY <2>1, <2>2
  <2>4. /\ tick'.gen = tick.gen /\ tick'.key = pendingKey /\ tick'.deferred = deferred
    BY <2>1
  <2>5. TypeOK' /\ ToldToRead'
    BY <2>1, <2>3 DEF IInv, TypeOK, ToldToRead
  <2>6. Owing'
    BY <2>1, <2>4 DEF IInv, Owing, KeysAreOwed, PutOffIsDeferred,
         OnlyWatchersAreOwed, SomebodyWatches, WorkWakes, Look
  <2>7. Looking'
    BY <2>1, <2>2, <2>4 DEF IInv, TypeOK, Looking, CountsBehind, SeesTheLatest,
         ShadowIsTheScreen, Look
  <2>8. Pictures'
    BY <2>1 DEF Look, IInv, Pictures, ShapesAgree, RowsAreOwed, HeadsAgree, OneShape,
         Follows
  <2> QED BY <2>5, <2>6, <2>7, <2>8 DEF IInv
<1> QED BY <1>1, <1>2

\* The shadow takes over the screen.
LEMMA DiffIInv == ASSUME IInv, Diff PROVE IInv'
<1>1. /\ pc = "diff" /\ shadow' = screen
      /\ UNCHANGED <<screen, gen, wake, geom, watching, w, soon, pendingKey, deferred,
                     lastGen, seen, told>>
  BY DEF Diff, framerVars
<1>2. tick.deferred = deferred /\ shadow' \in Screen
  BY <1>1 DEF IInv, TypeOK, Owing, WorkWakes
<1>3. CASE NothingNew
  <2>1. /\ tick' = NoTick /\ pc' = IF deferred THEN "retry" ELSE "sleep"
        /\ ~tick.key /\ shadow'.rows = shadow.rows /\ shadow'.head = shadow.head
        /\ shadow'.shape = shadow.shape
    BY <1>1, <1>2, <1>3 DEF Diff, NothingNew, Full
  <2>2. TypeOK' /\ ToldToRead'
    BY <1>1, <1>2, <2>1 DEF IInv, TypeOK, ToldToRead, NoTick
  <2>3. Owing'
    BY <1>1, <2>1 DEF IInv, Owing, KeysAreOwed, PutOffIsDeferred,
         OnlyWatchersAreOwed, SomebodyWatches, WorkWakes
  <2>4. Looking'
    BY <1>1, <2>1 DEF IInv, TypeOK, Looking, CountsBehind, SeesTheLatest,
         ShadowIsTheScreen, NoTick
  <2>5. Pictures'
    BY <1>1, <2>1 DEF IInv, Pictures, ShapesAgree, RowsAreOwed, HeadsAgree, OneShape,
         Follows
  <2> QED BY <2>2, <2>3, <2>4, <2>5 DEF IInv
<1>4. CASE ~NothingNew
  <2> DEFINE changed == {y \in Rows : Full \/ screen.rows[y] # shadow.rows[y]}
  <2>1. /\ pc' = "mark"
        /\ tick' = [gen |-> 0, key |-> FALSE, deferred |-> FALSE, full |-> Full,
                    changed |-> changed]
    BY <1>4 DEF Diff
  <2>2. Full \in BOOLEAN /\ changed \subseteq Rows
    BY DEF Full, IInv, TypeOK
  <2>3. ~Full => shadow'.shape = shadow.shape
    BY <1>1 DEF Full
  <2>4. \A y \in Rows : y \in changed \/ shadow'.rows[y] = shadow.rows[y]
    BY <1>1
  <2> HIDE DEF changed
  <2>5. /\ tick' \in [gen : Nat, key : BOOLEAN, deferred : BOOLEAN, full : BOOLEAN,
                      changed : SUBSET Rows]
        /\ tick'.gen = 0 /\ tick'.full = Full /\ tick'.changed = changed
    BY <2>1, <2>2
  <2>6. TypeOK' /\ ToldToRead'
    BY <1>1, <1>2, <2>1, <2>5 DEF IInv, TypeOK, ToldToRead
  <2>7. Owing'
    BY <1>1, <2>1 DEF IInv, Owing, KeysAreOwed, PutOffIsDeferred,
         OnlyWatchersAreOwed, SomebodyWatches, WorkWakes
  <2>8. Looking'
    BY <1>1, <2>1, <2>5 DEF IInv, TypeOK, Looking, CountsBehind, SeesTheLatest,
         ShadowIsTheScreen
  <2>9. Pictures'
    BY <1>1, <2>1, <2>3, <2>4, <2>5 DEF IInv, Pictures, ShapesAgree, RowsAreOwed,
         HeadsAgree, OneShape, Follows
  <2> QED BY <2>6, <2>7, <2>8, <2>9 DEF IInv
<1> QED BY <1>3, <1>4

\* Every watcher is marked.
LEMMA MarkIInv == ASSUME IInv, Mark PROVE IInv'
<1> USE DEF Mark, Marked
<1>1. TypeOK'
  BY FramerBounds DEF IInv, TypeOK, Screen, NoScreen, Watcher, NewWatcher, View, NoView,
       NoTick, framerVars
<1>2. ToldToRead'
  BY DEF IInv, TypeOK, ToldToRead, framerVars, Watcher
<1>3. Owing'
  BY DEF IInv, TypeOK, Owing, KeysAreOwed, PutOffIsDeferred, OnlyWatchersAreOwed,
       SomebodyWatches, WorkWakes, framerVars, Watcher
<1>4. Looking'
  <2>1. tick'.gen = 0
    BY DEF NoTick
  <2> QED BY <2>1 DEF IInv, TypeOK, Looking, CountsBehind, SeesTheLatest, ShadowIsTheScreen
<1>5. Pictures'
  BY DEF IInv, TypeOK, Pictures, ShapesAgree, RowsAreOwed, HeadsAgree, OneShape,
       Follows, framerVars, Watcher
<1> QED BY <1>1, <1>2, <1>3, <1>4, <1>5 DEF IInv

\* Deferred work is tried again.
LEMMA RetryIInv == ASSUME IInv, Retry PROVE IInv'
<1> USE DEF Retry
<1>1. TypeOK'
  BY FramerBounds DEF IInv, TypeOK, Screen, NoScreen, Watcher, NewWatcher, View, NoView,
       NoTick, framerVars
<1>2. ToldToRead'
  BY DEF IInv, TypeOK, ToldToRead, framerVars, Watcher
<1>3. Owing'
  BY DEF IInv, TypeOK, Owing, KeysAreOwed, PutOffIsDeferred, OnlyWatchersAreOwed,
       SomebodyWatches, WorkWakes, framerVars, Watcher
<1>4. Looking'
  BY DEF IInv, TypeOK, Looking, CountsBehind, SeesTheLatest, ShadowIsTheScreen,
       framerVars, Watcher
<1>5. Pictures'
  BY DEF IInv, TypeOK, Pictures, ShapesAgree, RowsAreOwed, HeadsAgree, OneShape,
       Follows, framerVars, Watcher
<1> QED BY <1>1, <1>2, <1>3, <1>4, <1>5 DEF IInv

\* Whoever is ready is served.
LEMMA DeliverIInv == ASSUME IInv, Deliver PROVE IInv'
<1> USE DEF Deliver, Ready, Served, PutOff, NewWatcher
<1>1. TypeOK'
  <2>1. w' \in [Subs -> Watcher]
    BY DEF IInv, TypeOK, Watcher
  <2>2. ASSUME NEW other \in Subs PROVE Shown(other) \in View
    BY DEF IInv, TypeOK, Shown, View, Screen, NoScreen
  <2>3. seen' \in [Subs -> View]
    BY <2>2 DEF IInv, TypeOK
  <2>4. deferred' \in BOOLEAN /\ wake' \in BOOLEAN
    BY DEF IInv, TypeOK
  <2> QED BY <2>1, <2>3, <2>4 DEF IInv, TypeOK, framerVars
<1>2. ToldToRead'
  BY DEF IInv, TypeOK, ToldToRead, framerVars, Watcher
<1>3. Owing'
  BY DEF IInv, TypeOK, Owing, KeysAreOwed, PutOffIsDeferred, OnlyWatchersAreOwed,
       SomebodyWatches, WorkWakes, framerVars, Watcher
<1>4. Looking'
  BY DEF IInv, TypeOK, Looking, CountsBehind, SeesTheLatest, ShadowIsTheScreen,
       framerVars, Watcher
<1>5. Pictures'
  BY DEF IInv, TypeOK, Pictures, ShapesAgree, RowsAreOwed, HeadsAgree, OneShape,
       Follows, framerVars, Watcher, Shown, View
<1> QED BY <1>1, <1>2, <1>3, <1>4, <1>5 DEF IInv

\* A step that changes none of the variables.
LEMMA StutterIInv == ASSUME IInv, UNCHANGED vars PROVE IInv'
<1> USE DEF vars, framerVars
<1>1. TypeOK' /\ ToldToRead'
  BY DEF IInv, TypeOK, ToldToRead
<1>2. Owing'
  BY DEF IInv, Owing, KeysAreOwed, PutOffIsDeferred, OnlyWatchersAreOwed,
       SomebodyWatches, WorkWakes
<1>3. Looking'
  BY DEF IInv, Looking, CountsBehind, SeesTheLatest, ShadowIsTheScreen
<1>4. Pictures'
  BY DEF IInv, Pictures, ShapesAgree, RowsAreOwed, HeadsAgree, OneShape, Follows
<1> QED BY <1>1, <1>2, <1>3, <1>4 DEF IInv

LEMMA NextIInv == IInv /\ [Next]_vars => IInv'
<1> SUFFICES ASSUME IInv, [Next]_vars PROVE IInv'
  OBVIOUS
<1>1. CASE Paint
  BY <1>1, PaintIInv
<1>2. CASE Resize
  BY <1>2, ResizeIInv
<1>3. CASE Run
  BY <1>3, WakesIInv, LoadIInv, LookIInv, DiffIInv, MarkIInv, RetryIInv, DeliverIInv
     DEF Run
<1>4. ASSUME NEW s \in Subs, Add(s) \/ Remove(s) \/ Resync(s) \/ Expire(s) \/ Reads(s)
      PROVE  IInv'
  BY <1>4, AddIInv, RemoveIInv, ResyncIInv, ExpireIInv, ReadsIInv
<1>5. CASE UNCHANGED vars
  BY <1>5, StutterIInv
<1> QED BY <1>1, <1>2, <1>3, <1>4, <1>5 DEF Next

LEMMA InvariantHolds == Spec => []IInv
BY InitIInv, NextIInv, PTL DEF Spec

\* For any screens, watchers and bounds, every variable of the framer keeps its type.
THEOREM TypeCorrect == Spec => []TypeOK
<1>1. IInv => TypeOK
  BY DEF IInv
<1> QED BY <1>1, InvariantHolds, PTL

\* A framer that sleeps with no wake in its channel owes nothing: every watcher in
\* frames mode shows the screen, every other has been told of it or has read it.
LEMMA SleepingOwesNothing == IInv => AsleepMeansCurrent
<1> SUFFICES ASSUME IInv, pc = "sleep", ~wake, NEW s \in watching PROVE Settled(s)
  BY DEF AsleepMeansCurrent
<1>1. s \in Subs /\ ~pendingKey /\ ~deferred
  BY DEF IInv, TypeOK, Owing, WorkWakes
<1>2. ~w[s].pending /\ ~w[s].key
  BY <1>1 DEF IInv, Owing, KeysAreOwed, PutOffIsDeferred
<1>3. shadow = screen
  BY <1>1 DEF IInv, Looking, SeesTheLatest, ShadowIsTheScreen
<1>4. ASSUME w[s].mode = "frames" PROVE Current(s)
  <2>1. Follows(s)
    BY <1>2, <1>4 DEF Follows
  <2>2. seen[s].shape = screen.shape /\ seen[s].head = screen.head
    BY <1>1, <1>2, <1>3, <2>1 DEF IInv, Pictures, ShapesAgree, HeadsAgree
  <2>3. \A y \in Rows : seen[s].rows[y] = screen.rows[y]
    BY <1>1, <1>2, <1>3, <2>1 DEF IInv, Pictures, RowsAreOwed
  <2>4. seen[s].rows = screen.rows
    BY <1>1, <2>3 DEF IInv, TypeOK, View, Screen
  <2> QED BY <2>2, <2>4 DEF Current
<1> QED BY <1>2, <1>4 DEF Settled

\* A row the shadow has swallowed is still owed to whoever was not shown it.
LEMMA SwallowedIsOwed == IInv => StaleRowsAreOwed
BY DEF IInv, TypeOK, Pictures, RowsAreOwed, Follows, StaleRowsAreOwed

\* No watcher is left behind, by a framer asleep or by one whose shadow has moved on.
THEOREM NobodyLeftBehind == Spec => []NobodyIsLeftBehind
<1>1. IInv => NobodyIsLeftBehind
  BY SleepingOwesNothing, SwallowedIsOwed DEF NobodyIsLeftBehind
<1> QED BY <1>1, InvariantHolds, PTL

\* No client applies a delta to a picture of another shape.
THEOREM DeltasFit == Spec => []DeltasFitTheKeyframe
<1>1. IInv => DeltasFitTheKeyframe
  BY DEF IInv, TypeOK, Pictures, OneShape, DeltasFitTheKeyframe
<1> QED BY <1>1, InvariantHolds, PTL

-----------------------------------------------------------------------------
(* The scrollback ring.                                                    *)

\* A ring of capacity C over the rows R.
Ring(C, R) ==
    {r \in [sb : [0 .. C - 1 -> R \cup {NoRow}], head : IF C = 0 THEN {0} ELSE 0 .. C - 1, len : 0 .. C,
            cap : {C}, off : 0 .. C] : r.off <= r.len}

\* Slot k of the ring, counted round from `head`.
At(C, k) == IF k >= C THEN k - C ELSE k

\* The remainder sbRow takes is one subtraction.
LEMMA Wraps ==
    ASSUME NEW C \in Nat \ {0}, NEW k \in 0 .. 2 * C - 1
    PROVE  k % C = At(C, k)
  BY DEF At

\* Where sbRow finds the i-th oldest row.
LEMMA Finds ==
    ASSUME NEW C \in Nat \ {0}, NEW R, NEW r \in Ring(C, R), NEW i \in 0 .. r.len - 1
    PROVE  sbRow(r, i) = r.sb[At(C, r.head - r.len + i + C)]
<1>1. r.head - r.len + i + r.cap \in 0 .. 2 * C - 1 /\ r.cap = C /\ i \in Int /\ r.len \in Int
  BY DEF Ring
<1>2. (r.head - r.len + i + r.cap) % C = At(C, r.head - r.len + i + r.cap) BY <1>1, Wraps
<1> QED BY <1>1, <1>2 DEF sbRow

\* After a push (head h and length n become g and m), the slot of the newest row
\* is the one just written, and the slot of any other is where it was.
Placed(C, h, n, g, m) ==
    /\ m \in 1 .. C /\ g \in 0 .. C - 1
    /\ At(C, g - m + (m - 1) + C) = h
    /\ \A i \in 0 .. m - 2 :
         LET j == IF n = C THEN i + 1 ELSE i
         IN /\ j \in 0 .. n - 1
            /\ At(C, g - m + i + C) = At(C, h - n + j + C)
            /\ At(C, h - n + j + C) \in 0 .. C - 1 \ {h}

LEMMA Slots ==
    ASSUME NEW C \in Nat \ {0}, NEW h \in 0 .. C - 1, NEW n \in 0 .. C, NEW g, NEW m,
           m = (IF n = C THEN C ELSE n + 1), g = (IF h + 1 = C THEN 0 ELSE h + 1)
    PROVE  Placed(C, h, n, g, m)
<1>1. m \in 1 .. C /\ g \in 0 .. C - 1 OBVIOUS
<1>2. At(C, g - m + (m - 1) + C) = h BY <1>1 DEF At
<1>3. ASSUME NEW i \in 0 .. m - 2, NEW j, j = (IF n = C THEN i + 1 ELSE i)
      PROVE  /\ j \in 0 .. n - 1
             /\ At(C, g - m + i + C) = At(C, h - n + j + C)
             /\ At(C, h - n + j + C) \in 0 .. C - 1 \ {h}
  <2>1. j \in 0 .. n - 1 BY <1>1, <1>3
  <2>2. CASE n = C BY <1>1, <1>3, <2>1, <2>2 DEF At
  <2>3. CASE n < C BY <1>1, <1>3, <2>1, <2>3 DEF At
  <2> QED BY <2>1, <2>2, <2>3
<1> QED BY <1>1, <1>2, <1>3 DEF Placed

\* An empty ring is one, and taking a row keeps it one.
LEMMA NewIsRing == ASSUME NEW C \in Nat, NEW R PROVE newRing(C) \in Ring(C, R)
  BY DEF newRing, Ring

LEMMA PushIsRing ==
    ASSUME NEW C \in Nat \ {0}, NEW R, NEW r \in Ring(C, R), NEW row \in R
    PROVE  pushScrollback(r, row) \in Ring(C, R)
  BY DEF pushScrollback, Ring, AtCap

\* The row pushed is the newest, and the others keep their order: each is one
\* older where the ring was full, and the oldest is the one dropped.
THEOREM PushKeepsOrder ==
    ASSUME NEW C \in Nat \ {0}, NEW R, NEW r \in Ring(C, R), NEW row \in R
    PROVE  LET q == pushScrollback(r, row)
           IN /\ sbRow(q, q.len - 1) = row
              /\ \A i \in 0 .. q.len - 2 : sbRow(q, i) = sbRow(r, IF AtCap(r) THEN i + 1 ELSE i)
              /\ AtCap(r) => Dropped(r) = sbRow(r, 0)
<1> DEFINE q == pushScrollback(r, row)
<1>1. q \in Ring(C, R) BY PushIsRing
<1>2. /\ r.len \in 0 .. C /\ r.head \in 0 .. C - 1 /\ r.cap = C /\ DOMAIN r.sb = 0 .. C - 1
      /\ q.len = (IF r.len = C THEN C ELSE r.len + 1)
      /\ q.head = (IF r.head + 1 = C THEN 0 ELSE r.head + 1)
      /\ q.sb = [r.sb EXCEPT ![r.head] = row]
      /\ AtCap(r) <=> r.len = C
  BY DEF pushScrollback, Ring, AtCap
<1> HIDE DEF q
<1>3. Placed(C, r.head, r.len, q.head, q.len) BY <1>2, Slots
<1>4. sbRow(q, q.len - 1) = row
  <2>1. q.len - 1 \in 0 .. q.len - 1 BY <1>3 DEF Placed
  <2>2. sbRow(q, q.len - 1) = q.sb[r.head] BY <1>1, <1>3, <2>1, Finds DEF Placed
  <2> QED BY <1>2, <2>2
<1>5. ASSUME NEW i \in 0 .. q.len - 2
      PROVE  sbRow(q, i) = sbRow(r, IF AtCap(r) THEN i + 1 ELSE i)
  <2> DEFINE j == IF r.len = C THEN i + 1 ELSE i
             k == At(C, r.head - r.len + j + C)
  <2>1. /\ j \in 0 .. r.len - 1 /\ k \in 0 .. C - 1 \ {r.head}
        /\ At(C, q.head - q.len + i + C) = k
    BY <1>3 DEF Placed
  <2>2. i \in 0 .. q.len - 1 BY <1>3 DEF Placed
  <2> HIDE DEF j, k
  <2>3. sbRow(q, i) = q.sb[k] BY <1>1, <2>1, <2>2, Finds
  <2>4. sbRow(r, j) = r.sb[k] BY <2>1, Finds DEF k
  <2>5. q.sb[k] = r.sb[k] BY <1>2, <2>1
  <2> QED BY <1>2, <2>3, <2>4, <2>5 DEF j
<1>6. AtCap(r) => Dropped(r) = sbRow(r, 0)
  <2> SUFFICES ASSUME AtCap(r) PROVE r.sb[r.head] = sbRow(r, 0) BY DEF Dropped
  <2>1. r.len = C /\ 0 \in 0 .. r.len - 1 BY <1>2
  <2>2. At(C, r.head - r.len + 0 + C) = r.head BY <1>2, <2>1 DEF At
  <2> QED BY <2>1, <2>2, Finds
<1> QED BY <1>4, <1>5, <1>6 DEF q

\* A viewport parked in the history stays on its rows while the ring takes
\* another, unless it is at the top of a full ring, whose top row is dropped.
THEOREM ParkedIsHeld ==
    ASSUME NEW C \in Nat \ {0}, NEW R, NEW r \in Ring(C, R), NEW row \in R,
           r.off > 0, ~(AtCap(r) /\ r.off = C), NEW i \in 0 .. r.off - 1
    PROVE  LET q == pushScrollback(r, row)
           IN sbRow(q, q.len - q.off + i) = sbRow(r, r.len - r.off + i)
<1> DEFINE q == pushScrollback(r, row)
<1>1. /\ r.len \in 0 .. C /\ r.off \in 1 .. r.len /\ r.cap = C /\ i \in Int
      /\ q.len = IF r.len = C THEN C ELSE r.len + 1
      /\ q.off = r.off + 1
  BY DEF pushScrollback, Ring, AtCap
<1>2. \A k \in 0 .. q.len - 2 : sbRow(q, k) = sbRow(r, IF AtCap(r) THEN k + 1 ELSE k)
  BY PushKeepsOrder
<1>3. q.len - q.off + i \in 0 .. q.len - 2 BY <1>1 DEF AtCap
<1>4. (IF AtCap(r) THEN (q.len - q.off + i) + 1 ELSE q.len - q.off + i) = r.len - r.off + i
  BY <1>1 DEF AtCap
<1> HIDE DEF q
<1> QED BY <1>2, <1>3, <1>4 DEF q

\* However the person scrolls, the viewport stays within the history.
THEOREM ScrollStaysInHistory ==
    ASSUME NEW C \in Nat, NEW R, NEW r \in Ring(C, R), NEW n \in Int
    PROVE  scrollBackBy(r, n) \in Ring(C, R) /\ scrollTo(r, n) \in Ring(C, R)
<1>1. clamp(r.off + n, 0, r.len) \in 0 .. r.len /\ clamp(n, 0, r.len) \in 0 .. r.len
  BY DEF clamp, Ring
<1> QED BY <1>1 DEF scrollBackBy, scrollTo, Ring

-----------------------------------------------------------------------------
(* The terminal.                                                           *)

Kinds == {"prim", "alt"}
\* What a cell may hold, and the child may print.
Chars == {Space, Cont, Wide, "?", "none"} \cup UNION {sc.chars : sc \in Scenes}
Widths == Nat \ {0}
Texts == UNION {[Upto(c) -> Chars] : c \in Nat}
Grids == UNION {[Upto(n) -> Names] : n \in Nat}
RingOf(k) == IF k = "prim" THEN Ring(Cap, Names) ELSE {newRing(0)}
Screens(k) ==
    [rows : Widths, cols : Widths, cells : Grids, curY : Nat, curX : Nat, savedY : Nat,
     savedX : Nat, scrollTop : Nat, scrollBot : Nat, originMode : BOOLEAN,
     autoWrap : BOOLEAN, insert : BOOLEAN, xenl : BOOLEAN, ring : RingOf(k)]
Terms ==
    [heap : [Names -> Texts],
     scr : {f \in [Kinds -> Screens("prim") \cup Screens("alt") \cup {NoAlt}] :
              f["prim"] \in Screens("prim") /\ f["alt"] \in Screens("alt") \cup {NoAlt}},
     on : Kinds, altMode : BOOLEAN, lastChar : Chars, gone : Seq(Texts), down : BOOLEAN]

\* The row names a screen holds.
Held(s) == {s.cells[y] : y \in Upto(s.rows)}
\* ... and its ring.
Stored(u) == {u.scr["prim"].ring.sb[k] : k \in Upto(Cap)} \ {NoRow}

\* A screen's margins lie in it, and its cursor, unless it was restored.
Placement(s) ==
    /\ s.scrollTop < s.scrollBot /\ s.scrollBot <= s.rows
    /\ s.curY < s.rows \/ s.savedY >= s.rows
    /\ s.curX < s.cols \/ s.savedX >= s.cols
\* A screen has its rows, each of its own and of its width.
Gridded(u, k) ==
    LET s == u.scr[k] IN
    /\ s.rows <= MaxRows /\ s.cells \in [Upto(s.rows) -> Names]
    /\ \A y \in Upto(s.rows) : DOMAIN u.heap[s.cells[y]] = Upto(s.cols)
    /\ \A y, z \in Upto(s.rows) : s.cells[y] = s.cells[z] => y = z
    /\ Placement(s)
\* The ring's slots are filled from the first, with rows of its own.
Filled(r) ==
    /\ \A k, l \in Upto(Cap) : r.sb[k] = r.sb[l] /\ r.sb[k] # NoRow => k = l
    /\ r.len < Cap => r.head = r.len /\ \A k \in Upto(Cap) : r.sb[k] # NoRow <=> k < r.len
    /\ r.len = Cap => \A k \in Upto(Cap) : r.sb[k] # NoRow
\* No row has two places.
Apart(u) ==
    /\ \A k \in Live(u) : Held(u.scr[k]) \cap Stored(u) = {}
    /\ "alt" \in Live(u) => Held(u.scr["prim"]) \cap Held(u.scr["alt"]) = {}
\* The ring has the rows that scrolled off last, in order and unaltered.
Remembered(u) ==
    LET r == u.scr["prim"].ring IN
    /\ Len(u.gone) = r.len
    /\ \A i \in 0 .. r.len - 1 : u.heap[sbRow(r, i)] = u.gone[i + 1]

Good(u) ==
    /\ u \in Terms
    /\ u.altMode <=> u.on = "alt"
    /\ u.on \in Live(u)
    /\ \A k \in Live(u) : Gridded(u, k)
    /\ Filled(u.scr["prim"].ring)
    /\ Apart(u)
    /\ Remembered(u)

\* What the child's output leaves of what is not on show: the rows of the history,
\* counted from the newest in view, and under an alternate screen the primary one.
HistoryKept(u, v) ==
    LET r == u.scr["prim"].ring
        q == v.scr["prim"].ring
    IN /\ r.off <= q.off /\ v.scr["prim"].rows = u.scr["prim"].rows
       /\ q.off < Cap => \A i \in 1 .. r.off :
                           v.gone[q.len - q.off + i] = u.gone[r.len - r.off + i]
ShellKept(u, v) == u.on = "alt" => Shell(v) = Shell(u)
Kept(u, v) == v.on = u.on /\ HistoryKept(u, v) /\ ShellKept(u, v)

\* What the assumptions say of the bounds and of the names rows go by.
LEMMA Known == /\ Cap \in Nat /\ MaxRows \in Nat /\ NoRow \notin Names
               /\ Names \subseteq Nat /\ IsFiniteSet(Names)
               /\ Cardinality(Names) = 3 * MaxRows + Cap
<1>1. Cap \in Nat /\ MaxRows \in Nat BY TerminalAssumption
<1>2. NoRow \notin Names /\ Names \subseteq Nat BY <1>1 DEF Names, NoRow
<1>3. 3 * MaxRows + Cap \in Nat BY <1>1
<1>4. IsFiniteSet(Names) /\ Cardinality(Names) = 3 * MaxRows + Cap
  BY <1>3, FS_Interval DEF Names
<1> QED BY <1>1, <1>2, <1>4

\* A row of some width is a text, and a text of a width is a row of it.
LEMMA LineIn == ASSUME NEW c \in Nat, NEW row \in [Upto(c) -> Chars] PROVE row \in Texts
BY DEF Texts

\* A text is a row of its own width.
LEMMA LineOut ==
    ASSUME NEW c \in Nat, NEW row \in Texts, DOMAIN row = Upto(c)
    PROVE  row \in [Upto(c) -> Chars]
BY DEF Texts

\* Names for some rows are a grid.
LEMMA GridIn == ASSUME NEW n \in Nat, NEW g \in [Upto(n) -> Names] PROVE g \in Grids
BY DEF Grids

\* A blank row is a row.
LEMMA BlankRowIs == ASSUME NEW c \in Nat PROVE BlankRow(c) \in [Upto(c) -> Chars] /\ BlankRow(c) \in Texts
BY LineIn DEF BlankRow, Chars

\* So is a row that is blanked, of the width it had.
LEMMA BlankedIs ==
    ASSUME NEW row, NEW c \in Nat, DOMAIN row = Upto(c)
    PROVE  Blanked(row) \in [Upto(c) -> Chars]
BY DEF Blanked, Chars

\* A screen that exists is not the absent one.
LEMMA Exists == \A k \in Kinds : \A s \in Screens(k) : s # NoAlt /\ s.rows # 0
BY DEF Screens, NoAlt, Widths, Kinds

\* There is always a primary screen; the alternate one exists once it was made.
LEMMA LiveIs ==
    ASSUME NEW u \in Terms
    PROVE  /\ "prim" \in Live(u) /\ Live(u) \subseteq Kinds
           /\ \A k \in Live(u) : u.scr[k] \in Screens(k)
           /\ "alt" \in Live(u) <=> u.scr["alt"] # NoAlt
<1>1. u.scr["prim"] \in Screens("prim") /\ u.scr["alt"] \in Screens("alt") \cup {NoAlt}
  BY DEF Terms
<1>2. u.scr["prim"] # NoAlt BY <1>1, Exists DEF Kinds
<1> QED BY <1>1, <1>2 DEF Live, Kinds

Goes(u, v) == Good(v) /\ Kept(u, v)

\* What is drawn on the screen in use stays on its rows.
Drew(u, v) ==
    /\ v \in Terms
    /\ v.on = u.on /\ v.altMode = u.altMode /\ v.gone = u.gone
    /\ \A k \in Kinds \ {u.on} : v.scr[k] = u.scr[k]
    /\ S(v).rows = S(u).rows /\ S(v).cols = S(u).cols /\ S(v).ring = S(u).ring
    /\ S(v).cells \in [Upto(S(u).rows) -> Names] /\ Held(S(v)) = Held(S(u))
    /\ \A y, z \in Upto(S(u).rows) : S(v).cells[y] = S(v).cells[z] => y = z
    /\ Placement(S(v))
    /\ \A id \in Names : /\ DOMAIN v.heap[id] = DOMAIN u.heap[id]
                         /\ id \notin Held(S(u)) => v.heap[id] = u.heap[id]

\* The screen in use, of a terminal as it should be.
LEMMA InUse ==
    ASSUME NEW u, Good(u)
    PROVE  /\ u \in Terms /\ u.on \in Kinds /\ S(u) \in Screens(u.on) /\ Gridded(u, u.on) /\ S(u) = u.scr[u.on]
           /\ u.heap \in [Names -> Texts] /\ u.scr["prim"] \in Screens("prim")
           /\ Gridded(u, "prim")
<1>1. u \in Terms /\ u.on \in Live(u) /\ \A k \in Live(u) : Gridded(u, k) BY DEF Good
<1> QED BY <1>1, LiveIs DEF S, Terms

\* Where the i-th oldest row is, while the ring fills and when it is full.
LEMMA SlotAt ==
    ASSUME NEW C \in Nat \ {0}, NEW n \in 0 .. C, NEW h \in 0 .. C - 1, NEW i \in 0 .. n - 1
    PROVE  /\ At(C, h - n + i + C) \in Upto(C)
           /\ n < C /\ h = n => At(C, h - n + i + C) < n
BY DEF At, Upto

\* The ring has a row for each line of its history.
LEMMA SlotIsRow ==
    ASSUME NEW u \in Terms, NEW i \in 0 .. u.scr["prim"].ring.len - 1, Filled(u.scr["prim"].ring)
    PROVE  sbRow(u.scr["prim"].ring, i) \in Stored(u) /\ sbRow(u.scr["prim"].ring, i) \in Names
<1> DEFINE r == u.scr["prim"].ring
<1>2. r \in Ring(Cap, Names) BY DEF Terms, Screens, RingOf
<1>0. r.len \in 0 .. Cap /\ Cap \in Nat BY <1>2, Known DEF Ring
<1>1. Cap \in Nat \ {0} /\ NoRow \notin Names BY <1>0, Known
<1>3. /\ i \in 0 .. r.len - 1 /\ r.len \in 0 .. Cap /\ r.head \in 0 .. Cap - 1
      /\ r.sb \in [0 .. Cap - 1 -> Names \cup {NoRow}]
  BY <1>1, <1>2 DEF Ring
<1> DEFINE k == At(Cap, r.head - r.len + i + Cap)
<1>4. sbRow(r, i) = r.sb[k] BY <1>1, <1>2, <1>3, Finds
<1>5. k \in Upto(Cap) /\ (r.len < Cap /\ r.head = r.len => k < r.len) BY <1>1, <1>3, SlotAt
<1>6. r.sb[k] # NoRow
  <2>1. CASE r.len < Cap BY <1>5, <2>1 DEF Filled
  <2>2. CASE r.len = Cap BY <1>5, <2>2 DEF Filled
  <2> QED BY <1>1, <1>3, <2>1, <2>2
<1> HIDE DEF k
<1>7. r.sb[k] \in Stored(u) BY <1>5, <1>6 DEF Stored
<1>8. r.sb[k] \in Names BY <1>3, <1>5, <1>6 DEF Upto
<1> QED BY <1>4, <1>7, <1>8

\* What draws on the screen in use alone leaves the terminal as it should be
\* and what is hidden as it was.
LEMMA DrewIsGood == ASSUME NEW u, NEW v, Good(u), Drew(u, v) PROVE Goes(u, v)
<1>1. /\ u \in Terms /\ u.on \in Kinds /\ S(u) \in Screens(u.on) /\ Gridded(u, u.on)
      /\ S(u) = u.scr[u.on]
      /\ u.heap \in [Names -> Texts] /\ u.on \in Live(u) /\ Apart(u) /\ Remembered(u)
      /\ Filled(u.scr["prim"].ring) /\ (u.altMode <=> u.on = "alt") /\ \A k \in Live(u) : Gridded(u, k)
  BY InUse DEF Good
<1>2. /\ v \in Terms /\ v.on = u.on /\ v.altMode = u.altMode /\ v.gone = u.gone
      /\ \A k \in Kinds \ {u.on} : v.scr[k] = u.scr[k]
  BY DEF Drew
<1>3. S(v) = v.scr[u.on] BY <1>2 DEF S
<1>4. Live(v) = Live(u)
  <2>1. S(v).rows # 0 BY <1>1, Exists DEF Drew
  <2>2. v.scr[u.on] # NoAlt /\ u.scr[u.on] # NoAlt BY <1>1, <1>3, <2>1, Exists DEF NoAlt
  <2> QED BY <1>1, <1>2, <2>2 DEF Live, Kinds
<1>5. \A k \in Kinds : /\ v.scr[k].ring = u.scr[k].ring /\ v.scr[k].rows = u.scr[k].rows /\ v.scr[k].cols = u.scr[k].cols
                       /\ Held(v.scr[k]) = Held(u.scr[k])
  BY <1>1, <1>2, <1>3 DEF Drew
<1>6. Stored(v) = Stored(u) BY <1>5 DEF Stored, Kinds
<1>7. Apart(v) BY <1>1, <1>4, <1>5, <1>6, LiveIs DEF Apart, Kinds
<1>8. \A id \in Names : id \notin Held(S(u)) => v.heap[id] = u.heap[id] BY DEF Drew
<1>9. \A k \in Live(v) : Gridded(v, k)
  <2> SUFFICES ASSUME NEW k \in Live(u) PROVE Gridded(v, k) BY <1>4
  <2>1. k \in Kinds /\ Gridded(u, k) BY <1>1, LiveIs
  <2>2. CASE k = u.on
    <3>1. \A y \in Upto(S(u).rows) : DOMAIN v.heap[S(v).cells[y]] = Upto(S(u).cols)
      <4> SUFFICES ASSUME NEW y \in Upto(S(u).rows)
                   PROVE  DOMAIN v.heap[S(v).cells[y]] = Upto(S(u).cols) OBVIOUS
      <4>1. S(v).cells[y] \in Held(S(v)) BY DEF Held, Drew
      <4>a. S(v).cells[y] \in Held(S(u)) BY <4>1 DEF Drew
      <4>2. PICK z \in Upto(S(u).rows) : S(v).cells[y] = S(u).cells[z] BY <4>a DEF Held
      <4>3. S(v).cells[y] \in Names BY DEF Drew
      <4> QED BY <1>1, <4>2, <4>3 DEF Drew, Gridded
    <3>2. /\ S(v).rows = S(u).rows /\ S(v).cols = S(u).cols
          /\ S(v).cells \in [Upto(S(u).rows) -> Names] /\ Placement(S(v))
          /\ \A y, z \in Upto(S(u).rows) : S(v).cells[y] = S(v).cells[z] => y = z
      BY DEF Drew
    <3> HIDE DEF S
    <3> QED BY <1>1, <1>3, <2>2, <3>1, <3>2 DEF Gridded
  <2>3. CASE k # u.on
    <3>1. v.scr[k] = u.scr[k] BY <1>2, <2>1, <2>3
    <3>2. \A y \in Upto(u.scr[k].rows) : DOMAIN v.heap[u.scr[k].cells[y]] = DOMAIN u.heap[u.scr[k].cells[y]]
      BY <2>1 DEF Drew, Gridded
    <3> QED BY <2>1, <3>1, <3>2 DEF Gridded
  <2> QED BY <2>2, <2>3
<1>10. Remembered(v)
  <2> SUFFICES ASSUME NEW i \in 0 .. u.scr["prim"].ring.len - 1
               PROVE  v.heap[sbRow(u.scr["prim"].ring, i)] = u.heap[sbRow(u.scr["prim"].ring, i)]
    BY <1>1, <1>2, <1>5 DEF Remembered, Kinds
  <2>1. sbRow(u.scr["prim"].ring, i) \in Stored(u) /\ sbRow(u.scr["prim"].ring, i) \in Names
    BY <1>1, SlotIsRow
  <2>2. Held(S(u)) \cap Stored(u) = {} BY <1>1 DEF Apart
  <2> QED BY <1>8, <2>1, <2>2
<1>11. Good(v) BY <1>1, <1>2, <1>4, <1>5, <1>7, <1>9, <1>10 DEF Good, Kinds
<1>12. HistoryKept(u, v)
  <2>1. u.scr["prim"].ring.off \in Int BY <1>1 DEF Terms, Screens, RingOf, Ring
  <2> QED BY <1>2, <1>5, <2>1 DEF HistoryKept, Kinds
<1>13. ShellKept(u, v)
  <2> SUFFICES ASSUME u.on = "alt" PROVE Shell(v) = Shell(u) BY DEF ShellKept
  <2>1. v.scr["prim"] = u.scr["prim"] BY <1>2 DEF Kinds
  <2>2. Held(u.scr["prim"]) \cap Held(S(u)) = {} BY <1>1 DEF Apart
  <2>3. \A y \in Upto(u.scr["prim"].rows) : u.scr["prim"].cells[y] \in Names /\ u.scr["prim"].cells[y] \in Held(u.scr["prim"])
    BY InUse DEF Held, Gridded
  <2>4. \A y \in Upto(u.scr["prim"].rows) : v.heap[u.scr["prim"].cells[y]] = u.heap[u.scr["prim"].cells[y]]
    BY <1>8, <2>2, <2>3
  <2> QED BY <2>1, <2>4 DEF Shell
<1> QED BY <1>2, <1>11, <1>12, <1>13 DEF Goes, Kept

\* The history's counts are in range.
LEMMA RingIs ==
    ASSUME NEW u, Good(u)
    PROVE  /\ u.scr["prim"].ring \in Ring(Cap, Names)
           /\ u.scr["prim"].ring.off \in Nat /\ u.scr["prim"].ring.len \in Nat
           /\ u.scr["prim"].ring.off <= u.scr["prim"].ring.len /\ u.scr["prim"].ring.len <= Cap
<1>1. u.scr["prim"].ring \in Ring(Cap, Names) BY InUse DEF Screens, RingOf
<1> QED BY <1>1, Known DEF Ring

\* What one step keeps and the next keeps, both keep.
LEMMA KeptOn == ASSUME NEW u, NEW v, NEW end, Good(u), Good(v), Good(end), Kept(u, v), Kept(v, end) PROVE Kept(u, end)
<1>1. \A x \in {u, v, end} : x.scr["prim"].ring.off \in Nat /\ x.scr["prim"].ring.len \in Nat
  BY RingIs
<1>2. HistoryKept(u, end) BY <1>1, Known DEF Kept, HistoryKept
<1>3. ShellKept(u, end) BY DEF Kept, ShellKept
<1> QED BY <1>2, <1>3 DEF Kept

\* Two changes the child may make are one.
LEMMA GoesOn == ASSUME NEW u, NEW v, NEW end, Good(u), Goes(u, v), Goes(v, end) PROVE Goes(u, end)
BY KeptOn DEF Goes

\* None is one too.
LEMMA Stays == ASSUME NEW u, Good(u) PROVE Goes(u, u)
<1>1. u.scr["prim"].ring.off \in Nat BY RingIs
<1> QED BY <1>1 DEF Goes, Kept, HistoryKept, ShellKept

\* The cursor, the margins and the modes.
LEMMA PlaceGoes ==
    ASSUME NEW u, Good(u), NEW r \in Screens(u.on), Placement(r),
           r.rows = S(u).rows, r.cols = S(u).cols, r.cells = S(u).cells, r.ring = S(u).ring
    PROVE  Goes(u, WithS(u, r)) /\ S(WithS(u, r)) = r
<1> DEFINE v == WithS(u, r)
<1>1. u \in Terms /\ u.on \in Kinds /\ Gridded(u, u.on) /\ S(u) = u.scr[u.on] BY InUse
<1>2. /\ v.on = u.on /\ v.altMode = u.altMode /\ v.gone = u.gone /\ v.heap = u.heap
      /\ v.scr = [u.scr EXCEPT ![u.on] = r]
  BY <1>1 DEF WithS, Terms
<1>3. v \in Terms BY <1>1, <1>2 DEF WithS, Terms, Kinds
<1>4. S(v) = r /\ \A k \in Kinds \ {u.on} : v.scr[k] = u.scr[k] BY <1>1, <1>2 DEF S, Terms
<1>5. r.cells \in [Upto(S(u).rows) -> Names] /\ \A y, z \in Upto(S(u).rows) : r.cells[y] = r.cells[z] => y = z
  BY <1>1 DEF Gridded
<1>6. Drew(u, v) BY <1>2, <1>3, <1>4, <1>5 DEF Drew, Held
<1> QED BY <1>4, <1>6, DrewIsGood

\* What the screen's rows say.
LEMMA PaintGoes ==
    ASSUME NEW u, Good(u), NEW h \in [Names -> Texts],
           \A id \in Names : /\ DOMAIN h[id] = DOMAIN u.heap[id]
                             /\ id \notin Held(S(u)) => h[id] = u.heap[id]
    PROVE  Goes(u, [u EXCEPT !.heap = h]) /\ S([u EXCEPT !.heap = h]) = S(u)
<1> DEFINE v == [u EXCEPT !.heap = h]
<1>1. u \in Terms /\ u.on \in Kinds /\ Gridded(u, u.on) /\ S(u) = u.scr[u.on] BY InUse
<1>2. /\ v.on = u.on /\ v.altMode = u.altMode /\ v.gone = u.gone /\ v.heap = h
      /\ v.scr = u.scr /\ v \in Terms
  BY <1>1 DEF Terms
<1>3. S(v) = S(u) BY <1>2 DEF S
<1>4. Drew(u, v) BY <1>1, <1>2, <1>3 DEF Drew, Gridded
<1> QED BY <1>3, <1>4, DrewIsGood

\* Writing one row of the screen (Screen.line).
LEMMA WriteGoes ==
    ASSUME NEW u, Good(u), NEW y \in Upto(S(u).rows), NEW row \in [Upto(S(u).cols) -> Chars]
    PROVE  Goes(u, Write(u, y, row)) /\ S(Write(u, y, row)) = S(u)
<1>1. u.heap \in [Names -> Texts] /\ Gridded(u, u.on) /\ S(u) = u.scr[u.on] /\ S(u).cols \in Nat
  BY InUse DEF Screens, Widths
<1> DEFINE id == S(u).cells[y]
           h == [u.heap EXCEPT ![id] = row]
<1>2. id \in Names /\ id \in Held(S(u)) /\ DOMAIN u.heap[id] = Upto(S(u).cols)
  BY <1>1 DEF Gridded, Held
<1>3. row \in Texts BY <1>1, LineIn
<1>4. /\ h \in [Names -> Texts]
      /\ \A i \in Names : DOMAIN h[i] = DOMAIN u.heap[i] /\ (i \notin Held(S(u)) => h[i] = u.heap[i])
  BY <1>1, <1>2, <1>3
<1>5. Write(u, y, row) = [u EXCEPT !.heap = h] BY InUse DEF Write, Terms
<1> HIDE DEF h
<1> QED BY <1>4, <1>5, PaintGoes

\* A row of the screen has its width.
LEMMA RowIs ==
    ASSUME NEW u, Good(u), NEW y \in Upto(S(u).rows)
    PROVE  Row(u, y) \in [Upto(S(u).cols) -> Chars]
<1>1. u.heap \in [Names -> Texts] /\ Gridded(u, u.on) /\ S(u) = u.scr[u.on] /\ S(u).cols \in Nat
  BY InUse DEF Screens, Widths
<1> QED BY <1>1, LineOut DEF Gridded, Row

\* The last character printed, and an index out of its row.
LEMMA FlagGoes ==
    ASSUME NEW u, Good(u), NEW ch \in Chars, NEW d \in BOOLEAN, NEW v, v = [u EXCEPT !.lastChar = ch, !.down = d]
    PROVE  Goes(u, v) /\ S(v) = S(u) /\ v.down = d
<1>1. u \in Terms BY InUse
<1>2. /\ v \in Terms /\ v.heap = u.heap /\ v.scr = u.scr /\ v.on = u.on
      /\ v.altMode = u.altMode /\ v.gone = u.gone /\ v.down = d
  BY <1>1 DEF Terms
<1>3. S(v) = S(u) BY <1>2 DEF S
<1>4. u.heap \in [Names -> Texts] BY InUse
<1>5. Gridded(u, u.on) /\ S(u) = u.scr[u.on] BY InUse
<1>6. Drew(u, v) BY <1>2, <1>3, <1>5 DEF Drew, Gridded
<1> QED BY <1>2, <1>3, <1>6, DrewIsGood

\* Where the cursor may be put.
Fits(u, y, x) ==
    /\ y \in Nat /\ (y < S(u).rows \/ S(u).savedY >= S(u).rows)
    /\ x \in Nat /\ (x < S(u).cols \/ S(u).savedX >= S(u).cols)

\* The cursor moves to where it may be.
LEMMA MoveGoes ==
    ASSUME NEW u, Good(u), NEW y, NEW x, Fits(u, y, x)
    PROVE  /\ Goes(u, Move(u, y, x)) /\ S(Move(u, y, x)) = [S(u) EXCEPT !.curY = y, !.curX = x]
           /\ Goes(u, MoveOff(u, y, x))
<1>1. S(u) \in Screens(u.on) /\ Placement(S(u)) BY InUse DEF Gridded
<1> DEFINE r == [S(u) EXCEPT !.curY = y, !.curX = x]
           q == [S(u) EXCEPT !.curY = y, !.curX = x, !.xenl = FALSE]
<1>2. /\ r \in Screens(u.on) /\ r.rows = S(u).rows /\ r.cols = S(u).cols
      /\ r.cells = S(u).cells /\ r.ring = S(u).ring
      /\ r.scrollTop = S(u).scrollTop /\ r.scrollBot = S(u).scrollBot
      /\ r.savedY = S(u).savedY /\ r.savedX = S(u).savedX
      /\ r.curY = y /\ r.curX = x
  BY <1>1 DEF Screens, Fits
<1>3. /\ q \in Screens(u.on) /\ q.rows = S(u).rows /\ q.cols = S(u).cols
      /\ q.cells = S(u).cells /\ q.ring = S(u).ring
      /\ q.scrollTop = S(u).scrollTop /\ q.scrollBot = S(u).scrollBot
      /\ q.savedY = S(u).savedY /\ q.savedX = S(u).savedX
      /\ q.curY = y /\ q.curX = x
  BY <1>1 DEF Screens, Fits
<1>4. Placement(r) /\ Placement(q) BY <1>1, <1>2, <1>3 DEF Placement, Fits
<1> HIDE DEF r, q
<1>5. Goes(u, WithS(u, r)) /\ S(WithS(u, r)) = r BY <1>2, <1>4, PlaceGoes
<1>6. Goes(u, WithS(u, q)) BY <1>3, <1>4, PlaceGoes
<1> QED BY <1>5, <1>6 DEF r, q, Move, MoveOff

\* The cursor and the margins of a screen as it should be.
LEMMA AtIs ==
    ASSUME NEW u, Good(u)
    PROVE  /\ S(u).rows \in Nat \ {0} /\ S(u).cols \in Nat \ {0} /\ S(u).rows <= MaxRows
           /\ S(u).curY \in Nat /\ S(u).curX \in Nat /\ S(u).savedY \in Nat
           /\ S(u).savedX \in Nat
           /\ S(u).scrollTop \in Nat /\ S(u).scrollBot \in Nat
           /\ S(u).scrollTop < S(u).scrollBot /\ S(u).scrollBot <= S(u).rows
           /\ S(u).curY < S(u).rows \/ S(u).savedY >= S(u).rows
           /\ S(u).curX < S(u).cols \/ S(u).savedX >= S(u).cols
<1>1. S(u) \in Screens(u.on) /\ S(u) = u.scr[u.on] /\ Gridded(u, u.on) BY InUse
<1>2. /\ S(u).rows \in Widths /\ S(u).cols \in Widths /\ S(u).curY \in Nat
      /\ S(u).curX \in Nat /\ S(u).savedY \in Nat /\ S(u).savedX \in Nat
      /\ S(u).scrollTop \in Nat /\ S(u).scrollBot \in Nat
  BY <1>1 DEF Screens
<1>3. Placement(S(u)) /\ S(u).rows <= MaxRows BY <1>1 DEF Gridded
<1> QED BY <1>2, <1>3 DEF Widths, Placement

\* Where a tab stops.
LEMMA Tab == ASSUME NEW x \in Nat PROVE (x \div 8 + 1) * 8 \in Nat
OBVIOUS

\* Where a tab back stops.
LEMMA BackTab == ASSUME NEW x \in Nat
    PROVE Max2(0, ((x - 1) \div 8) * 8) \in Nat /\ Max2(0, ((x - 1) \div 8) * 8) <= x
BY DEF Max2

\* BS, HT, CR and CBT.
LEMMA ControlGoes ==
    ASSUME NEW u, Good(u)
    PROVE  Goes(u, BS(u)) /\ Goes(u, HT(u)) /\ Goes(u, CR(u)) /\ Goes(u, CBT(u))
<1> DEFINE s == S(u)
<1>1. Fits(u, s.curY, Max2(s.curX - 1, 0)) BY AtIs DEF Fits, Max2
<1>2. Fits(u, s.curY, Min2((s.curX \div 8 + 1) * 8, s.cols - 1))
  <2>1. (s.curX \div 8 + 1) * 8 \in Nat BY AtIs, Tab
  <2>2. Min2((s.curX \div 8 + 1) * 8, s.cols - 1) \in 0 .. s.cols - 1 BY AtIs, <2>1 DEF Min2
  <2> QED BY AtIs, <2>2 DEF Fits
<1>3. Fits(u, s.curY, 0) BY AtIs DEF Fits
<1>4. Fits(u, s.curY, Max2(0, ((s.curX - 1) \div 8) * 8))
  <2>1. /\ Max2(0, ((s.curX - 1) \div 8) * 8) \in Nat
        /\ Max2(0, ((s.curX - 1) \div 8) * 8) <= s.curX
    BY AtIs, BackTab
  <2> QED BY AtIs, <2>1 DEF Fits
<1> QED BY <1>1, <1>2, <1>3, <1>4, MoveGoes DEF BS, HT, CR, CBT

\* The sequences that move the cursor by lines.
LEMMA ByLinesGoes ==
    ASSUME NEW u, Good(u), NEW n \in Nat \ {0}
    PROVE  Goes(u, CUU(u, n)) /\ Goes(u, CUD(u, n)) /\ Goes(u, CNL(u, n)) /\ Goes(u, CPL(u, n)) /\ Goes(u, VPA(u, n))
<1> DEFINE s == S(u)
<1>1. /\ Fits(u, Max2(s.scrollTop, s.curY - n), s.curX)
      /\ Fits(u, Max2(s.scrollTop, s.curY - n), 0)
  BY AtIs DEF Fits, Max2
<1>2. /\ Fits(u, Min2(s.scrollBot - 1, s.curY + n), s.curX)
      /\ Fits(u, Min2(s.scrollBot - 1, s.curY + n), 0)
  BY AtIs DEF Fits, Min2
<1>3. Fits(u, clamp(n - 1, 0, s.rows - 1), s.curX) BY AtIs DEF Fits, clamp
<1> QED BY <1>1, <1>2, <1>3, MoveGoes DEF CUU, CUD, CNL, CPL, VPA

\* The sequences that move it by columns.
LEMMA ByColumnsGoes ==
    ASSUME NEW u, Good(u), NEW n \in Nat \ {0}
    PROVE  Goes(u, CUF(u, n)) /\ Goes(u, CUB(u, n)) /\ Goes(u, CHA(u, n))
<1> DEFINE s == S(u)
<1>1. Fits(u, s.curY, Min2(s.cols - 1, s.curX + n)) BY AtIs DEF Fits, Min2
<1>2. Fits(u, s.curY, Max2(0, s.curX - n)) BY AtIs DEF Fits, Max2
<1>3. Fits(u, s.curY, clamp(n - 1, 0, s.cols - 1)) BY AtIs DEF Fits, clamp
<1> QED BY <1>1, <1>2, <1>3, MoveGoes DEF CUF, CUB, CHA

\* CUP, in origin mode too.
LEMMA PositionGoes ==
    ASSUME NEW u, Good(u), NEW y \in Nat \ {0}, NEW x \in Nat \ {0}
    PROVE  Goes(u, CUP(u, y, x))
<1> DEFINE s == S(u)
           top == IF s.originMode THEN s.scrollTop ELSE 0
<1>1. top \in Nat BY AtIs
<1> HIDE DEF top
<1>2. Fits(u, clamp(y - 1 + top, 0, s.rows - 1), clamp(x - 1, 0, s.cols - 1))
  BY <1>1, AtIs DEF Fits, clamp
<1> QED BY <1>2, MoveGoes DEF CUP, top

\* The cursor is saved, and restored: the one way it leaves the screen.
LEMMA SaveGoes == ASSUME NEW u, Good(u) PROVE Goes(u, DECSC(u)) /\ Goes(u, DECRC(u))
<1>1. Fits(u, S(u).savedY, S(u).savedX) BY AtIs DEF Fits
<1> DEFINE r == [S(u) EXCEPT !.savedY = S(u).curY, !.savedX = S(u).curX]
<1>2. S(u) \in Screens(u.on) BY InUse
<1>3. /\ r \in Screens(u.on) /\ r.rows = S(u).rows /\ r.cols = S(u).cols
      /\ r.cells = S(u).cells /\ r.ring = S(u).ring
      /\ r.scrollTop = S(u).scrollTop /\ r.scrollBot = S(u).scrollBot
      /\ r.savedY = S(u).curY /\ r.savedX = S(u).curX
      /\ r.curY = S(u).curY /\ r.curX = S(u).curX
  BY <1>2 DEF Screens
<1> HIDE DEF r
<1>4. Placement(r) BY <1>3, AtIs DEF Placement
<1>5. Goes(u, WithS(u, r)) BY <1>3, <1>4, PlaceGoes
<1> QED BY <1>1, <1>5, MoveGoes DEF DECSC, DECRC, r

\* RIS.
LEMMA ResetGoes == ASSUME NEW u, Good(u) PROVE Goes(u, RIS(u))
<1> DEFINE r == [S(u) EXCEPT !.curY = 0, !.curX = 0, !.scrollTop = 0, !.scrollBot = S(u).rows,
                          !.originMode = FALSE, !.autoWrap = TRUE]
<1>1. S(u) \in Screens(u.on) BY InUse
<1>2. /\ r \in Screens(u.on) /\ r.rows = S(u).rows /\ r.cols = S(u).cols
      /\ r.cells = S(u).cells /\ r.ring = S(u).ring
      /\ r.scrollTop = 0 /\ r.scrollBot = S(u).rows /\ r.curY = 0 /\ r.curX = 0
  BY <1>1 DEF Screens, Widths
<1> HIDE DEF r
<1>3. Placement(r) BY <1>2, AtIs DEF Placement
<1>4. Goes(u, WithS(u, r)) BY <1>2, <1>3, PlaceGoes
<1> QED BY <1>4 DEF RIS, r

\* The modes that are set and reset.
LEMMA ModesGoes ==
    ASSUME NEW u, Good(u), NEW on \in BOOLEAN
    PROVE  Goes(u, DECAWM(u, on)) /\ Goes(u, IRM(u, on)) /\ Goes(u, DECOM(u, on))
<1> DEFINE p == [S(u) EXCEPT !.autoWrap = on]
           q == [S(u) EXCEPT !.insert = on]
           r == [S(u) EXCEPT !.originMode = on, !.curY = 0, !.curX = 0]
<1>1. S(u) \in Screens(u.on) /\ Placement(S(u)) BY InUse DEF Gridded
<1>2. /\ p \in Screens(u.on) /\ p.rows = S(u).rows /\ p.cols = S(u).cols
      /\ p.cells = S(u).cells /\ p.ring = S(u).ring /\ Placement(p)
  BY <1>1 DEF Screens, Placement
<1>3. /\ q \in Screens(u.on) /\ q.rows = S(u).rows /\ q.cols = S(u).cols
      /\ q.cells = S(u).cells /\ q.ring = S(u).ring /\ Placement(q)
  BY <1>1 DEF Screens, Placement
<1>4. /\ r \in Screens(u.on) /\ r.rows = S(u).rows /\ r.cols = S(u).cols
      /\ r.cells = S(u).cells /\ r.ring = S(u).ring
      /\ r.scrollTop = S(u).scrollTop /\ r.scrollBot = S(u).scrollBot /\ r.curY = 0
      /\ r.curX = 0
  BY <1>1 DEF Screens
<1> HIDE DEF p, q, r
<1>5. Placement(r) BY <1>4, AtIs DEF Placement
<1>6. Goes(u, WithS(u, p)) BY <1>2, PlaceGoes
<1>7. Goes(u, WithS(u, q)) BY <1>3, PlaceGoes
<1>8. Goes(u, WithS(u, r)) BY <1>4, <1>5, PlaceGoes
<1> QED BY <1>6, <1>7, <1>8 DEF DECAWM, IRM, DECOM, p, q, r

\* DECSTBM: margins out of order are refused, one off the screen is moved in.
LEMMA MarginsGoes ==
    ASSUME NEW u, Good(u), NEW top \in Nat \ {0}, NEW bot0 \in Nat
    PROVE  Goes(u, DECSTBM(u, top, bot0))
<1> DEFINE s == S(u)
           bot == IF bot0 = 0 \/ bot0 > s.rows THEN s.rows ELSE bot0
           a == top - 1
           y == IF s.originMode THEN a ELSE 0
           r == [s EXCEPT !.scrollTop = a, !.scrollBot = bot, !.curX = 0, !.curY = y, !.xenl = FALSE]
<1>1. a \in Nat /\ a < top /\ y \in {a, 0} /\ y \in Nat /\ bot \in Nat /\ bot <= s.rows BY AtIs
<1>2. S(u) \in Screens(u.on) BY InUse
<1> HIDE DEF bot, y, a
<1>3. CASE top >= bot BY <1>3, Stays DEF DECSTBM, bot
<1>4. CASE ~(top >= bot)
  <2>1. /\ r \in Screens(u.on) /\ r.rows = S(u).rows /\ r.cols = S(u).cols
        /\ r.cells = S(u).cells /\ r.ring = S(u).ring
        /\ r.scrollTop = a /\ r.scrollBot = bot /\ r.curY = y /\ r.curX = 0
    BY <1>1, <1>2 DEF Screens
  <2> HIDE DEF r
  <2>2. Placement(r) BY <1>1, <1>4, <2>1, AtIs DEF Placement
  <2>3. Goes(u, WithS(u, r)) BY <2>1, <2>2, PlaceGoes
  <2> QED BY <1>4, <2>3 DEF DECSTBM, r, y, a, bot
<1> QED BY <1>3, <1>4

\* An index out of its row changes nothing else.
LEMMA DieGoes == ASSUME NEW u, Good(u) PROVE Goes(u, Die(u)) /\ Die(u).down /\ S(Die(u)) = S(u)
<1>1. u \in Terms /\ u.lastChar \in Chars BY InUse DEF Terms
<1>2. Die(u) = [u EXCEPT !.lastChar = u.lastChar, !.down = TRUE] BY <1>1 DEF Die, Terms
<1> QED BY <1>1, <1>2, FlagGoes

\* Screen.clearLine.
LEMMA ClearGoes ==
    ASSUME NEW u, Good(u), NEW y, NEW from, NEW to
    PROVE  Goes(u, clearLine(u, y, from, to)) /\ S(clearLine(u, y, from, to)) = S(u)
<1>1. CASE y \notin Upto(S(u).rows) BY <1>1, Stays DEF clearLine
<1>2. CASE y \in Upto(S(u).rows)
  <2> DEFINE row == [c \in DOMAIN Row(u, y) |-> IF from <= c /\ c < to THEN Space ELSE Row(u, y)[c]]
  <2>1. Row(u, y) \in [Upto(S(u).cols) -> Chars] BY <1>2, RowIs
  <2>2. row \in [Upto(S(u).cols) -> Chars] BY <2>1 DEF Chars
  <2> HIDE DEF row
  <2> QED BY <1>2, <2>2, WriteGoes DEF clearLine, row
<1> QED BY <1>1, <1>2

\* EL and ED.
LEMMA EraseGoes == ASSUME NEW u, Good(u), NEW how \in 0 .. 2 PROVE Goes(u, EL(u, how)) /\ Goes(u, ED(u, how))
<1>1. ASSUME NEW v, Good(v) PROVE Goes(v, EL(v, how)) BY <1>1, ClearGoes DEF EL
<1> DEFINE s == S(u)
           whole == CASE how = 0 -> {y \in Upto(s.rows) : y > s.curY}
                   [] how = 1 -> {y \in Upto(s.rows) : y < s.curY}
                   [] how = 2 -> Upto(s.rows)
           h == [id \in Names |-> IF \E y \in whole : s.cells[y] = id THEN BlankRow(s.cols) ELSE u.heap[id]]
           swept == [u EXCEPT !.heap = h]
<1>2. whole \subseteq Upto(s.rows) OBVIOUS
<1> HIDE DEF whole
<1>3. u.heap \in [Names -> Texts] /\ Gridded(u, u.on) /\ S(u) = u.scr[u.on] /\ S(u).cols \in Nat
  BY InUse DEF Screens, Widths
<1>4. BlankRow(s.cols) \in Texts /\ DOMAIN BlankRow(s.cols) = Upto(s.cols) BY <1>3, BlankRowIs
<1>5. h \in [Names -> Texts] BY <1>3, <1>4
<1>6. ASSUME NEW id \in Names
      PROVE  DOMAIN h[id] = DOMAIN u.heap[id] /\ (id \notin Held(S(u)) => h[id] = u.heap[id])
  <2>1. CASE \E y \in whole : s.cells[y] = id
    <3>1. PICK y \in whole : s.cells[y] = id BY <2>1
    <3>2. id \in Held(S(u)) /\ DOMAIN u.heap[id] = Upto(s.cols)
      BY <1>2, <1>3, <3>1 DEF Held, Gridded
    <3> QED BY <1>4, <2>1, <3>2
  <2>2. CASE ~\E y \in whole : s.cells[y] = id BY <2>2
  <2> QED BY <2>1, <2>2
<1> HIDE DEF h
<1>7. Goes(u, swept) /\ Good(swept) BY <1>5, <1>6, PaintGoes DEF Goes
<1>8. ED(u, how) = IF how = 2 THEN swept ELSE EL(swept, how) BY InUse DEF ED, h, whole, Terms
<1> HIDE DEF swept
<1>9. Goes(u, EL(swept, how)) BY <1>1, <1>7, GoesOn
<1> QED BY <1>1, <1>7, <1>8, <1>9

\* A row is replaced where the cursor is on it, and the program dies otherwise.
LEMMA SlicedGoes ==
    ASSUME NEW u, Good(u), NEW row, S(u).curY < S(u).rows /\ S(u).curX <= S(u).cols => row \in [Upto(S(u).cols) -> Chars]
    PROVE  Goes(u, Sliced(u, row))
<1>1. CASE S(u).curY >= S(u).rows \/ S(u).curX > S(u).cols BY <1>1, DieGoes DEF Sliced
<1>2. CASE ~(S(u).curY >= S(u).rows \/ S(u).curX > S(u).cols)
  <2>1. S(u).curY \in Upto(S(u).rows) /\ S(u).curX <= S(u).cols /\ S(u).curY < S(u).rows
    BY <1>2, AtIs DEF Upto
  <2> QED BY <1>2, <2>1, WriteGoes DEF Sliced
<1> QED BY <1>1, <1>2

\* DCH, ICH and ECH: every cell they read is one of the row.
LEMMA CharactersGo ==
    ASSUME NEW u, Good(u), NEW k \in Nat \ {0}
    PROVE  Goes(u, DCH(u, k)) /\ Goes(u, ICH(u, k)) /\ Goes(u, ECH(u, k))
<1> DEFINE s == S(u)
           n == Min2(k, s.cols - s.curX)
           d == [c \in Upto(s.cols) |-> IF c >= s.cols - n THEN Space
                    ELSE IF c >= s.curX THEN Row(u, s.curY)[c + n] ELSE Row(u, s.curY)[c]]
           i == [c \in Upto(s.cols) |-> IF c >= s.curX + n THEN Row(u, s.curY)[c - n]
                    ELSE IF c >= s.curX THEN Space ELSE Row(u, s.curY)[c]]
<1>1. ASSUME s.curY < s.rows /\ s.curX <= s.cols
      PROVE  d \in [Upto(s.cols) -> Chars] /\ i \in [Upto(s.cols) -> Chars]
  <2>1. s.curY \in Upto(s.rows) BY <1>1, AtIs DEF Upto
  <2>2. Row(u, s.curY) \in [Upto(s.cols) -> Chars] BY <2>1, RowIs
  <2>3. s.cols \in Nat /\ n \in Nat /\ s.curX \in Nat /\ n <= s.cols - s.curX
    BY <1>1, AtIs DEF Min2
  <2> HIDE DEF n
  <2>4. \A c \in Upto(s.cols) : /\ c < s.cols - n => c + n \in Upto(s.cols)
                                /\ c >= s.curX + n => c - n \in Upto(s.cols)
    BY <2>3 DEF Upto
  <2>5. \A c \in Upto(s.cols) : ~(c >= s.cols - n) => c < s.cols - n BY <2>3 DEF Upto
  <2>6. Space \in Chars BY DEF Chars
  <2> QED BY <2>2, <2>4, <2>5, <2>6
<1>2. Goes(u, Sliced(u, d)) /\ Goes(u, Sliced(u, i)) BY <1>1, SlicedGoes
<1>3. Goes(u, ECH(u, k)) BY Stays, DieGoes, ClearGoes DEF ECH
<1> QED BY <1>2, <1>3 DEF DCH, ICH

\* What runs off the rows an index is good for does not.
LEMMA ShiftedGoes ==
    ASSUME NEW u, Good(u), NEW cw \in 0 .. 2
    PROVE  Goes(u, Shifted(u, cw))
<1> DEFINE s == S(u)
           row == [c \in Upto(s.cols) |-> IF c < s.curX + cw THEN Row(u, s.curY)[c] ELSE Row(u, s.curY)[c - cw]]
<1>1. CASE s.curY >= s.rows \/ s.curX + cw > s.cols BY <1>1, DieGoes DEF Shifted
<1>2. CASE ~(s.curY >= s.rows \/ s.curX + cw > s.cols)
  <2>1. s.curY \in Upto(s.rows) BY <1>2, AtIs DEF Upto
  <2>2. Row(u, s.curY) \in [Upto(s.cols) -> Chars] BY <2>1, RowIs
  <2>3. s.cols \in Nat /\ s.curX \in Nat BY AtIs
  <2>4. \A c \in Upto(s.cols) : ~(c < s.curX + cw) => c - cw \in Upto(s.cols) BY <2>3 DEF Upto
  <2>5. row \in [Upto(s.cols) -> Chars] BY <2>2, <2>4
  <2> HIDE DEF row
  <2>6. Goes(u, Write(u, s.curY, row)) BY <2>1, <2>5, WriteGoes
  <2> QED BY <1>2, <2>6 DEF Shifted, row
<1> QED BY <1>1, <1>2

\* A character is put in the row, the half of a wide one beside it if it fits.
LEMMA PutGoes ==
    ASSUME NEW u, Good(u), NEW ch \in Chars, NEW cw \in 1 .. 2, S(u).curY < S(u).rows, S(u).curX < S(u).cols
    PROVE  Goes(u, Put(u, ch, cw))
<1> DEFINE s == S(u)
           x == s.curX
           row == [Row(u, s.curY) EXCEPT ![x] = ch]
           both == IF cw > 1 /\ x + 1 < s.cols THEN [row EXCEPT ![x + 1] = Cont] ELSE row
           last == x + cw >= s.cols
           v == Write(u, s.curY, both)
           y == IF last THEN x ELSE x + cw
           r == [s EXCEPT !.xenl = last, !.curX = y]
<1>1. s.curY \in Upto(s.rows) /\ s.cols \in Nat /\ s.curX \in Nat BY AtIs DEF Upto
<1>2. Row(u, s.curY) \in [Upto(s.cols) -> Chars] BY <1>1, RowIs
<1>3. Cont \in Chars BY DEF Chars
<1>4. both \in [Upto(s.cols) -> Chars] BY <1>2, <1>3
<1> HIDE DEF both
<1>5. Goes(u, v) /\ S(v) = s /\ v.on = u.on /\ Good(v) BY <1>1, <1>4, WriteGoes DEF Goes, Kept
<1> HIDE DEF v
<1>6. y \in Nat /\ y < s.cols /\ last \in BOOLEAN BY <1>1
<1> HIDE DEF y, last
<1>7. s \in Screens(u.on) /\ Placement(s) BY InUse DEF Gridded
<1>8. /\ r \in Screens(u.on) /\ r.rows = s.rows /\ r.cols = s.cols /\ r.cells = s.cells
      /\ r.ring = s.ring
      /\ r.scrollTop = s.scrollTop /\ r.scrollBot = s.scrollBot /\ r.savedY = s.savedY
      /\ r.savedX = s.savedX
      /\ r.curY = s.curY /\ r.curX = y
  BY <1>6, <1>7 DEF Screens
<1>9. r = [s EXCEPT !.xenl = last, !.curX = IF last THEN @ ELSE @ + cw] BY <1>7 DEF y, Screens
<1>10. Placement(r) BY <1>6, <1>7, <1>8 DEF Placement
<1> HIDE DEF r
<1>11. Goes(v, WithS(v, r)) BY <1>5, <1>8, <1>10, PlaceGoes
<1>12. Put(u, ch, cw) = WithS(v, r) BY <1>9 DEF Put, v, last, both
<1> QED BY <1>5, <1>11, <1>12, GoesOn

\* A set of numbers has a least one.
LEMMA LeastOf ==
    ASSUME NEW T, T \subseteq Nat, T # {}
    PROVE  \E x \in T : \A y \in T : x <= y
<1> DEFINE Tops == {0..x : x \in T}
<1>1. Tops \subseteq FiniteSubsetsOf(Nat) /\ Tops # {}
  <2>1. \A x \in T : IsFiniteSet(0..x) /\ (0..x) \subseteq Nat BY FS_Interval
  <2> QED BY <2>1 DEF FiniteSubsetsOf
<1>2. IsWellFoundedOn(StrictSubsetOrdering(Nat), FiniteSubsetsOf(Nat))
  BY FS_StrictSubsetOrderingWellFounded
<1>3. PICK X \in Tops : \A Y \in Tops : ~ (<<Y, X>> \in StrictSubsetOrdering(Nat))
  <2> HIDE DEF Tops
  <2> QED BY <1>1, <1>2, WFMin
<1>4. PICK x \in T : X = 0..x OBVIOUS
<1>5. ASSUME NEW y \in T, y < x PROVE FALSE
  <2>1. (0..y) \in Tops /\ (0..y) \subseteq X /\ (0..y) # X BY <1>4, <1>5
  <2>2. <<0..y, X>> \in StrictSubsetOrdering(Nat) BY <2>1, <1>4 DEF StrictSubsetOrdering
  <2> QED BY <1>3, <2>1, <2>2
<1> QED BY <1>5

\* Of a set of n numbers or more, one is the n-th.
LEMMA RankIsTaken ==
    ASSUME NEW F, NEW M \in Nat, F \subseteq 1 .. M, NEW n \in Nat \ {0}, n <= Cardinality(F)
    PROVE  \E id \in F : Cardinality({k \in F : k <= id}) = n
<1> DEFINE Low(i) == {k \in F : k <= i}
           T == {i \in 0 .. M : Cardinality(Low(i)) >= n}
<1>1. IsFiniteSet(F)
  <2>1. IsFiniteSet(1 .. M) BY FS_Interval
  <2>2. F \in SUBSET (1 .. M) OBVIOUS
  <2> QED BY <2>1, <2>2, FS_Subset
<1>2. \A i : IsFiniteSet(Low(i)) /\ Cardinality(Low(i)) \in Nat
  <2> SUFFICES ASSUME NEW i PROVE IsFiniteSet(Low(i)) /\ Cardinality(Low(i)) \in Nat OBVIOUS
  <2>1. Low(i) \in SUBSET F OBVIOUS
  <2> HIDE DEF Low
  <2> QED BY <1>1, <2>1, FS_Subset, FS_CardinalityType
<1>3. \A k \in F : k \in Nat /\ 1 <= k /\ k <= M OBVIOUS
<1>4. Low(M) = F /\ Low(0) = {}
  <2>1. \A k \in F : k <= M /\ ~(k <= 0) BY <1>3
  <2> QED BY <2>1
<1>5. \A i \in 1 .. M : Low(i) = IF i \in F THEN Low(i - 1) \cup {i} ELSE Low(i - 1)
  <2> SUFFICES ASSUME NEW i \in 1 .. M
               PROVE  Low(i) = IF i \in F THEN Low(i - 1) \cup {i} ELSE Low(i - 1) OBVIOUS
  <2>1. \A k \in F : k <= i <=> k <= i - 1 \/ k = i BY <1>3
  <2> QED BY <2>1
<1>6. \A i \in 1 .. M : i \notin Low(i - 1) OBVIOUS
<1> HIDE DEF Low
<1>7. T \subseteq Nat /\ M \in T BY <1>4
<1>8. PICK i \in T : \A j \in T : i <= j
  <2> HIDE DEF T
  <2> QED BY <1>7, LeastOf
<1>9. Cardinality(Low(0)) = 0 BY <1>4, FS_EmptySet
<1>10. i \in 1 .. M /\ Cardinality(Low(i)) >= n BY <1>8, <1>9
<1>11. i - 1 \in 0 .. M /\ i - 1 \notin T BY <1>8, <1>10
<1>12. ~(Cardinality(Low(i - 1)) >= n) BY <1>11
<1>13. Cardinality(Low(i)) = IF i \in F THEN Cardinality(Low(i - 1)) + 1 ELSE Cardinality(Low(i - 1))
  BY <1>2, <1>5, <1>6, <1>10, FS_AddElement
<1>14. i \in F /\ Cardinality(Low(i)) = n BY <1>2, <1>10, <1>12, <1>13
<1> QED BY <1>14 DEF Low

\* A screen holds as many names as it has rows.
LEMMA HeldIsFew ==
    ASSUME NEW u, Good(u), NEW k \in Live(u)
    PROVE  IsFiniteSet(Held(u.scr[k])) /\ Cardinality(Held(u.scr[k])) <= MaxRows /\ Held(u.scr[k]) \subseteq Names
<1> DEFINE s == u.scr[k]
<1>1. Gridded(u, k) BY DEF Good
<1>2. s \in Screens(k) /\ s.rows \in Nat BY LiveIs DEF Good, Screens, Widths
<1>3. s.cells \in [Upto(s.rows) -> Names] /\ s.rows <= MaxRows BY <1>1 DEF Gridded
<1>4. IsFiniteSet(Upto(s.rows)) /\ Cardinality(Upto(s.rows)) = s.rows
  <2> DEFINE r == s.rows
  <2> HIDE DEF r
  <2>1. r \in Nat /\ 0 \in Int /\ r - 1 \in Int BY <1>2 DEF r
  <2>2. IsFiniteSet(0 .. r - 1) /\ Cardinality(0 .. r - 1) = IF 0 > r - 1 THEN 0 ELSE r - 1 - 0 + 1
    BY <2>1, FS_Interval
  <2> QED BY <2>1, <2>2 DEF Upto, r
<1>5. s.cells \in Surjection(Upto(s.rows), Held(s)) BY <1>3 DEF Surjection, Held
<1>6. IsFiniteSet(Held(s)) /\ Cardinality(Held(s)) <= s.rows BY <1>4, <1>5, FS_Surjection
<1>7. Cardinality(Held(s)) \in Nat /\ MaxRows \in Nat BY <1>6, FS_CardinalityType, Known
<1>8. Held(s) \subseteq Names BY <1>3 DEF Held
<1> QED BY <1>2, <1>3, <1>6, <1>7, <1>8

\* The rows of the ring, and what a slot without one holds.
Slotted(u) == {u.scr["prim"].ring.sb[k] : k \in Upto(Cap)}

\* What the screens and the ring hold.
LEMMA UsedIs ==
    ASSUME NEW u, Good(u)
    PROVE  /\ Used(u) = (UNION {Held(u.scr[k]) : k \in Live(u)}) \cup Slotted(u)
           /\ Slotted(u) = Stored(u) \/ Slotted(u) = Stored(u) \cup {NoRow}
           /\ Slotted(u) \subseteq Names \cup {NoRow} /\ Stored(u) \subseteq Names
<1>1. u.scr["prim"].ring.sb \in [0 .. Cap - 1 -> Names \cup {NoRow}] BY RingIs DEF Ring
<1>2. Slotted(u) \subseteq Names \cup {NoRow} BY <1>1 DEF Slotted, Upto
<1> QED BY <1>2 DEF Used, Held, Slotted, Stored

\* They leave names for a screen more: allocation never fails.
LEMMA EnoughRows ==
    ASSUME NEW u, Good(u)
    PROVE  MaxRows <= Cardinality(Names \ Used(u)) /\ IsFiniteSet(Names \ Used(u))
<1> DEFINE P == Held(u.scr["prim"])
           A == IF "alt" \in Live(u) THEN Held(u.scr["alt"]) ELSE {}
           R == Slotted(u)
           H == UNION {Held(u.scr[k]) : k \in Live(u)}
<1>1. "prim" \in Live(u) /\ Live(u) \subseteq Kinds BY LiveIs DEF Good
<1>2. IsFiniteSet(P) /\ Cardinality(P) <= MaxRows BY <1>1, HeldIsFew
<1>3. IsFiniteSet(A) /\ Cardinality(A) <= MaxRows BY HeldIsFew, FS_EmptySet, Known
<1>4. IsFiniteSet(R) /\ Cardinality(R) <= Cap
  <2>1. u.scr["prim"].ring.sb \in [0 .. Cap - 1 -> Names \cup {NoRow}] BY RingIs DEF Ring
  <2>2. u.scr["prim"].ring.sb \in Surjection(Upto(Cap), R) BY <2>1 DEF Surjection, Slotted, Upto
  <2>3. IsFiniteSet(Upto(Cap)) /\ Cardinality(Upto(Cap)) = Cap BY Known, FS_Interval DEF Upto
  <2> QED BY <2>2, <2>3, FS_Surjection
<1>5. H = P \cup A BY <1>1 DEF Kinds
<1>0. Used(u) = H \cup R BY UsedIs
<1> HIDE DEF P, A, R, H
<1>6. IsFiniteSet(P \cup A) /\ Cardinality(P \cup A) <= 2 * MaxRows
  <2>1. /\ IsFiniteSet(P \cup A)
        /\ Cardinality(P \cup A) = Cardinality(P) + Cardinality(A) - Cardinality(P \cap A)
    BY <1>2, <1>3, FS_Union
  <2>2. IsFiniteSet(P \cap A) BY <1>2, FS_Intersection
  <2>3. Cardinality(P) \in Nat /\ Cardinality(A) \in Nat /\ Cardinality(P \cap A) \in Nat
    BY <1>2, <1>3, <2>2, FS_CardinalityType
  <2> QED BY <1>2, <1>3, <2>1, <2>3, Known
<1>7. IsFiniteSet(Used(u)) /\ Cardinality(Used(u)) <= 2 * MaxRows + Cap
  <2>1. /\ IsFiniteSet(Used(u))
        /\ Cardinality(Used(u)) = Cardinality(P \cup A) + Cardinality(R) - Cardinality((P \cup A) \cap R)
    BY <1>0, <1>4, <1>5, <1>6, FS_Union
  <2>2. IsFiniteSet((P \cup A) \cap R) BY <1>6, FS_Intersection
  <2>3. /\ Cardinality(P \cup A) \in Nat /\ Cardinality(R) \in Nat
        /\ Cardinality((P \cup A) \cap R) \in Nat
    BY <1>4, <1>6, <2>2, FS_CardinalityType
  <2> QED BY <1>4, <1>6, <2>1, <2>3, Known
<1>8. /\ IsFiniteSet(Names \ Used(u))
      /\ Cardinality(Names \ Used(u)) = Cardinality(Names) - Cardinality(Names \cap Used(u))
  BY Known, FS_Difference
<1>9. Cardinality(Names \cap Used(u)) <= Cardinality(Used(u))
  BY <1>7, FS_Intersection
<1>10. Cardinality(Names \cap Used(u)) \in Nat /\ Cardinality(Used(u)) \in Nat
  BY <1>7, FS_Intersection, FS_CardinalityType
<1> QED BY <1>7, <1>8, <1>9, <1>10, Known

\* The n-th name nothing holds is one, and another for another n.
LEMMA UnusedIs ==
    ASSUME NEW u, Good(u), NEW n \in 1 .. MaxRows
    PROVE  /\ Unused(u, n) \in Names \ Used(u)
           /\ Cardinality({k \in Names \ Used(u) : k <= Unused(u, n)}) = n
<1> DEFINE F == Names \ Used(u)
<1>1. F \subseteq 1 .. 3 * MaxRows + Cap /\ 3 * MaxRows + Cap \in Nat BY Known DEF Names
<1>2. n \in Nat \ {0} /\ n <= Cardinality(F)
  <2>1. MaxRows \in Nat /\ MaxRows <= Cardinality(F) /\ IsFiniteSet(F) BY EnoughRows, Known
  <2> HIDE DEF F
  <2>2. Cardinality(F) \in Nat BY <2>1, FS_CardinalityType
  <2> QED BY <2>1, <2>2
<1> HIDE DEF F
<1>3. \E id \in F : Cardinality({k \in F : k <= id}) = n BY <1>1, <1>2, RankIsTaken
<1> QED BY <1>3 DEF Unused, F

\* A new grid takes rows nothing holds, each once.
LEMMA GridIs ==
    ASSUME NEW u, Good(u), NEW n \in 1 .. MaxRows
    PROVE  /\ makeGrid(u, n) \in [Upto(n) -> Names] /\ makeGrid(u, n) \in Grids
           /\ \A y \in Upto(n) : makeGrid(u, n)[y] \notin Used(u)
           /\ \A y, z \in Upto(n) : makeGrid(u, n)[y] = makeGrid(u, n)[z] => y = z
<1>1. n \in Nat /\ \A y \in Upto(n) : y + 1 \in 1 .. MaxRows BY Known DEF Upto
<1>2. \A y \in Upto(n) : /\ Unused(u, y + 1) \in Names \ Used(u)
                         /\ Cardinality({k \in Names \ Used(u) : k <= Unused(u, y + 1)}) = y + 1
  BY <1>1, UnusedIs
<1>3. \A y, z \in Upto(n) : Unused(u, y + 1) = Unused(u, z + 1) => y = z
  <2> SUFFICES ASSUME NEW y \in Upto(n), NEW z \in Upto(n), Unused(u, y + 1) = Unused(u, z + 1)
               PROVE  y = z OBVIOUS
  <2>1. y + 1 = z + 1 BY <1>2
  <2> QED BY <1>1, <2>1 DEF Upto
<1>4. makeGrid(u, n) \in [Upto(n) -> Names] BY <1>2 DEF makeGrid
<1> QED BY <1>1, <1>2, <1>3, <1>4, GridIn DEF makeGrid

\* Rows that change places, and some that are wiped.
LEMMA SwapGoes ==
    ASSUME NEW u, Good(u), NEW p \in [Upto(S(u).rows) -> Upto(S(u).rows)],
           \A y, z \in Upto(S(u).rows) : p[y] = p[z] => y = z,
           \A z \in Upto(S(u).rows) : \E y \in Upto(S(u).rows) : p[y] = z,
           NEW save \in Upto(S(u).rows)
    PROVE  LET cells == [y \in Upto(S(u).rows) |-> S(u).cells[p[y]]]
               id == S(u).cells[save]
           IN Goes(u, [WithS(u, [S(u) EXCEPT !.cells = cells]) EXCEPT !.heap[id] = Blanked(u.heap[id])])
<1> DEFINE cells == [y \in Upto(S(u).rows) |-> S(u).cells[p[y]]]
           id == S(u).cells[save]
           r == [S(u) EXCEPT !.cells = cells]
           h == [u.heap EXCEPT ![id] = Blanked(u.heap[id])]
           v == [WithS(u, r) EXCEPT !.heap[id] = Blanked(u.heap[id])]
<1>1. /\ u \in Terms /\ u.on \in Kinds /\ Gridded(u, u.on) /\ S(u) = u.scr[u.on]
      /\ S(u) \in Screens(u.on)
      /\ u.heap \in [Names -> Texts] /\ S(u).cols \in Nat /\ S(u).rows \in Nat
  BY InUse, AtIs
<1>2. S(u).cells \in [Upto(S(u).rows) -> Names] BY <1>1 DEF Gridded
<1>3. id \in Names /\ id \in Held(S(u)) /\ DOMAIN u.heap[id] = Upto(S(u).cols)
  BY <1>1, <1>2 DEF Gridded, Held
<1>4. Blanked(u.heap[id]) \in [Upto(S(u).cols) -> Chars] /\ Blanked(u.heap[id]) \in Texts 
  <2> DEFINE row == u.heap[id]
  <2>1. DOMAIN row = Upto(S(u).cols) BY <1>3
  <2> HIDE DEF row
  <2>2. Blanked(row) \in [Upto(S(u).cols) -> Chars] BY <1>1, <2>1, BlankedIs
  <2>3. Blanked(row) \in Texts BY <1>1, <2>2, LineIn
  <2> QED BY <2>2, <2>3 DEF row
<1>5. /\ h \in [Names -> Texts]
      /\ \A i \in Names : DOMAIN h[i] = DOMAIN u.heap[i] /\ (i \notin Held(S(u)) => h[i] = u.heap[i])
  BY <1>1, <1>3, <1>4
<1>0. \A y, z \in Upto(S(u).rows) : S(u).cells[y] = S(u).cells[z] => y = z BY <1>1 DEF Gridded
<1>6. cells \in [Upto(S(u).rows) -> Names] /\ cells \in Grids BY <1>1, <1>2, GridIn
<1>7. \A y, z \in Upto(S(u).rows) : cells[y] = cells[z] => y = z
  <2> SUFFICES ASSUME NEW y \in Upto(S(u).rows), NEW z \in Upto(S(u).rows), cells[y] = cells[z]
               PROVE  y = z OBVIOUS
  <2>1. p[y] \in Upto(S(u).rows) /\ p[z] \in Upto(S(u).rows) /\ S(u).cells[p[y]] = S(u).cells[p[z]] OBVIOUS
  <2>2. p[y] = p[z] BY <1>0, <2>1
  <2> QED BY <2>2
<1>8. {cells[y] : y \in Upto(S(u).rows)} = Held(S(u))
  <2>1. \A y \in Upto(S(u).rows) : cells[y] \in Held(S(u)) BY DEF Held
  <2>2. ASSUME NEW z \in Upto(S(u).rows)
        PROVE  S(u).cells[z] \in {cells[y] : y \in Upto(S(u).rows)}
    <3>1. PICK y \in Upto(S(u).rows) : p[y] = z OBVIOUS
    <3> QED BY <3>1
  <2>3. Held(S(u)) = {S(u).cells[z] : z \in Upto(S(u).rows)} BY DEF Held
  <2> DEFINE H == Held(S(u))
             U == Upto(S(u).rows)
             g == S(u).cells
  <2>4. \A y \in U : cells[y] \in H BY <2>1
  <2>5. \A z \in U : g[z] \in {cells[y] : y \in U} BY <2>2
  <2>6. H = {g[z] : z \in U} BY <2>3
  <2> HIDE DEF cells, H, U, g
  <2>7. {cells[y] : y \in U} = H BY <2>4, <2>5, <2>6
  <2> QED BY <2>7 DEF H, U
<1> HIDE DEF cells
<1>9. /\ r \in Screens(u.on) /\ r.rows = S(u).rows /\ r.cols = S(u).cols /\ r.cells = cells
      /\ r.ring = S(u).ring
      /\ r.scrollTop = S(u).scrollTop /\ r.scrollBot = S(u).scrollBot
      /\ r.savedY = S(u).savedY /\ r.savedX = S(u).savedX
      /\ r.curY = S(u).curY /\ r.curX = S(u).curX
  BY <1>1, <1>6 DEF Screens
<1>10. Placement(r) BY <1>1, <1>9 DEF Placement, Gridded
<1> HIDE DEF r, h, id
<1>11. /\ v.on = u.on /\ v.altMode = u.altMode /\ v.gone = u.gone /\ v.heap = h
       /\ v.scr = [u.scr EXCEPT ![u.on] = r] /\ v \in Terms
  <2>1. /\ v.on = u.on /\ v.altMode = u.altMode /\ v.gone = u.gone /\ v.heap = h
        /\ v.scr = [u.scr EXCEPT ![u.on] = r]
        /\ v = [u EXCEPT !.scr = [u.scr EXCEPT ![u.on] = r], !.heap = h]
    BY <1>1 DEF WithS, Terms, h
  <2>2. [u.scr EXCEPT ![u.on] = r] \in {f \in [Kinds -> Screens("prim") \cup Screens("alt") \cup {NoAlt}] :
              f["prim"] \in Screens("prim") /\ f["alt"] \in Screens("alt") \cup {NoAlt}}
    BY <1>1, <1>9 DEF Terms, Kinds
  <2> QED BY <1>1, <1>5, <2>1, <2>2 DEF Terms
<1>12. S(v) = r /\ \A k \in Kinds \ {u.on} : v.scr[k] = u.scr[k] BY <1>1, <1>11 DEF S, Terms
<1>13. Held(r) = Held(S(u))
  <2>1. Held(r) = {cells[y] : y \in Upto(S(u).rows)} BY <1>9 DEF Held
  <2> QED BY <1>8, <2>1
<1> HIDE DEF v
<1>14. Drew(u, v) BY <1>5, <1>6, <1>7, <1>9, <1>10, <1>11, <1>12, <1>13 DEF Drew
<1> QED BY <1>14, DrewIsGood DEF v, r, cells, id

\* Screen.scrollDown.
LEMMA DownGoes ==
    ASSUME NEW u, Good(u), NEW top \in Nat, NEW bot \in Nat
    PROVE  Goes(u, scrollDown(u, top, bot))
<1> DEFINE s == S(u)
           p == [y \in Upto(s.rows) |-> IF y = top THEN bot - 1 ELSE IF top < y /\ y < bot THEN y - 1 ELSE y]
<1>1. CASE top >= bot \/ bot > s.rows BY <1>1, Stays DEF scrollDown
<1>2. CASE ~(top >= bot \/ bot > s.rows)
  <2>1. s.rows \in Nat /\ top < bot /\ bot <= s.rows BY <1>2, AtIs
  <2> HIDE DEF s
  <2>2. p \in [Upto(s.rows) -> Upto(s.rows)] BY <2>1 DEF Upto
  <2>3. \A y, z \in Upto(s.rows) : p[y] = p[z] => y = z BY <2>1 DEF Upto
  <2>4. \A z \in Upto(s.rows) : \E y \in Upto(s.rows) : p[y] = z
    <3> SUFFICES ASSUME NEW z \in Upto(s.rows) PROVE \E y \in Upto(s.rows) : p[y] = z OBVIOUS
    <3> DEFINE y == IF z = bot - 1 THEN top ELSE IF top <= z /\ z < bot - 1 THEN z + 1 ELSE z
    <3>1. y \in Upto(s.rows) /\ p[y] = z BY <2>1 DEF Upto
    <3> QED BY <3>1
  <2>5. bot - 1 \in Upto(s.rows) BY <2>1 DEF Upto
  <2>6. [y \in Upto(s.rows) |-> IF y = top THEN s.cells[bot - 1]
                     ELSE IF top < y /\ y < bot THEN s.cells[y - 1] ELSE s.cells[y]] = [y \in Upto(s.rows) |-> s.cells[p[y]]]
    OBVIOUS
  <2> HIDE DEF p
  <2>7. Goes(u, [WithS(u, [s EXCEPT !.cells = [y \in Upto(s.rows) |-> s.cells[p[y]]]])
                    EXCEPT !.heap[s.cells[bot - 1]] = Blanked(u.heap[s.cells[bot - 1]])])
    BY <2>2, <2>3, <2>4, <2>5, SwapGoes DEF s
  <2>8. scrollDown(u, top, bot) = [WithS(u, [s EXCEPT !.cells = [y \in Upto(s.rows) |-> s.cells[p[y]]]])
                    EXCEPT !.heap[s.cells[bot - 1]] = Blanked(u.heap[s.cells[bot - 1]])]
    <3>1. WithS(u, [s EXCEPT !.cells = [y \in Upto(s.rows) |-> s.cells[p[y]]]]).heap = u.heap
      BY InUse DEF WithS, Terms
    <3> QED BY <2>1, <2>6, <3>1 DEF scrollDown, s
  <2> QED BY <2>7, <2>8
<1> QED BY <1>1, <1>2

\* A ring of no capacity has nothing to remember.
LEMMA NothingToRemember ==
    ASSUME Cap = 0, NEW u, Good(u), NEW r, NEW row
    PROVE  Remember(WithS(u, r), row) = WithS(u, r)
<1> DEFINE v == WithS(u, r)
           all == Append(<<>>, row)
<1>1. u.scr["prim"].ring \in Ring(Cap, Names) /\ Len(u.gone) = u.scr["prim"].ring.len
  BY RingIs DEF Good, Remembered
<1>2. u \in Terms /\ u.gone \in Seq(Texts) /\ Len(u.gone) = 0 BY <1>1 DEF Good, Terms, Ring
<1>3. u.gone = <<>> BY <1>2
<1>4. v = [u EXCEPT !.scr = v.scr] /\ v.gone = <<>> BY <1>2, <1>3 DEF WithS, Terms
<1>5. [v EXCEPT !.gone = <<>>] = v BY <1>2, <1>4 DEF Terms
<1>6. Len(all) = 1 /\ Min2(Cap, 1) = 0 BY DEF Min2
<1>7. SubSeq(all, 2, 1) = <<>> OBVIOUS
<1> HIDE DEF v
<1>8. Remember(v, row) = [v EXCEPT !.gone = SubSeq(all, 2, 1)] BY <1>4, <1>6 DEF Remember
<1> QED BY <1>5, <1>7, <1>8 DEF v

\* Where the row that goes is not one of history.
LEMMA UpGoesPart ==
    ASSUME NEW u, Good(u), NEW top \in Nat, NEW bot \in Nat,
           Cap = 0 \/ ~(u.on = "prim" /\ top = 0 /\ bot = S(u).rows)
    PROVE  Goes(u, scrollUp(u, top, bot))
<1> DEFINE s == S(u)
           p == [y \in Upto(s.rows) |-> IF y = bot - 1 THEN top ELSE IF top <= y /\ y < bot THEN y + 1 ELSE y]
<1>1. CASE top >= bot \/ bot > s.rows BY <1>1, Stays DEF scrollUp
<1>2. CASE ~(top >= bot \/ bot > s.rows)
  <2>1. s.rows \in Nat /\ top < bot /\ bot <= s.rows BY <1>2, AtIs
  <2>a. ~(s.ring.cap > 0 /\ top = 0 /\ bot = s.rows)
    <3>1. CASE u.on = "prim"
      <4>1. Cap = 0 => s.ring.cap = 0 BY <3>1, RingIs DEF S, Ring
      <4> QED BY <3>1, <4>1
    <3>2. CASE u.on = "alt"
      <4>1. s.ring = newRing(0) BY <3>2, InUse DEF Screens, RingOf
      <4> QED BY <4>1 DEF newRing
    <3> QED BY <3>1, <3>2, InUse DEF Kinds
  <2> HIDE DEF s
  <2>2. p \in [Upto(s.rows) -> Upto(s.rows)] BY <2>1 DEF Upto
  <2>3. \A y, z \in Upto(s.rows) : p[y] = p[z] => y = z BY <2>1 DEF Upto
  <2>4. \A z \in Upto(s.rows) : \E y \in Upto(s.rows) : p[y] = z
    <3> SUFFICES ASSUME NEW z \in Upto(s.rows) PROVE \E y \in Upto(s.rows) : p[y] = z OBVIOUS
    <3> DEFINE y == IF z = top THEN bot - 1 ELSE IF top < z /\ z < bot THEN z - 1 ELSE z
    <3>1. y \in Upto(s.rows) /\ p[y] = z BY <2>1 DEF Upto
    <3> QED BY <3>1
  <2>5. top \in Upto(s.rows) BY <2>1 DEF Upto
  <2>6. [y \in Upto(s.rows) |-> IF y = bot - 1 THEN s.cells[top]
                     ELSE IF top <= y /\ y < bot THEN s.cells[y + 1] ELSE s.cells[y]] = [y \in Upto(s.rows) |-> s.cells[p[y]]]
    OBVIOUS
  <2> HIDE DEF p
  <2>7. Goes(u, [WithS(u, [s EXCEPT !.cells = [y \in Upto(s.rows) |-> s.cells[p[y]]]])
                    EXCEPT !.heap[s.cells[top]] = Blanked(u.heap[s.cells[top]])])
    BY <2>2, <2>3, <2>4, <2>5, SwapGoes DEF s
  <2>8. scrollUp(u, top, bot) = [WithS(u, [s EXCEPT !.cells = [y \in Upto(s.rows) |-> s.cells[p[y]]]])
                    EXCEPT !.heap[s.cells[top]] = Blanked(u.heap[s.cells[top]])]
    <3>1. [s EXCEPT !.cells = [y \in Upto(s.rows) |-> s.cells[p[y]]], !.ring
            = s.ring] = [s EXCEPT !.cells = [y \in Upto(s.rows) |-> s.cells[p[y]]]]
      BY InUse DEF Screens, s
    <3>2. Cap = 0 \/ ~(u.on = "prim" /\ top = 0 /\ bot = s.rows) BY DEF s
    <3>3. s = S(u) BY DEF s
    <3>4. WithS(u, [s EXCEPT !.cells = [y \in Upto(s.rows) |-> s.cells[p[y]]]]).heap = u.heap
      BY InUse DEF WithS, Terms
    <3> DEFINE c == [y \in Upto(s.rows) |-> IF y = bot - 1 THEN s.cells[top]
                     ELSE IF top <= y /\ y < bot THEN s.cells[y + 1] ELSE s.cells[y]]
    <3>5. scrollUp(u, top, bot) = [WithS(u, [s EXCEPT !.cells = c, !.ring = s.ring])
                      EXCEPT !.heap[s.cells[top]] = Blanked(u.heap[s.cells[top]])]
      <4> USE DEF s
      <4>1. ~(top >= bot \/ top < 0 \/ bot > s.rows) BY <2>1
      <4>2. ~(top = 0 /\ bot = s.rows) \/ (~(u.on = "prim" /\ Cap # 0) /\ ~(s.ring.cap > 0))
        BY <2>a, <3>2
      <4>3. CASE ~(top = 0 /\ bot = s.rows) BY <4>1, <4>3 DEF scrollUp
      <4>4. CASE ~(u.on = "prim") /\ ~(s.ring.cap > 0) BY <4>1, <4>4 DEF scrollUp
      <4>5. CASE Cap = 0 /\ ~(s.ring.cap > 0)
        <5>1. Remember(WithS(u, [s EXCEPT !.cells = c, !.ring = s.ring]), u.heap[s.cells[top]])
                = WithS(u, [s EXCEPT !.cells = c, !.ring = s.ring])
          BY <4>5, NothingToRemember
        <5> QED BY <4>1, <4>5, <5>1 DEF scrollUp
      <4> QED BY <4>2, <4>3, <4>4, <4>5
    <3> QED BY <2>6, <3>1, <3>5
  <2> QED BY <2>7, <2>8
<1> QED BY <1>1, <1>2

\* The ring's slots are filled in turn, each with a row of its own.
LEMMA PushFills ==
    ASSUME Cap # 0, NEW r \in Ring(Cap, Names), Filled(r), NEW row \in Names, \A k \in Upto(Cap) : r.sb[k] # row
    PROVE  LET q == pushScrollback(r, row)
           IN /\ q \in Ring(Cap, Names) /\ Filled(q)
              /\ \A k \in Upto(Cap) : q.sb[k] = IF k = r.head THEN row ELSE r.sb[k]
              /\ r.head \in Upto(Cap) /\ r.len \in 0 .. Cap /\ r.off \in 0 .. r.len
              /\ q.len = IF r.len = Cap THEN Cap ELSE r.len + 1
              /\ q.off = IF r.off > 0 /\ r.off < q.len THEN r.off + 1 ELSE r.off
              /\ Dropped(r) = r.sb[r.head] /\ (r.len = Cap <=> Dropped(r) # NoRow) /\ (AtCap(r) <=> r.len = Cap)
<1> DEFINE q == pushScrollback(r, row)
<1>1. q \in Ring(Cap, Names) BY PushIsRing, Known
<1>2. /\ r.len \in 0 .. Cap /\ r.head \in 0 .. Cap - 1 /\ r.cap = Cap /\ r.off \in 0 .. r.len
      /\ r.sb \in [0 .. Cap - 1 -> Names \cup {NoRow}]
  BY DEF Ring
<1>3. /\ q.len = (IF r.len = Cap THEN Cap ELSE r.len + 1)
      /\ q.head = (IF r.head + 1 = Cap THEN 0 ELSE r.head + 1)
      /\ q.sb = [r.sb EXCEPT ![r.head] = row]
      /\ q.off = (IF r.off > 0 /\ r.off < q.len THEN r.off + 1 ELSE r.off)
      /\ AtCap(r) <=> r.len = Cap
  BY <1>2 DEF pushScrollback, AtCap
<1> HIDE DEF q
<1>4. \A k \in Upto(Cap) : q.sb[k] = IF k = r.head THEN row ELSE r.sb[k] BY <1>2, <1>3 DEF Upto
<1>5. \A k, l \in Upto(Cap) : r.sb[k] = r.sb[l] /\ r.sb[k] # NoRow => k = l BY DEF Filled
<1>6. r.len < Cap => r.head = r.len /\ \A k \in Upto(Cap) : r.sb[k] # NoRow <=> k < r.len
  BY DEF Filled
<1>7. r.len = Cap => \A k \in Upto(Cap) : r.sb[k] # NoRow BY DEF Filled
<1>8. row # NoRow /\ Cap \in Nat \ {0} BY Known
<1>9. \A k, l \in Upto(Cap) : q.sb[k] = q.sb[l] /\ q.sb[k] # NoRow => k = l BY <1>4, <1>5
<1>10. q.len < Cap => q.head = q.len /\ \A k \in Upto(Cap) : q.sb[k] # NoRow <=> k < q.len
  <2> SUFFICES ASSUME q.len < Cap
               PROVE  q.head = q.len /\ \A k \in Upto(Cap) : q.sb[k] # NoRow <=> k < q.len OBVIOUS
  <2>1. r.len < Cap /\ q.len = r.len + 1 /\ q.head = q.len BY <1>2, <1>3, <1>6, <1>8
  <2>2. \A k \in Upto(Cap) : k < q.len <=> k < r.len \/ k = r.head BY <1>2, <1>6, <2>1 DEF Upto
  <2> QED BY <1>4, <1>6, <1>8, <2>1, <2>2
<1>11. q.len = Cap => \A k \in Upto(Cap) : q.sb[k] # NoRow
  <2> SUFFICES ASSUME q.len = Cap PROVE \A k \in Upto(Cap) : q.sb[k] # NoRow OBVIOUS
  <2>1. CASE r.len = Cap BY <1>4, <1>7, <1>8, <2>1
  <2>2. CASE r.len # Cap
    <3>1. r.len < Cap /\ r.len + 1 = Cap BY <1>2, <1>3, <1>8, <2>2
    <3>2. \A k \in Upto(Cap) : k < r.len \/ k = r.head BY <1>2, <1>6, <3>1 DEF Upto
    <3> QED BY <1>4, <1>6, <1>8, <3>1, <3>2
  <2> QED BY <2>1, <2>2
<1>12. r.head \in Upto(Cap) BY <1>2 DEF Upto
<1>13. Dropped(r) = r.sb[r.head] /\ (r.len = Cap <=> Dropped(r) # NoRow)
  <2>1. CASE r.len = Cap BY <1>3, <1>7, <1>12, <2>1 DEF Dropped
  <2>2. CASE r.len # Cap
    <3>1. r.len < Cap /\ r.head = r.len BY <1>2, <1>6, <1>8, <2>2
    <3>2. ~(r.head < r.len) BY <1>2, <3>1
    <3>3. r.sb[r.head] = NoRow BY <1>6, <1>12, <3>1, <3>2
    <3> QED BY <1>3, <2>2, <3>3 DEF Dropped
  <2> QED BY <2>1, <2>2
<1>14. Filled(q) BY <1>9, <1>10, <1>11 DEF Filled
<1> QED BY <1>1, <1>2, <1>3, <1>4, <1>12, <1>13, <1>14 DEF q

\* What becomes of the last Cap rows that scrolled off.
LEMMA RememberIs ==
    ASSUME Cap # 0, NEW u \in Terms, NEW row \in Texts, Len(u.gone) \in 0 .. Cap, NEW n, n = Len(u.gone)
    PROVE  LET g == Remember(u, row).gone
               m == IF n = Cap THEN Cap ELSE n + 1
           IN /\ g \in Seq(Texts) /\ Len(g) = m /\ g[m] = row
              /\ \A i \in 1 .. m - 1 : g[i] = u.gone[IF n = Cap THEN i + 1 ELSE i]
              /\ Remember(u, row) = [u EXCEPT !.gone = g]
<1> DEFINE all == Append(u.gone, row)
           k == Len(all) - Min2(Cap, Len(all)) + 1
           m == IF n = Cap THEN Cap ELSE n + 1
           g == SubSeq(all, k, Len(all))
<1>1. u.gone \in Seq(Texts) /\ Cap \in Nat \ {0} /\ n \in Nat /\ n <= Cap BY Known DEF Terms
<1>2. all \in Seq(Texts) /\ Len(all) = n + 1 /\ all[n + 1] = row /\ \A i \in 1 .. n : all[i] = u.gone[i]
  BY <1>1
<1> HIDE DEF all
<1>3. k = IF n = Cap THEN 2 ELSE 1
  <2> DEFINE L == Len(all)
  <2>0. L = n + 1 BY <1>2
  <2> HIDE DEF L
  <2>1. Cap \in Nat /\ n \in Nat /\ n <= Cap BY <1>1
  <2>2. CASE n = Cap
    <3>1. L = Cap + 1 /\ Min2(Cap, L) = Cap BY <2>0, <2>1, <2>2 DEF Min2
    <3> QED BY <2>1, <2>2, <3>1 DEF L
  <2>3. CASE n # Cap
    <3>1. L = n + 1 /\ Min2(Cap, L) = L BY <2>0, <2>1, <2>3 DEF Min2
    <3> QED BY <2>1, <2>3, <3>1 DEF L
  <2> QED BY <2>2, <2>3
<1>4. k \in 1 .. n + 1 /\ Len(all) - k + 1 = m BY <1>1, <1>2, <1>3
<1>5. g \in Seq(Texts) BY <1>2, <1>4, SubSeqProperties
<1>6. Len(g) = m /\ \A i \in 1 .. m : g[i] = all[k + i - 1]
  <2> HIDE DEF k
  <2>1. k \in 1 .. Len(all) + 1 /\ Len(all) \in k - 1 .. Len(all) BY <1>1, <1>2, <1>4
  <2> QED BY <1>2, <1>4, <2>1, SubSeqProperties
<1>7. g[m] = row /\ \A i \in 1 .. m - 1 : g[i] = u.gone[IF n = Cap THEN i + 1 ELSE i]
  <2> HIDE DEF g, k
  <2>1. m \in 1 .. m /\ k + m - 1 = n + 1 BY <1>1, <1>2, <1>4
  <2>2. \A i \in 1 .. m - 1 : i \in 1 .. m /\ k + i - 1 = (IF n = Cap THEN i + 1 ELSE i) /\ k + i - 1 \in 1 .. n
    BY <1>1, <1>3
  <2> QED BY <1>2, <1>6, <2>1, <2>2
<1>8. Remember(u, row) = [u EXCEPT !.gone = g] BY DEF Remember, all
<1> HIDE DEF g, m
<1>9. Remember(u, row).gone = g BY <1>1, <1>8 DEF Terms
<1> QED BY <1>5, <1>6, <1>7, <1>8, <1>9 DEF m

\* The row that takes the place of the one that goes has no other place.
LEMMA SpareIs ==
    ASSUME Cap # 0, NEW u, Good(u), u.on = "prim"
    PROVE  LET spare == Recycled(u)
               r == S(u).ring
           IN /\ spare.row \in Names /\ \A k \in Live(u) : spare.row \notin Held(u.scr[k])
              /\ Blanked(spare.cells) \in [Upto(S(u).cols) -> Chars]
              /\ \A k \in Upto(Cap) : k # r.head => r.sb[k] # spare.row
<1> DEFINE old == Dropped(S(u).ring)
           r == S(u).ring
<1>1. /\ u \in Terms /\ S(u) = u.scr["prim"] /\ u.heap \in [Names -> Texts] /\ S(u).cols \in Nat
      /\ Filled(r) /\ Apart(u) /\ r \in Ring(Cap, Names)
  BY InUse, AtIs, RingIs DEF Good, S
<1>2. r.sb \in [Upto(Cap) -> Names \cup {NoRow}] /\ r.head \in Upto(Cap)
  BY <1>1, Known DEF Ring, Upto
<1>3. CASE old # NoRow /\ DOMAIN u.heap[old] = Upto(S(u).cols)
  <2>1. Recycled(u) = [row |-> old, cells |-> u.heap[old]] BY <1>3 DEF Recycled
  <2>2. old = r.sb[r.head] BY <1>3 DEF Dropped
  <2>3. old \in Stored(u) /\ old \in Names BY <1>1, <1>2, <1>3, <2>2 DEF Stored
  <2>4. \A k \in Live(u) : old \notin Held(u.scr[k]) BY <1>1, <2>3 DEF Apart
  <2>5. \A k \in Upto(Cap) : k # r.head => r.sb[k] # old BY <1>1, <1>2, <1>3, <2>2 DEF Filled
  <2>6. Blanked(u.heap[old]) \in [Upto(S(u).cols) -> Chars]
    <3> DEFINE row == u.heap[old]
    <3>1. DOMAIN row = Upto(S(u).cols) BY <1>3
    <3> HIDE DEF row
    <3>2. Blanked(row) \in [Upto(S(u).cols) -> Chars] BY <1>1, <3>1, BlankedIs
    <3> QED BY <3>2 DEF row
  <2> HIDE DEF old
  <2> QED BY <2>1, <2>3, <2>4, <2>5, <2>6
<1>4. CASE ~(old # NoRow /\ DOMAIN u.heap[old] = Upto(S(u).cols))
  <2>1. Recycled(u) = [row |-> Unused(u, 1), cells |-> BlankRow(S(u).cols)] BY <1>4 DEF Recycled
  <2>2. 1 \in 1 .. MaxRows BY AtIs, Known
  <2>3. Unused(u, 1) \in Names \ Used(u) BY <2>2, UnusedIs
  <2>4. (\A k \in Live(u) : Held(u.scr[k]) \subseteq Used(u)) /\ \A k \in Upto(Cap) : r.sb[k] \in Used(u)
    BY <1>1, UsedIs DEF Slotted
  <2>5. Blanked(BlankRow(S(u).cols)) \in [Upto(S(u).cols) -> Chars]
    BY <1>1, BlankRowIs, BlankedIs
  <2> QED BY <2>1, <2>3, <2>4, <2>5
<1> QED BY <1>3, <1>4

\* The whole primary screen scrolls: its first row is the newest of the history.
LEMMA UpGoesWhole ==
    ASSUME Cap # 0, NEW u, Good(u), u.on = "prim", NEW bot, bot = S(u).rows
    PROVE  Goes(u, scrollUp(u, 0, bot))
<1> DEFINE s == S(u)
           r == s.ring
           save == s.cells[0]
           spare == Recycled(u)
           cells == [y \in Upto(s.rows) |-> IF y = bot - 1 THEN spare.row
                     ELSE IF 0 <= y /\ y < bot THEN s.cells[y + 1] ELSE s.cells[y]]
           q == pushScrollback(r, save)
           z == [s EXCEPT !.cells = cells, !.ring = q]
           g == Remember(u, u.heap[save]).gone
           h == [u.heap EXCEPT ![spare.row] = Blanked(spare.cells)]
           v == scrollUp(u, 0, bot)
<1>1. /\ u \in Terms /\ Gridded(u, "prim") /\ s = u.scr["prim"] /\ s \in Screens("prim")
      /\ u.heap \in [Names -> Texts]
      /\ s.cols \in Nat \ {0} /\ s.rows \in Nat \ {0} /\ s.rows <= MaxRows
      /\ r \in Ring(Cap, Names) /\ Filled(r) /\ Apart(u) /\ Remembered(u)
      /\ "prim" \in Live(u) /\ Live(u) \subseteq Kinds /\ ~u.altMode
  BY InUse, AtIs, RingIs, LiveIs DEF Good, S
<1>2. /\ s.cells \in [Upto(s.rows) -> Names] /\ \A y \in Upto(s.rows) : DOMAIN u.heap[s.cells[y]] = Upto(s.cols)
      /\ \A x, y \in Upto(s.rows) : s.cells[x] = s.cells[y] => x = y
      /\ Placement(s)
  BY <1>1 DEF Gridded
<1>3. 0 \in Upto(s.rows) /\ save \in Names /\ save \in Held(s) /\ u.heap[save] \in Texts
  BY <1>1, <1>2 DEF Upto, Held
<1>4. \A k \in Upto(Cap) : r.sb[k] # save
  <2>1. Held(s) \cap Stored(u) = {} BY <1>1 DEF Apart
  <2>2. \A k \in Upto(Cap) : r.sb[k] # NoRow => r.sb[k] \in Stored(u) BY <1>1 DEF Stored
  <2> QED BY <1>3, <2>1, <2>2, Known
<1>5. /\ q \in Ring(Cap, Names) /\ Filled(q)
      /\ \A k \in Upto(Cap) : q.sb[k] = IF k = r.head THEN save ELSE r.sb[k]
      /\ r.head \in Upto(Cap) /\ r.len \in 0 .. Cap /\ r.off \in 0 .. r.len
      /\ q.len = IF r.len = Cap THEN Cap ELSE r.len + 1
      /\ q.off = IF r.off > 0 /\ r.off < q.len THEN r.off + 1 ELSE r.off
      /\ AtCap(r) <=> r.len = Cap
  BY <1>1, <1>3, <1>4, PushFills
<1>6. /\ spare.row \in Names /\ \A k \in Live(u) : spare.row \notin Held(u.scr[k])
      /\ Blanked(spare.cells) \in [Upto(s.cols) -> Chars]
      /\ \A k \in Upto(Cap) : k # r.head => r.sb[k] # spare.row
  BY SpareIs
<1>7. /\ g \in Seq(Texts) /\ Len(g) = q.len /\ g[q.len] = u.heap[save]
      /\ \A i \in 1 .. q.len - 1 : g[i] = u.gone[IF r.len = Cap THEN i + 1 ELSE i]
      /\ Remember(u, u.heap[save]) = [u EXCEPT !.gone = g]
  <2> DEFINE n == Len(u.gone)
             g0 == Remember(u, u.heap[save]).gone
             m == IF n = Cap THEN Cap ELSE n + 1
  <2>1. n = r.len /\ n \in 0 .. Cap BY <1>1, <1>5 DEF Remembered
  <2>2. /\ g0 \in Seq(Texts) /\ Len(g0) = m /\ g0[m] = u.heap[save]
        /\ \A i \in 1 .. m - 1 : g0[i] = u.gone[IF n = Cap THEN i + 1 ELSE i]
        /\ Remember(u, u.heap[save]) = [u EXCEPT !.gone = g0]
    <3> DEFINE row == u.heap[save]
    <3>1. row \in Texts /\ u \in Terms BY <1>1, <1>3
    <3> HIDE DEF row
    <3>2. LET gg == Remember(u, row).gone
              mm == IF n = Cap THEN Cap ELSE n + 1
          IN /\ gg \in Seq(Texts) /\ Len(gg) = mm /\ gg[mm] = row
             /\ \A i \in 1 .. mm - 1 : gg[i] = u.gone[IF n = Cap THEN i + 1 ELSE i]
             /\ Remember(u, row) = [u EXCEPT !.gone = gg]
      BY <2>1, <3>1, RememberIs
    <3> QED BY <3>2 DEF row
  <2>3. m = q.len BY <1>5, <2>1
  <2> HIDE DEF m, n, q
  <2> QED BY <2>1, <2>2, <2>3
<1>8. /\ sbRow(q, q.len - 1) = save
      /\ \A i \in 0 .. q.len - 2 : sbRow(q, i) = sbRow(r, IF r.len = Cap THEN i + 1 ELSE i)
  BY <1>1, <1>3, <1>5, Known, PushKeepsOrder
<1>9. v = [u EXCEPT !.scr["prim"] = z, !.gone = g, !.heap = h]
  <2>1. r.cap = Cap /\ Cap > 0 BY <1>1, Known DEF Ring
  <2>2. ~(0 >= bot \/ 0 < 0 \/ bot > s.rows) BY <1>1
  <2>3. v = [Remember(WithS(u, z), u.heap[save]) EXCEPT !.heap[spare.row] = Blanked(spare.cells)]
    BY <2>1, <2>2 DEF scrollUp
  <2>4. Remember(WithS(u, z), u.heap[save]) = [WithS(u, z) EXCEPT !.gone = g]
    BY <1>1 DEF Remember, WithS, Terms
  <2> HIDE DEF z, g
  <2> QED BY <1>1, <2>3, <2>4 DEF WithS, Terms
<1> HIDE DEF q, z, g, h, v, spare
<1>10. h \in [Names -> Texts] /\ \A id \in Names : h[id] = IF id = spare.row THEN Blanked(spare.cells) ELSE u.heap[id]
  <2>1. Blanked(spare.cells) \in Texts BY <1>1, <1>6, LineIn
  <2> QED BY <1>1, <1>6, <2>1 DEF h
<1>11. cells \in [Upto(s.rows) -> Names] /\ cells \in Grids /\ \A y \in Upto(s.rows) :
         cells[y] = IF y = s.rows - 1 THEN spare.row ELSE s.cells[y + 1]
  <2>1. \A y \in Upto(s.rows) : y # s.rows - 1 => y + 1 \in Upto(s.rows) /\ 0 <= y /\ y < s.rows
    BY <1>1 DEF Upto
  <2>2. cells \in [Upto(s.rows) -> Names] BY <1>2, <1>6, <2>1
  <2> QED BY <1>1, <2>1, <2>2, GridIn
<1> HIDE DEF cells
<1>12. /\ z \in Screens("prim") /\ z.rows = s.rows /\ z.cols = s.cols /\ z.cells = cells
       /\ z.ring = q /\ Placement(z)
  <2>1. /\ z \in Screens("prim") /\ z.rows = s.rows /\ z.cols = s.cols /\ z.cells = cells
        /\ z.ring = q
        /\ z.scrollTop = s.scrollTop /\ z.scrollBot = s.scrollBot /\ z.savedY = s.savedY
        /\ z.savedX = s.savedX
        /\ z.curY = s.curY /\ z.curX = s.curX
    BY <1>1, <1>5, <1>11 DEF Screens, RingOf, z
  <2> QED BY <1>2, <2>1 DEF Placement
<1>13. /\ v.on = "prim" /\ v.altMode = u.altMode /\ v.gone = g /\ v.heap = h
       /\ v.scr["prim"] = z /\ v.scr["alt"] = u.scr["alt"]
       /\ v \in Terms
  <2>1. [u.scr EXCEPT !["prim"] = z] \in {f \in [Kinds -> Screens("prim") \cup Screens("alt") \cup {NoAlt}] :
              f["prim"] \in Screens("prim") /\ f["alt"] \in Screens("alt") \cup {NoAlt}}
    BY <1>1, <1>12 DEF Terms, Kinds
  <2> QED BY <1>1, <1>7, <1>9, <1>10, <2>1 DEF Terms, Kinds
<1>14. Live(v) = Live(u) /\ "prim" \in Live(v) BY <1>1, <1>12, <1>13, Exists DEF Live, Kinds
<1>15. Held(z) = (Held(s) \ {save}) \cup {spare.row} /\ (\A x, y \in Upto(s.rows) : cells[x] = cells[y] => x = y)
  <2>1. \A y \in Upto(s.rows) : y # s.rows - 1 => y + 1 \in Upto(s.rows) /\ y + 1 # 0 /\ s.cells[y + 1] \in Held(s) \ {save}
    BY <1>1, <1>2, <1>3 DEF Upto, Held
  <2>2. \A y \in Upto(s.rows) : y = 0 \/ (y - 1 \in Upto(s.rows) /\ y - 1 # s.rows - 1 /\ y - 1 + 1 = y)
    BY <1>1 DEF Upto
  <2>3. s.rows - 1 \in Upto(s.rows) BY <1>1 DEF Upto
  <2>4. Held(z) = {cells[y] : y \in Upto(s.rows)} BY <1>12 DEF Held
  <2>5. Held(z) \subseteq (Held(s) \ {save}) \cup {spare.row} BY <1>11, <2>1, <2>4
  <2>6. ASSUME NEW x \in Held(s) \ {save} PROVE x \in Held(z)
    <3>1. PICK y \in Upto(s.rows) : x = s.cells[y] BY DEF Held
    <3>2. y # 0 BY <3>1
    <3>3. cells[y - 1] = x BY <1>11, <2>2, <3>1, <3>2
    <3> QED BY <2>2, <2>4, <3>2, <3>3
  <2>7. spare.row \in Held(z) BY <1>11, <2>3, <2>4
  <2>8. spare.row \notin Held(s) BY <1>1, <1>6
  <2>9. ASSUME NEW x \in Upto(s.rows), NEW y \in Upto(s.rows), cells[x] = cells[y] PROVE x = y
    <3>1. CASE x = s.rows - 1 \/ y = s.rows - 1 BY <1>11, <2>1, <2>8, <2>9, <3>1
    <3>2. CASE x # s.rows - 1 /\ y # s.rows - 1
      <4>1. s.cells[x + 1] = s.cells[y + 1] /\ x + 1 \in Upto(s.rows) /\ y + 1 \in Upto(s.rows)
        BY <1>11, <2>1, <2>9, <3>2
      <4>2. x + 1 = y + 1 BY <1>2, <4>1
      <4> QED BY <1>1, <4>2 DEF Upto
    <3> QED BY <3>1, <3>2
  <2> QED BY <2>5, <2>6, <2>7, <2>9
<1>16. Stored(v) \subseteq Stored(u) \cup {save} /\ spare.row \notin Stored(v)
  <2>1. Stored(v) = {q.sb[k] : k \in Upto(Cap)} \ {NoRow} BY <1>12, <1>13 DEF Stored
  <2>2. Stored(u) = {r.sb[k] : k \in Upto(Cap)} \ {NoRow} BY <1>1 DEF Stored
  <2>3. save # spare.row BY <1>1, <1>3, <1>6
  <2> QED BY <1>5, <1>6, <2>1, <2>2, <2>3
<1>17. \A k \in Live(v) : Gridded(v, k)
  <2>1. Gridded(v, "prim")
    <3>1. \A y \in Upto(s.rows) : DOMAIN h[cells[y]] = Upto(s.cols)
      <4> SUFFICES ASSUME NEW y \in Upto(s.rows) PROVE DOMAIN h[cells[y]] = Upto(s.cols) OBVIOUS
      <4>1. CASE y = s.rows - 1 BY <1>6, <1>10, <1>11, <4>1
      <4>2. CASE y # s.rows - 1
        <5>1. y + 1 \in Upto(s.rows) BY <1>1, <4>2 DEF Upto
        <5>2. s.cells[y + 1] # spare.row BY <1>1, <1>6, <5>1 DEF Held
        <5> QED BY <1>2, <1>10, <1>11, <4>2, <5>1, <5>2
      <4> QED BY <4>1, <4>2
    <3> QED BY <1>1, <1>11, <1>12, <1>13, <1>15, <3>1 DEF Gridded
  <2>2. "alt" \in Live(u) => Gridded(v, "alt")
    <3> SUFFICES ASSUME "alt" \in Live(u) PROVE Gridded(v, "alt") OBVIOUS
    <3> DEFINE a == u.scr["alt"]
    <3>1. Gridded(u, "alt") /\ spare.row \notin Held(a) BY <1>6 DEF Good
    <3>2. \A y \in Upto(a.rows) : a.cells[y] \in Names /\ a.cells[y] # spare.row
      BY <3>1 DEF Gridded, Held
    <3>3. \A y \in Upto(a.rows) : h[a.cells[y]] = u.heap[a.cells[y]] BY <1>10, <3>2
    <3> QED BY <1>13, <3>1, <3>3 DEF Gridded
  <2> QED BY <1>1, <1>14, <2>1, <2>2 DEF Kinds
<1>18. Apart(v)
  <2>1. Held(s) \cap Stored(u) = {} /\ ("alt" \in Live(u) => Held(u.scr["alt"]) \cap Stored(u) = {} /\ Held(s) \cap Held(u.scr["alt"]) = {})
    BY <1>1 DEF Apart
  <2>2. Held(z) \cap Stored(v) = {} BY <1>15, <1>16, <2>1
  <2>3. "alt" \in Live(u) => Held(u.scr["alt"]) \cap Stored(v) = {} /\ Held(z) \cap Held(u.scr["alt"]) = {}
    BY <1>3, <1>6, <1>15, <1>16, <2>1
  <2> QED BY <1>1, <1>13, <1>14, <2>2, <2>3 DEF Apart, Kinds
<1>19. Remembered(v)
  <2>1. Len(u.gone) = r.len /\ \A i \in 0 .. r.len - 1 : u.heap[sbRow(r, i)] = u.gone[i + 1]
    BY <1>1 DEF Remembered
  <2>2. q.len \in Nat \ {0} BY <1>5, Known
  <2>3. ASSUME NEW i \in 0 .. q.len - 1 PROVE h[sbRow(q, i)] = g[i + 1]
    <3>1. sbRow(q, i) \in Stored(v) /\ sbRow(q, i) \in Names BY <1>5, <1>12, <1>13, SlotIsRow
    <3>2. h[sbRow(q, i)] = u.heap[sbRow(q, i)] BY <1>10, <1>16, <3>1
    <3>3. CASE i = q.len - 1
      <4>1. i + 1 = q.len BY <2>2, <3>3
      <4> QED BY <1>7, <1>8, <3>2, <3>3, <4>1
    <3>4. CASE i # q.len - 1
      <4> DEFINE j == IF r.len = Cap THEN i + 1 ELSE i
      <4>1. i \in 0 .. q.len - 2 /\ i + 1 \in 1 .. q.len - 1 /\ j \in 0 .. r.len - 1
        BY <1>5, <2>2, <3>4, Known
      <4>2. (IF r.len = Cap THEN (i + 1) + 1 ELSE i + 1) = j + 1 BY <4>1
      <4>3. g[i + 1] = u.gone[j + 1] BY <1>7, <4>1, <4>2
      <4>4. sbRow(q, i) = sbRow(r, j) BY <1>8, <4>1
      <4> HIDE DEF j
      <4> QED BY <2>1, <3>2, <4>1, <4>3, <4>4
    <3> QED BY <3>3, <3>4
  <2> QED BY <1>7, <1>12, <1>13, <2>3 DEF Remembered
<1>20. Good(v) BY <1>1, <1>5, <1>12, <1>13, <1>14, <1>17, <1>18, <1>19 DEF Good
<1>21. HistoryKept(u, v)
  <2>1. r.off <= q.off BY <1>5
  <2>2. ASSUME q.off < Cap, NEW i \in 1 .. r.off
        PROVE  g[q.len - q.off + i] = u.gone[r.len - r.off + i]
    <3>1. r.off > 0 /\ r.off < q.len /\ q.off = r.off + 1 BY <1>5, <2>2, Known
    <3> DEFINE j == q.len - q.off + i
    <3>2. j \in 1 .. q.len - 1 /\ (IF r.len = Cap THEN j + 1 ELSE j) = r.len - r.off + i
      BY <1>5, <2>2, <3>1, Known
    <3> QED BY <1>7, <3>2
  <2> QED BY <1>1, <1>12, <1>13, <2>1, <2>2 DEF HistoryKept
<1> QED BY <1>1, <1>13, <1>20, <1>21 DEF Goes, Kept, ShellKept, v

\* Screen.scrollUp.
LEMMA UpGoes ==
    ASSUME NEW u, Good(u), NEW top \in Nat, NEW bot \in Nat
    PROVE  Goes(u, scrollUp(u, top, bot))
BY UpGoesWhole, UpGoesPart

\* A line feed scrolls at the bottom margin, a reverse index at the top one.
LEMMA IndexGoes == ASSUME NEW u, Good(u) PROVE Goes(u, index(u)) /\ Goes(u, reverseIndex(u))
<1> DEFINE s == S(u)
<1>1. /\ Goes(u, scrollUp(u, s.scrollTop, s.scrollBot))
      /\ Goes(u, scrollDown(u, s.scrollTop, s.scrollBot))
  BY AtIs, UpGoes, DownGoes
<1>2. s.curY < s.rows - 1 => Fits(u, s.curY + 1, s.curX) BY AtIs DEF Fits
<1>3. s.curY > 0 => Fits(u, s.curY - 1, s.curX) BY AtIs DEF Fits
<1>4. s.curY < s.rows - 1 => Goes(u, Move(u, s.curY + 1, s.curX)) BY <1>2, MoveGoes
<1>5. s.curY > 0 => Goes(u, Move(u, s.curY - 1, s.curX)) BY <1>3, MoveGoes
<1>6. Goes(u, index(u)) BY <1>1, <1>4, Stays DEF index
<1>7. Goes(u, reverseIndex(u)) BY <1>1, <1>5, Stays DEF reverseIndex
<1> QED BY <1>6, <1>7

\* VTParser.index from the first column.
LEMMA NextLineGoes == ASSUME NEW u, Good(u) PROVE Goes(u, NextLine(u))
<1> DEFINE v == Move(u, S(u).curY, 0)
<1>1. Fits(u, S(u).curY, 0) BY AtIs DEF Fits
<1>2. Goes(u, v) BY <1>1, MoveGoes
<1>3. Good(v) BY <1>2 DEF Goes
<1> HIDE DEF v
<1>4. Goes(v, index(v)) BY <1>3, IndexGoes
<1>5. Goes(u, index(v)) BY <1>2, <1>4, GoesOn
<1> QED BY <1>5 DEF NextLine, v

\* A character that does not fit goes to the next line.
LEMMA WrappedGoes == ASSUME NEW u, Good(u), NEW cw \in 0 .. 2 PROVE Goes(u, Wrapped(u, cw))
<1> DEFINE s == S(u)
           r == [s EXCEPT !.xenl = FALSE]
           off == WithS(u, r)
           due == IF ~s.xenl THEN u ELSE IF s.autoWrap THEN NextLine(off) ELSE off
<1>1. S(u) \in Screens(u.on) /\ Placement(S(u)) BY InUse DEF Gridded
<1>2. /\ r \in Screens(u.on) /\ r.rows = s.rows /\ r.cols = s.cols /\ r.cells = s.cells
      /\ r.ring = s.ring /\ Placement(r)
  BY <1>1 DEF Screens, Placement
<1>3. Goes(u, off) BY <1>2, PlaceGoes
<1>4. Good(off) BY <1>3 DEF Goes
<1> HIDE DEF off
<1>5. Goes(off, NextLine(off)) BY <1>4, NextLineGoes
<1>6. Goes(u, NextLine(off)) BY <1>3, <1>5, GoesOn
<1>7. Goes(u, due) /\ Good(due) BY <1>3, <1>6, Stays DEF Goes
<1> HIDE DEF due
<1>8. Goes(due, NextLine(due)) BY <1>7, NextLineGoes
<1>9. Goes(u, NextLine(due)) BY <1>7, <1>8, GoesOn
<1>10. Wrapped(u, cw) = IF S(due).curX + cw > s.cols /\ s.autoWrap THEN NextLine(due) ELSE due
  BY DEF Wrapped, due, off
<1> QED BY <1>7, <1>9, <1>10

\* VTParser.doPrint.
LEMMA PrintGoes == ASSUME NEW u, Good(u), NEW ch \in Chars PROVE Goes(u, doPrint(u, ch))
<1> DEFINE cw == runeWidth(ch)
           a == [u EXCEPT !.lastChar = ch]
           v == IF S(a).insert THEN Shifted(a, cw) ELSE a
           at == Wrapped(v, cw)
<1>1. cw \in 0 .. 2 BY DEF runeWidth
<1>2. Goes(u, a) /\ Good(a)
  <2>1. u \in Terms BY InUse
  <2>2. u.down \in BOOLEAN /\ a = [u EXCEPT !.lastChar = ch, !.down = u.down] BY <2>1 DEF Terms
  <2> HIDE DEF a
  <2> QED BY <2>2, FlagGoes DEF Goes
<1> HIDE DEF a, cw
<1>3. Goes(a, v) BY <1>1, <1>2, ShiftedGoes, Stays
<1>4. Goes(u, v) /\ Good(v) BY <1>2, <1>3, GoesOn DEF Goes
<1> HIDE DEF v
<1>5. Goes(v, at) BY <1>1, <1>4, WrappedGoes
<1>6. Goes(u, at) /\ Good(at) BY <1>4, <1>5, GoesOn DEF Goes
<1> HIDE DEF at
<1>7. ASSUME cw # 0, ~(S(at).curY >= S(at).rows \/ S(at).curX >= S(at).cols)
      PROVE  Goes(u, Put(at, ch, cw))
  <2>1. S(at).curY < S(at).rows /\ S(at).curX < S(at).cols /\ cw \in 1 .. 2
    BY <1>1, <1>6, <1>7, AtIs
  <2>2. Goes(at, Put(at, ch, cw)) BY <1>6, <2>1, PutGoes
  <2> QED BY <1>6, <2>2, GoesOn
<1>8. doPrint(u, ch) = IF cw = 0 THEN a
       ELSE IF v.down THEN v
       ELSE IF S(at).curX + cw > S(at).cols /\ ~S(at).autoWrap THEN at
       ELSE IF S(at).curY >= S(at).rows \/ S(at).curX >= S(at).cols THEN at
       ELSE Put(at, ch, cw)
  BY DEF doPrint, Placing, at, v, a, cw
<1> QED BY <1>2, <1>4, <1>6, <1>7, <1>8

\* One time of each sequence that repeats.
LEMMA OnceGoes ==
    ASSUME NEW u, Good(u), NEW op \in {"IL", "DL", "SU", "SD", "REP"}
    PROVE  Goes(u, Once(op, u))
<1>1. S(u).curY \in Nat /\ S(u).scrollTop \in Nat /\ S(u).scrollBot \in Nat BY AtIs
<1>2. u.lastChar \in Chars BY InUse DEF Terms
<1>3. Goes(u, doPrint(u, u.lastChar)) BY <1>2, PrintGoes
<1> QED BY <1>1, <1>3, UpGoes, DownGoes, Stays DEF Once

\* What is done a number of times, each time to what the last one left.
Runs(A, a, n, F) == \E g \in [0 .. n -> A] : g[0] = a /\ \A k \in 1 .. n : g[k] = F[k][g[k - 1]]

\* A number of maps, each applied to what the last one left, lead somewhere.
LEMMA InTurn ==
    ASSUME NEW A, NEW a \in A, NEW n \in Nat, NEW F \in [1 .. n -> [A -> A]]
    PROVE  Runs(A, a, n, F)
<1> DEFINE Solves(g, m) == g[0] = a /\ \A k \in 1 .. m : g[k] = F[k][g[k - 1]]
           T == {m \in Nat : m <= n /\ ~ \E g \in [0 .. m -> A] : Solves(g, m)}
<1>1. ASSUME NEW x \in T, \A y \in T : x <= y PROVE FALSE
  <2>1. CASE x = 0
    <3> DEFINE g == [k \in 0 .. 0 |-> a]
    <3>1. g \in [0 .. 0 -> A] /\ g[0] = a /\ \A k \in 1 .. 0 : FALSE OBVIOUS
    <3>2. Solves(g, 0) BY <3>1
    <3> QED BY <2>1, <3>1, <3>2
  <2>2. CASE x # 0
    <3>1. x \in Nat /\ x - 1 \in Nat /\ x <= n /\ x - 1 <= n /\ x - 1 \notin T
      <4> HIDE DEF Solves
      <4> QED BY <1>1, <2>2
    <3>2. PICK g \in [0 .. x - 1 -> A] : Solves(g, x - 1) BY <3>1
    <3> DEFINE h == [k \in 0 .. x |-> IF k = x THEN F[x][g[x - 1]] ELSE g[k]]
    <3>3. x - 1 \in 0 .. x - 1 /\ x \in 1 .. n /\ g[x - 1] \in A BY <3>1, <3>2, <2>2
    <3>4. \A k \in 0 .. x : k # x => k \in 0 .. x - 1 BY <3>1
    <3>5. h \in [0 .. x -> A] BY <3>2, <3>3, <3>4
    <3>6. 0 \in 0 .. x /\ h[0] = a BY <2>2, <3>1, <3>2
    <3>7. \A k \in 1 .. x : h[k] = F[k][h[k - 1]]
      <4> TAKE k \in 1 .. x
      <4>1. k \in 0 .. x /\ k - 1 \in 0 .. x /\ k - 1 # x BY <3>1
      <4>2. CASE k = x BY <4>1, <4>2
      <4>3. CASE k # x
        <5>1. k \in 1 .. x - 1 BY <3>1, <4>3
        <5>2. g[k] = F[k][g[k - 1]] BY <3>2, <5>1
        <5> QED BY <4>1, <4>3, <5>2
      <4> QED BY <4>2, <4>3
    <3> HIDE DEF h
    <3>8. Solves(h, x) BY <3>6, <3>7
    <3> QED BY <1>1, <3>5, <3>8
  <2> QED BY <2>1, <2>2
<1>2. T = {}
  <2> HIDE DEF T
  <2> QED BY <1>1, LeastOf, T \subseteq Nat DEF T
<1>3. \E g \in [0 .. n -> A] : Solves(g, n)
  <2> HIDE DEF Solves
  <2>1. n <= n OBVIOUS
  <2> QED BY <1>2, <2>1
<1> QED BY <1>3 DEF Runs

\* What is kept by each step is kept by them all.
LEMMA Climbs ==
    ASSUME NEW A, NEW n \in Nat, NEW f, f[0] \in A, \A k \in 1 .. n : f[k - 1] \in A => f[k] \in A
    PROVE  f[n] \in A
<1> DEFINE T == {m \in Nat : m <= n /\ f[m] \notin A}
<1>1. ASSUME NEW x \in T, \A y \in T : x <= y PROVE FALSE
  <2>1. x # 0 OBVIOUS
  <2>2. x - 1 \in Nat /\ x \in 1 .. n /\ x - 1 <= n /\ x - 1 \notin T BY <1>1, <2>1
  <2>3. f[x - 1] \in A BY <2>2
  <2> QED BY <2>2, <2>3
<1>2. T = {}
  <2> HIDE DEF T
  <2> QED BY <1>1, LeastOf, T \subseteq Nat DEF T
<1> QED BY <1>2

\* However often a sequence asks to be repeated.
LEMMA TimesGoes ==
    ASSUME NEW u, Good(u), NEW op \in {"IL", "DL", "SU", "SD", "REP"}, NEW n \in Nat
    PROVE  Goes(u, Times(op, n, u))
<1> DEFINE A == {v \in Terms : Goes(u, v)}
           Solves(g) == g = [k \in 0 .. n |-> IF k = 0 THEN u ELSE Once(op, g[k - 1])]
           f == CHOOSE g : Solves(g)
<1>1. u \in A BY Stays, InUse
<1>2. ASSUME NEW v \in A PROVE Once(op, v) \in A
  <2>1. Good(v) /\ Goes(u, v) BY DEF Goes
  <2>2. Goes(v, Once(op, v)) BY <2>1, OnceGoes
  <2>3. Goes(u, Once(op, v)) BY <2>1, <2>2, GoesOn
  <2> QED BY <2>3 DEF Goes, Good
<1> HIDE DEF A
<1>3. \E g : Solves(g)
  <2> DEFINE F == [k \in 1 .. n |-> [v \in A |-> Once(op, v)]]
  <2>1. \A k \in 1 .. n : \A v \in A : F[k][v] = Once(op, v) OBVIOUS
  <2>2. F \in [1 .. n -> [A -> A]] BY <1>2
  <2> HIDE DEF F
  <2>0. Runs(A, u, n, F) BY <1>1, <2>2, InTurn
  <2>3. PICK g \in [0 .. n -> A] : g[0] = u /\ \A k \in 1 .. n : g[k] = F[k][g[k - 1]]
    BY <2>0 DEF Runs
  <2>4. \A k \in 0 .. n : g[k] = IF k = 0 THEN u ELSE Once(op, g[k - 1])
    <3> TAKE k \in 0 .. n
    <3>1. k # 0 => k \in 1 .. n /\ k - 1 \in 0 .. n OBVIOUS
    <3> QED BY <2>1, <2>3, <3>1
  <2>5. g = [k \in 0 .. n |-> g[k]] OBVIOUS
  <2> QED BY <2>4, <2>5
<1>4. Solves(f) BY <1>3
<1>5. Times(op, n, u) = f[n] BY DEF Times
<1> HIDE DEF f
<1>6. f[0] \in A BY <1>1, <1>4
<1>7. \A k \in 1 .. n : f[k - 1] \in A => f[k] \in A
  <2> TAKE k \in 1 .. n
  <2>1. f[k] = Once(op, f[k - 1]) BY <1>4
  <2> QED BY <1>2, <2>1
<1>8. f[n] \in A BY <1>6, <1>7, Climbs
<1> QED BY <1>5, <1>8 DEF A

\* A screen on rows that nothing held.
LEMMA FreshGood ==
    ASSUME NEW u, Good(u), NEW k \in Kinds, NEW n \in 1 .. MaxRows, NEW c \in Nat \ {0}, NEW z \in Screens(k),
           z.rows = n, z.cols = c, z.cells = makeGrid(u, n), Placement(z),
           k = "prim" => z.ring = u.scr["prim"].ring,
           NEW h \in [Names -> Texts],
           \A id \in Names : (\A y \in Upto(n) : makeGrid(u, n)[y] # id) => h[id] = u.heap[id],
           \A y \in Upto(n) : DOMAIN h[makeGrid(u, n)[y]] = Upto(c),
           NEW on \in Kinds, on \in Live(u) \cup {k},
           NEW v, v \in Terms, v.heap = h, v.scr = [u.scr EXCEPT ![k] = z], v.on = on, v.gone = u.gone, v.altMode <=> on = "alt"
    PROVE  Good(v)
<1> DEFINE g == makeGrid(u, n)
           G == {g[y] : y \in Upto(n)}
<1>1. /\ u \in Terms /\ Filled(u.scr["prim"].ring) /\ Apart(u) /\ Remembered(u)
      /\ "prim" \in Live(u) /\ Live(u) \subseteq Kinds
      /\ \A l \in Live(u) : Gridded(u, l)
  BY LiveIs DEF Good
<1>2. /\ g \in [Upto(n) -> Names] /\ (\A y \in Upto(n) : g[y] \notin Used(u))
      /\ \A y, x \in Upto(n) : g[y] = g[x] => y = x
  BY GridIs
<1> HIDE DEF g
<1>3. v.scr[k] = z /\ \A l \in Kinds : l # k => v.scr[l] = u.scr[l] BY <1>1 DEF Terms
<1>4. Live(v) = Live(u) \cup {k} BY <1>1, <1>3, Exists DEF Live, Kinds
<1>5. Held(v.scr[k]) = G /\ (\A id \in Names : id \notin G => h[id] = u.heap[id])
  BY <1>3 DEF Held, g
<1>6. \A l \in Live(u) : Held(u.scr[l]) \subseteq Used(u) /\ Held(u.scr[l]) \cap G = {} /\ Held(u.scr[l]) \subseteq Names
  <2> SUFFICES ASSUME NEW l \in Live(u)
               PROVE  Held(u.scr[l]) \subseteq Used(u) /\ Held(u.scr[l]) \cap G = {} /\ Held(u.scr[l]) \subseteq Names
    OBVIOUS
  <2>1. Held(u.scr[l]) \subseteq Used(u) BY UsedIs
  <2>2. Held(u.scr[l]) \subseteq Names BY HeldIsFew
  <2> QED BY <1>2, <2>1, <2>2
<1>7. Stored(u) \subseteq Names /\ Stored(u) \cap G = {}
  <2>1. Stored(u) \subseteq Names /\ Stored(u) \subseteq Used(u) BY UsedIs
  <2> QED BY <1>2, <2>1
<1>8. v.scr["prim"].ring = u.scr["prim"].ring BY <1>3 DEF Kinds
<1>9. Stored(v) = Stored(u) BY <1>8 DEF Stored
<1>10. \A l \in Live(v) : Gridded(v, l)
  <2> SUFFICES ASSUME NEW l \in Live(v) PROVE Gridded(v, l) OBVIOUS
  <2>1. CASE l = k
    <3>1. \A y \in Upto(n) : DOMAIN h[g[y]] = Upto(c) BY DEF g
    <3>2. z.rows = n /\ z.cols = c /\ z.cells = g /\ n <= MaxRows BY Known DEF g
    <3> QED BY <1>2, <1>3, <2>1, <3>1, <3>2 DEF Gridded
  <2>2. CASE l # k
    <3>1. l \in Live(u) /\ Gridded(u, l) /\ v.scr[l] = u.scr[l] BY <1>1, <1>3, <1>4, <2>2
    <3>2. \A y \in Upto(u.scr[l].rows) : u.scr[l].cells[y] \in Held(u.scr[l]) BY DEF Held
    <3>3. \A y \in Upto(u.scr[l].rows) : h[u.scr[l].cells[y]] = u.heap[u.scr[l].cells[y]]
      BY <1>5, <1>6, <3>1, <3>2
    <3> QED BY <3>1, <3>3 DEF Gridded
  <2> QED BY <2>1, <2>2
<1>11. Apart(v)
  <2>1. \A l \in Live(v) : Held(v.scr[l]) \cap Stored(v) = {}
    <3> SUFFICES ASSUME NEW l \in Live(v) PROVE Held(v.scr[l]) \cap Stored(v) = {} OBVIOUS
    <3>1. CASE l = k BY <1>5, <1>7, <1>9, <3>1
    <3>2. CASE l # k BY <1>1, <1>3, <1>4, <1>9, <3>2 DEF Apart
    <3> QED BY <3>1, <3>2
  <2>2. "alt" \in Live(v) => Held(v.scr["prim"]) \cap Held(v.scr["alt"]) = {}
    <3>1. CASE k = "prim" BY <1>3, <1>4, <1>5, <1>6, <3>1 DEF Kinds
    <3>2. CASE k = "alt" BY <1>1, <1>3, <1>4, <1>5, <1>6, <3>2 DEF Kinds
    <3> QED BY <3>1, <3>2 DEF Kinds
  <2> QED BY <2>1, <2>2 DEF Apart
<1>12. Remembered(v)
  <2> DEFINE r == u.scr["prim"].ring
  <2>1. ASSUME NEW i \in 0 .. r.len - 1 PROVE h[sbRow(r, i)] = u.heap[sbRow(r, i)]
    <3>1. sbRow(r, i) \in Stored(u) /\ sbRow(r, i) \in Names BY <1>1, SlotIsRow
    <3> QED BY <1>5, <1>7, <3>1
  <2>2. Len(u.gone) = r.len /\ \A i \in 0 .. r.len - 1 : u.heap[sbRow(r, i)] = u.gone[i + 1]
    BY <1>1 DEF Remembered
  <2> HIDE DEF r
  <2>3. v.scr["prim"].ring = r BY <1>8 DEF r
  <2> QED BY <2>1, <2>2, <2>3 DEF Remembered
<1> QED BY <1>1, <1>4, <1>8, <1>10, <1>11, <1>12 DEF Good

\* What the shell's screen says, where its rows are left alone.
LEMMA ShellSame ==
    ASSUME NEW u, Good(u), NEW v, v.scr["prim"] = u.scr["prim"],
           \A id \in Held(u.scr["prim"]) : v.heap[id] = u.heap[id]
    PROVE  Shell(v) = Shell(u)
<1>1. \A y \in Upto(u.scr["prim"].rows) : u.scr["prim"].cells[y] \in Held(u.scr["prim"])
  BY DEF Held
<1>2. \A y \in Upto(u.scr["prim"].rows) : v.heap[u.scr["prim"].cells[y]] = u.heap[u.scr["prim"].cells[y]]
  BY <1>1
<1> QED BY <1>2 DEF Shell

\* The history is kept where its rows and the viewport are what they were.
LEMMA HistorySame ==
    ASSUME NEW u, Good(u), NEW v, v.scr["prim"] = u.scr["prim"], v.gone = u.gone
    PROVE  HistoryKept(u, v)
<1>1. u.scr["prim"].ring.off \in Nat BY RingIs
<1> QED BY <1>1 DEF HistoryKept

\* setAltScreen, to an alternate screen that is there and to one that is made.
LEMMA SwitchGood ==
    ASSUME NEW u, Good(u), NEW on \in BOOLEAN, NEW v, v = setAltScreen(u, on)
    PROVE  Good(v) /\ HistoryKept(u, v) /\ Shell(v) = Shell(u)
<1>1. /\ u \in Terms /\ "prim" \in Live(u) /\ u.scr["prim"] \in Screens("prim")
      /\ Gridded(u, "prim")
  BY InUse, LiveIs DEF Good
<1>2. \A k \in Kinds, m \in BOOLEAN, end \in Terms :
         k \in Live(u) /\ (m <=> k = "alt") /\ end = [u EXCEPT !.on = k, !.altMode = m] => Good(end)
  <2> SUFFICES ASSUME NEW k \in Kinds, NEW m \in BOOLEAN, NEW end \in Terms,
                      k \in Live(u), m <=> k = "alt", end = [u EXCEPT !.on = k, !.altMode = m]
               PROVE  Good(end)
    OBVIOUS
  <2>1. /\ end.on = k /\ end.altMode = m /\ end.scr = u.scr /\ end.heap = u.heap
        /\ end.gone = u.gone
    BY <1>1 DEF Terms
  <2>2. Live(end) = Live(u) /\ Stored(end) = Stored(u) BY <2>1 DEF Live, Stored
  <2>3. /\ u.scr["prim"].ring = end.scr["prim"].ring /\ Filled(u.scr["prim"].ring)
        /\ Apart(u) /\ Remembered(u)
        /\ \A l \in Live(u) : Gridded(u, l)
    BY <2>1 DEF Good
  <2>4. \A l \in Live(u) : Gridded(end, l) BY <2>1, <2>3 DEF Gridded
  <2>5. Apart(end) BY <2>1, <2>2, <2>3 DEF Apart
  <2>6. Remembered(end) BY <2>1, <2>3 DEF Remembered
  <2> QED BY <2>1, <2>2, <2>3, <2>4, <2>5, <2>6 DEF Good
<1>3. CASE ~on
  <2>1. v = [u EXCEPT !.on = "prim", !.altMode = FALSE] BY <1>3 DEF setAltScreen
  <2>2. v \in Terms /\ v.scr = u.scr /\ v.heap = u.heap /\ v.gone = u.gone
    BY <1>1, <2>1 DEF Terms, Kinds
  <2>3. Good(v) BY <1>1, <1>2, <2>1, <2>2 DEF Kinds
  <2> QED BY <2>2, <2>3, ShellSame, HistorySame
<1>4. CASE on /\ u.scr["alt"] # NoAlt
  <2>1. v = [u EXCEPT !.on = "alt", !.altMode = TRUE] BY <1>4 DEF setAltScreen
  <2>2. v \in Terms /\ v.scr = u.scr /\ v.heap = u.heap /\ v.gone = u.gone
    BY <1>1, <2>1 DEF Terms, Kinds
  <2>3. "alt" \in Live(u) BY <1>1, <1>4, LiveIs
  <2>4. Good(v) BY <1>2, <2>1, <2>2, <2>3 DEF Kinds
  <2> QED BY <2>2, <2>4, ShellSame, HistorySame
<1>5. CASE on /\ u.scr["alt"] = NoAlt
  <2> DEFINE prim == u.scr["prim"]
             n == prim.rows
             c == prim.cols
             g == makeGrid(u, n)
             z == newScreen(n, c, g, 0)
             h == [id \in Names |-> IF \E y \in Upto(n) : g[y] = id THEN BlankRow(c) ELSE u.heap[id]]
  <2>1. n \in 1 .. MaxRows /\ c \in Nat \ {0} /\ n \in Nat \ {0}
    <3>1. n \in Widths /\ c \in Widths BY <1>1 DEF Screens
    <3>2. n <= MaxRows BY <1>1 DEF Gridded
    <3> QED BY <3>1, <3>2, Known DEF Widths
  <2>2. v = [u EXCEPT !.scr["alt"] = z, !.heap = h, !.on = "alt", !.altMode = TRUE]
    <3>1. z.cells = g BY DEF newScreen
    <3>2. v = [[u EXCEPT !.scr["alt"] = z,
                          !.heap = [id \in Names |-> IF \E y \in Upto(n) : z.cells[y] = id THEN BlankRow(c) ELSE @[id]]]
                EXCEPT !.on = "alt", !.altMode = TRUE]
      BY <1>5 DEF setAltScreen
    <3>3. [id \in Names |-> IF \E y \in Upto(n) : z.cells[y] = id THEN BlankRow(c) ELSE u.heap[id]] = h
      BY <3>1
    <3> HIDE DEF z, h
    <3> QED BY <1>1, <3>2, <3>3 DEF Terms
  <2>3. /\ g \in [Upto(n) -> Names] /\ g \in Grids /\ (\A y \in Upto(n) : g[y] \notin Used(u))
        /\ \A y, x \in Upto(n) : g[y] = g[x] => y = x
    BY <2>1, GridIs
  <2>4. BlankRow(c) \in Texts /\ DOMAIN BlankRow(c) = Upto(c) BY <2>1, BlankRowIs
  <2>5. h \in [Names -> Texts] BY <1>1, <2>4 DEF Terms
  <2>6. (\A id \in Names : (\A y \in Upto(n) : g[y] # id) => h[id] = u.heap[id]) /\ \A y \in Upto(n) : DOMAIN h[g[y]] = Upto(c)
    BY <2>3, <2>4
  <2> HIDE DEF g, h, n, c
  <2>7. z \in Screens("alt") /\ z.rows = n /\ z.cols = c /\ z.cells = g /\ Placement(z)
    BY <2>1, <2>3 DEF newScreen, Screens, Widths, RingOf, Placement
  <2> HIDE DEF z
  <2>8. /\ v.heap = h /\ v.scr = [u.scr EXCEPT !["alt"] = z] /\ v.on = "alt"
        /\ v.gone = u.gone /\ v.altMode = TRUE /\ v \in Terms
    <3>1. [u.scr EXCEPT !["alt"] = z] \in {f \in [Kinds -> Screens("prim") \cup Screens("alt") \cup {NoAlt}] :
              f["prim"] \in Screens("prim") /\ f["alt"] \in Screens("alt") \cup {NoAlt}}
      BY <1>1, <2>7 DEF Terms, Kinds
    <3> QED BY <1>1, <2>2, <2>5, <3>1 DEF Terms, Kinds
  <2>9. Good(v) BY <1>1, <2>1, <2>5, <2>6, <2>7, <2>8, FreshGood DEF Kinds, g
  <2>10. v.scr["prim"] = u.scr["prim"] BY <1>1, <2>8 DEF Terms, Kinds
  <2>11. \A id \in Held(u.scr["prim"]) : v.heap[id] = u.heap[id]
    <3>1. Held(u.scr["prim"]) \subseteq Used(u) /\ Held(u.scr["prim"]) \subseteq Names
      BY <1>1, UsedIs, HeldIsFew
    <3> QED BY <2>3, <2>6, <2>8, <3>1
  <2> QED BY <2>8, <2>9, <2>10, <2>11, ShellSame, HistorySame
<1> QED BY <1>3, <1>4, <1>5

\* Screen.resize: rows of their own, of the new width, and the cursor brought in.
LEMMA ResizeGood ==
    ASSUME NEW u, Good(u), NEW k \in Live(u), NEW rows \in 1 .. MaxRows, NEW cols \in Nat \ {0},
           NEW v, v = resizeScreen(u, k, rows, cols)
    PROVE  Good(v) /\ (v.scr["alt"] = NoAlt <=> u.scr["alt"] = NoAlt)
<1> DEFINE s == u.scr[k]
           g == makeGrid(u, rows)
           was == [y \in Upto(rows) |-> IF y < s.rows THEN u.heap[s.cells[y]] ELSE BlankRow(0)]
           fits(y) == [c \in Upto(cols) |-> IF c \in DOMAIN was[y] THEN was[y][c] ELSE Space]
           row(id) == CHOOSE y \in Upto(rows) : g[y] = id
           h == [id \in Names |-> IF id \in {g[y] : y \in Upto(rows)} THEN fits(row(id)) ELSE u.heap[id]]
           cy == Min2(s.curY, rows - 1)
           cx == Min2(s.curX, cols - 1)
           z == [s EXCEPT !.rows = rows, !.cols = cols, !.cells = g,
                               !.scrollTop = 0, !.scrollBot = rows, !.curY = cy, !.curX = cx]
<1>1. /\ u \in Terms /\ k \in Kinds /\ s \in Screens(k) /\ Gridded(u, k)
      /\ u.heap \in [Names -> Texts]
      /\ rows \in Nat \ {0} /\ u.on \in Live(u) /\ (u.altMode <=> u.on = "alt") /\ u.on \in Kinds
  BY InUse, LiveIs, Known DEF Good
<1>2. s.rows \in Nat /\ s.curY \in Nat /\ s.curX \in Nat BY <1>1 DEF Screens, Widths
<1>3. v = [u EXCEPT !.heap = h, !.scr[k] = z] BY DEF resizeScreen
<1>4. /\ g \in [Upto(rows) -> Names] /\ g \in Grids BY GridIs
<1>5. \A y \in Upto(rows) : was[y] \in Texts
  <2> SUFFICES ASSUME NEW y \in Upto(rows) PROVE was[y] \in Texts OBVIOUS
  <2>1. y < s.rows => y \in Upto(s.rows) BY <1>1, <1>2 DEF Upto
  <2>2. \A x \in Upto(s.rows) : s.cells[x] \in Names BY <1>1 DEF Gridded
  <2>3. BlankRow(0) \in Texts BY BlankRowIs
  <2> QED BY <1>1, <2>1, <2>2, <2>3
<1> HIDE DEF was
<1>6. \A y \in Upto(rows) : fits(y) \in Texts /\ DOMAIN fits(y) = Upto(cols)
  <2> SUFFICES ASSUME NEW y \in Upto(rows)
               PROVE  fits(y) \in Texts /\ DOMAIN fits(y) = Upto(cols) OBVIOUS
  <2>1. was[y] \in Texts BY <1>5
  <2>2. \A c \in DOMAIN was[y] : was[y][c] \in Chars BY <2>1 DEF Texts
  <2>3. Space \in Chars BY DEF Chars
  <2>4. fits(y) \in [Upto(cols) -> Chars] BY <2>2, <2>3
  <2> HIDE DEF fits
  <2> QED BY <2>4, LineIn
<1> HIDE DEF fits
<1>7. \A id \in {g[y] : y \in Upto(rows)} : row(id) \in Upto(rows)
  <2> SUFFICES ASSUME NEW id \in {g[y] : y \in Upto(rows)} PROVE row(id) \in Upto(rows) OBVIOUS
  <2>1. \E y \in Upto(rows) : g[y] = id OBVIOUS
  <2> HIDE DEF g
  <2> QED BY <2>1
<1> HIDE DEF row
<1>8. h \in [Names -> Texts] BY <1>1, <1>6, <1>7
<1>9. (\A id \in Names : (\A y \in Upto(rows) : g[y] # id) => h[id] = u.heap[id]) /\ \A y \in Upto(rows) : DOMAIN h[g[y]] = Upto(cols)
  BY <1>4, <1>6, <1>7
<1> HIDE DEF g, h
<1>10. cy \in Nat /\ cy < rows /\ cx \in Nat /\ cx < cols BY <1>1, <1>2 DEF Min2
<1> HIDE DEF cy, cx
<1>11. /\ z \in Screens(k) /\ z.rows = rows /\ z.cols = cols /\ z.cells = g
       /\ z.ring = s.ring /\ Placement(z)
  <2>1. /\ z \in Screens(k) /\ z.rows = rows /\ z.cols = cols /\ z.cells = g /\ z.ring = s.ring
        /\ z.curY = cy /\ z.curX = cx /\ z.scrollTop = 0 /\ z.scrollBot = rows
    BY <1>1, <1>4, <1>10 DEF Screens, Widths
  <2> QED BY <1>1, <1>10, <2>1 DEF Placement
<1> HIDE DEF z
<1>12. /\ v.heap = h /\ v.scr = [u.scr EXCEPT ![k] = z] /\ v.on = u.on /\ v.gone = u.gone
       /\ v.altMode = u.altMode /\ v \in Terms
  <2>1. [u.scr EXCEPT ![k] = z] \in {f \in [Kinds -> Screens("prim") \cup Screens("alt") \cup {NoAlt}] :
              f["prim"] \in Screens("prim") /\ f["alt"] \in Screens("alt") \cup {NoAlt}}
    BY <1>1, <1>11 DEF Terms, Kinds
  <2> QED BY <1>1, <1>3, <1>8, <2>1 DEF Terms
<1>13. Good(v) BY <1>1, <1>8, <1>9, <1>11, <1>12, FreshGood DEF g
<1>14. v.scr["alt"] = NoAlt <=> u.scr["alt"] = NoAlt
  <2>1. u.scr[k] # NoAlt /\ z # NoAlt BY <1>1, <1>11, Exists
  <2> QED BY <1>1, <1>12, <2>1 DEF Terms, Kinds
<1> QED BY <1>13, <1>14

\* Pane.resize resizes both screens.
LEMMA PaneGood ==
    ASSUME NEW u, Good(u), NEW size \in Sizes
    PROVE  Good(resizePane(u, size[1], size[2]))
<1>1. size[1] \in 1 .. MaxRows /\ size[2] \in Nat \ {0} BY TerminalAssumption
<1> DEFINE p == resizeScreen(u, "prim", size[1], size[2])
<1>2. Good(p) /\ (p.scr["alt"] = NoAlt <=> u.scr["alt"] = NoAlt)
  BY <1>1, ResizeGood, LiveIs DEF Good
<1> HIDE DEF p
<1>3. u.scr["alt"] # NoAlt => "alt" \in Live(p) BY <1>2, LiveIs DEF Good
<1>4. u.scr["alt"] # NoAlt => Good(resizeScreen(p, "alt", size[1], size[2]))
  BY <1>1, <1>2, <1>3, ResizeGood
<1> QED BY <1>2, <1>4 DEF resizePane, p

\* The person moves the viewport.
LEMMA ViewGood ==
    ASSUME NEW u, Good(u), NEW n \in Int, NEW q \in {scrollBackBy(S(u).ring, n), scrollTo(S(u).ring, n)},
           NEW v, v = WithS(u, [S(u) EXCEPT !.ring = q])
    PROVE  Good(v) /\ v.on = u.on /\ ShellKept(u, v)
<1> DEFINE s == S(u)
           r == s.ring
           z == [s EXCEPT !.ring = q]
<1>1. /\ u \in Terms /\ u.on \in Kinds /\ s \in Screens(u.on) /\ s = u.scr[u.on]
      /\ Gridded(u, u.on) /\ u.on \in Live(u)
      /\ Filled(u.scr["prim"].ring) /\ Apart(u) /\ Remembered(u) /\ \A k \in Live(u) : Gridded(u, k)
  BY InUse DEF Good
<1>2. q \in RingOf(u.on) /\ q.sb = r.sb /\ q.head = r.head /\ q.len = r.len /\ q.cap = r.cap
  <2>1. CASE u.on = "prim"
    <3>1. r \in Ring(Cap, Names) BY <1>1, <2>1, RingIs
    <3>2. q \in Ring(Cap, Names) BY <3>1, Known, ScrollStaysInHistory
    <3>3. q.sb = r.sb /\ q.head = r.head /\ q.len = r.len /\ q.cap = r.cap
      BY <3>1 DEF scrollBackBy, scrollTo, Ring
    <3> QED BY <2>1, <3>2, <3>3 DEF RingOf
  <2>2. CASE u.on = "alt"
    <3>1. r = newRing(0) BY <1>1, <2>2 DEF Screens, RingOf
    <3>2. q = r BY <3>1 DEF scrollBackBy, scrollTo, newRing, clamp
    <3> QED BY <2>2, <3>1, <3>2 DEF RingOf
  <2> QED BY <1>1, <2>1, <2>2 DEF Kinds
<1> HIDE DEF r
<1>3. /\ z \in Screens(u.on) /\ z.rows = s.rows /\ z.cols = s.cols /\ z.cells = s.cells
      /\ z.ring = q
      /\ z.scrollTop = s.scrollTop /\ z.scrollBot = s.scrollBot /\ z.savedY = s.savedY
      /\ z.savedX = s.savedX
      /\ z.curY = s.curY /\ z.curX = s.curX
  BY <1>1, <1>2 DEF Screens
<1> HIDE DEF z
<1>4. /\ v.on = u.on /\ v.altMode = u.altMode /\ v.gone = u.gone /\ v.heap = u.heap
      /\ v.scr = [u.scr EXCEPT ![u.on] = z] /\ v \in Terms
  <2>1. [u.scr EXCEPT ![u.on] = z] \in {f \in [Kinds -> Screens("prim") \cup Screens("alt") \cup {NoAlt}] :
              f["prim"] \in Screens("prim") /\ f["alt"] \in Screens("alt") \cup {NoAlt}}
    BY <1>1, <1>3 DEF Terms, Kinds
  <2>2. v = [u EXCEPT !.scr[u.on] = z] BY DEF WithS, z
  <2> QED BY <1>1, <2>1, <2>2 DEF Terms
<1>5. v.scr[u.on] = z /\ \A k \in Kinds : k # u.on => v.scr[k] = u.scr[k]
  BY <1>1, <1>4 DEF Terms
<1>6. \A k \in Kinds : /\ v.scr[k].rows = u.scr[k].rows /\ v.scr[k].cols = u.scr[k].cols /\ v.scr[k].cells = u.scr[k].cells
                       /\ Held(v.scr[k]) = Held(u.scr[k]) /\ (Placement(u.scr[k]) => Placement(v.scr[k]))
  <2> SUFFICES ASSUME NEW k \in Kinds
               PROVE  /\ v.scr[k].rows = u.scr[k].rows /\ v.scr[k].cols = u.scr[k].cols /\ v.scr[k].cells = u.scr[k].cells
                      /\ Held(v.scr[k]) = Held(u.scr[k]) /\ (Placement(u.scr[k]) => Placement(v.scr[k]))
    OBVIOUS
  <2>1. CASE k = u.on
    <3>1. Held(z) = Held(s) BY <1>3 DEF Held
    <3>2. Placement(s) => Placement(z) BY <1>3 DEF Placement
    <3> QED BY <1>1, <1>3, <1>5, <2>1, <3>1, <3>2
  <2>2. CASE k # u.on BY <1>5, <2>2
  <2> QED BY <2>1, <2>2
<1>7. Live(v) = Live(u)
  <2>1. v.scr[u.on] # NoAlt /\ u.scr[u.on] # NoAlt BY <1>1, <1>3, <1>5, Exists
  <2> QED BY <1>1, <1>5, <2>1 DEF Live, Kinds
<1>8. LET p == u.scr["prim"].ring end == v.scr["prim"].ring
      IN end.sb = p.sb /\ end.head = p.head /\ end.len = p.len /\ end.cap = p.cap
  <2>1. CASE u.on = "prim" BY <1>1, <1>2, <1>3, <1>5, <2>1 DEF r
  <2>2. CASE u.on # "prim" BY <1>5, <2>2 DEF Kinds
  <2> QED BY <2>1, <2>2
<1>9. Filled(v.scr["prim"].ring) BY <1>1, <1>8 DEF Filled
<1>10. Stored(v) = Stored(u) BY <1>8 DEF Stored
<1>11. \A k \in Live(v) : Gridded(v, k)
  <2> SUFFICES ASSUME NEW k \in Live(u) PROVE Gridded(v, k) BY <1>7
  <2>1. k \in Kinds /\ Gridded(u, k) BY <1>1, LiveIs
  <2>2. /\ v.scr[k].rows = u.scr[k].rows /\ v.scr[k].cols = u.scr[k].cols
        /\ v.scr[k].cells = u.scr[k].cells
        /\ (Placement(u.scr[k]) => Placement(v.scr[k])) /\ v.heap = u.heap
    BY <1>4, <1>6, <2>1
  <2> QED BY <2>1, <2>2 DEF Gridded
<1>12. Apart(v) BY <1>1, <1>6, <1>7, <1>10, LiveIs DEF Apart, Kinds
<1>13. Remembered(v)
  <2>1. \A i : sbRow(v.scr["prim"].ring, i) = sbRow(u.scr["prim"].ring, i) BY <1>8 DEF sbRow
  <2>2. v.scr["prim"].ring.len = u.scr["prim"].ring.len BY <1>8
  <2> QED BY <1>1, <1>4, <2>1, <2>2 DEF Remembered
<1>14. u.altMode <=> u.on = "alt" BY DEF Good
<1>15. Good(v) BY <1>1, <1>4, <1>7, <1>9, <1>11, <1>12, <1>13, <1>14 DEF Good
<1>16. ShellKept(u, v)
  <2>1. u.on = "alt" => v.scr["prim"] = u.scr["prim"] BY <1>5 DEF Kinds
  <2> QED BY <1>4, <2>1, ShellSame DEF ShellKept
<1> QED BY <1>4, <1>15, <1>16

\* Rows that nothing holds do not matter.
LEMMA TidyGoes ==
    ASSUME NEW u, Good(u), NEW v, v = Tidy(u)
    PROVE  /\ Goes(u, v) /\ Shell(v) = Shell(u) /\ v.scr = u.scr /\ v.on = u.on /\ v.altMode = u.altMode /\ v.gone = u.gone
           /\ v.down = u.down /\ v.lastChar = u.lastChar
<1> DEFINE h == [id \in Names |-> IF id \in Used(u) THEN u.heap[id] ELSE BlankRow(0)]
<1>1. /\ u \in Terms /\ u.heap \in [Names -> Texts] /\ u.on \in Live(u) /\ (u.altMode <=> u.on = "alt")
      /\ Filled(u.scr["prim"].ring) /\ Apart(u) /\ Remembered(u) /\ "prim" \in Live(u) /\ \A k \in Live(u) : Gridded(u, k)
  BY InUse, LiveIs DEF Good
<1>2. h \in [Names -> Texts] BY <1>1, BlankRowIs
<1>3. v = [u EXCEPT !.heap = h] BY DEF Tidy
<1> HIDE DEF h
<1>4. /\ v.scr = u.scr /\ v.on = u.on /\ v.altMode = u.altMode /\ v.gone = u.gone
      /\ v.heap = h /\ v \in Terms
      /\ v.down = u.down /\ v.lastChar = u.lastChar
  BY <1>1, <1>2, <1>3 DEF Terms
<1>5. \A k \in Live(u) : \A id \in Held(u.scr[k]) : h[id] = u.heap[id]
  <2> SUFFICES ASSUME NEW k \in Live(u), NEW id \in Held(u.scr[k])
               PROVE  h[id] = u.heap[id] OBVIOUS
  <2>1. id \in Used(u) /\ id \in Names BY UsedIs, HeldIsFew
  <2> QED BY <2>1 DEF h
<1>6. \A id \in Stored(u) : h[id] = u.heap[id]
  <2>1. Stored(u) \subseteq Used(u) /\ Stored(u) \subseteq Names BY UsedIs
  <2> QED BY <2>1 DEF h
<1>7. Live(v) = Live(u) /\ Stored(v) = Stored(u) BY <1>4 DEF Live, Stored
<1>8. \A k \in Live(u) : Gridded(v, k)
  <2> SUFFICES ASSUME NEW k \in Live(u) PROVE Gridded(v, k) OBVIOUS
  <2>1. Gridded(u, k) BY <1>1
  <2>2. \A y \in Upto(u.scr[k].rows) : u.scr[k].cells[y] \in Held(u.scr[k]) BY DEF Held
  <2>3. \A y \in Upto(u.scr[k].rows) : h[u.scr[k].cells[y]] = u.heap[u.scr[k].cells[y]]
    BY <1>5, <2>2
  <2> QED BY <1>4, <2>1, <2>3 DEF Gridded
<1>9. Apart(v) BY <1>1, <1>4, <1>7 DEF Apart
<1>10. Remembered(v)
  <2>1. \A i \in 0 .. u.scr["prim"].ring.len - 1 : h[sbRow(u.scr["prim"].ring, i)] = u.heap[sbRow(u.scr["prim"].ring, i)]
    BY <1>1, <1>6, SlotIsRow
  <2> QED BY <1>1, <1>4, <2>1 DEF Remembered
<1>11. Good(v) BY <1>1, <1>4, <1>7, <1>8, <1>9, <1>10 DEF Good
<1>12. HistoryKept(u, v) BY <1>4, HistorySame
<1>13. Shell(v) = Shell(u) BY <1>1, <1>4, <1>5, ShellSame
<1> QED BY <1>4, <1>11, <1>12, <1>13 DEF Goes, Kept, ShellKept

(* The parser, as far as what it dispatches can be carried out. *)
States == {"ground", "escape", "escapeIntermediate", "csiEntry", "csiParam", "csiIntermediate", "csiIgnore", "osc"}
Parsers == [state : States, inter : Chars \cup {""}, args : Seq(Nat), nosc : {0, 1}, partial : Seq(Chars)]
Events == [what : {"print", "control", "escape", "csi", "osc"}, inter : Chars \cup {""}, args : Seq(Nat), w : Chars]
Told(r) == r.p \in Parsers /\ r.out \in Seq(Events)
Decodings == [p : Parsers, out : Seq(Events), data : Seq(Chars)]

\* A new parser is one.
LEMMA FirstParser == NewParser \in Parsers
<1>1. <<>> \in Seq(Nat) /\ <<>> \in Seq(Chars) OBVIOUS
<1> QED BY <1>1 DEF NewParser, Parsers, States

\* What the parser's steps leave is a parser.
LEMMA GoClear ==
    ASSUME NEW p \in Parsers, NEW state \in States, NEW ch \in Chars
    PROVE  /\ Go(p, state) \in Parsers /\ Clear(p) \in Parsers /\ [p EXCEPT !.inter = ch] \in Parsers
           /\ [p EXCEPT !.nosc = 1] \in Parsers
<1>1. <<>> \in Seq(Nat) OBVIOUS
<1> QED BY <1>1 DEF Go, Clear, Parsers

\* What it dispatches is an event.
LEMMA QuietTell ==
    ASSUME NEW p \in Parsers, NEW ch \in Chars, NEW what \in {"print", "control", "escape", "csi", "osc"}
    PROVE  Told(Quiet(p)) /\ Told(Tell(p, what, ch))
<1> DEFINE e == [what |-> what, inter |-> p.inter, args |-> p.args, w |-> ch]
<1>1. e \in Events BY DEF Events, Parsers
<1>2. <<>> \in Seq(Events) /\ <<e>> \in Seq(Events) BY <1>1
<1> HIDE DEF e
<1>3. Tell(p, what, ch) = [p |-> p, out |-> <<e>>] BY DEF Tell, e
<1> QED BY <1>2, <1>3 DEF Told, Quiet

\* Facts of any sequence.
LEMMA SeqIs ==
    ASSUME NEW A, NEW s \in Seq(A), NEW e \in A
    PROVE  /\ <<e>> \in Seq(A) /\ Len(<<e>>) = 1 /\ Append(s, e) \in Seq(A) /\ Len(s) \in Nat
           /\ s # <<>> => Len(s) \in 1 .. Len(s) /\ s[Len(s)] \in A /\ Len(s) # 0
OBVIOUS

\* A digit read makes a number.
LEMMA TensIs == ASSUME NEW m \in Nat, NEW n \in Nat PROVE m * 10 + n \in Nat
OBVIOUS

\* VTParser.param.
LEMMA ParamIs ==
    ASSUME NEW p \in Parsers, NEW ch \in DOMAIN Digit \cup {";"}
    PROVE  param(p, ch) \in Parsers
<1> DEFINE args == IF p.args = <<>> THEN <<0>> ELSE p.args
           n == Len(args)
           more == IF ch # ";" THEN [args EXCEPT ![n] = args[n] * 10 + Digit[ch]]
                          ELSE IF n < MaxParams THEN Append(args, 0) ELSE args
<1>1. p.args \in Seq(Nat) BY DEF Parsers
<1>2. args \in Seq(Nat) /\ args # <<>>
  <2>1. <<0>> \in Seq(Nat) /\ <<0>> # <<>> BY <1>1, SeqIs, 0 \in Nat
  <2> QED BY <1>1, <2>1
<1> HIDE DEF args
<1>3. ch # ";" => Digit[ch] \in Nat BY DEF Digit
<1>4. n \in 1 .. Len(args) /\ args[n] \in Nat BY <1>2, SeqIs, 0 \in Nat
<1> HIDE DEF n
<1>5. ch # ";" => args[n] * 10 + Digit[ch] \in Nat BY <1>3, <1>4, TensIs
<1>6. \A m \in Nat : [args EXCEPT ![n] = m] \in Seq(Nat) BY <1>2, <1>4, ExceptSeq
<1>7. Append(args, 0) \in Seq(Nat) BY <1>2, SeqIs, 0 \in Nat
<1>8. more \in Seq(Nat) BY <1>2, <1>5, <1>6, <1>7
<1> HIDE DEF more
<1>9. param(p, ch) = [p EXCEPT !.args = more] BY DEF param, more, n, args
<1> QED BY <1>8, <1>9 DEF Parsers

\* VTParser.handleChar, in every state it may be in.
LEMMA CharacterIs ==
    ASSUME NEW p \in Parsers, NEW ch \in Chars
    PROVE  Told(handleChar(p, ch))
<1>1. \A state \in States, what \in {"print", "control", "escape", "csi", "osc"} :
        /\ Told(Quiet(Go(p, state))) /\ Told(Quiet(Go(Clear(p), state)))
        /\ Told(Tell(Go(p, state), what, ch))
        /\ Told(Quiet(Go([p EXCEPT !.inter = ch], state)))
        /\ Told(Quiet([p EXCEPT !.inter = ch]))
        /\ Told(Quiet([p EXCEPT !.nosc = 1])) /\ Told(Quiet(p)) /\ Told(Tell(p, what, ch))
  BY GoClear, QuietTell
<1>2. \A state \in States : ch \in DOMAIN Digit \cup {";"} => Told(Quiet(Go(param(p, ch), state)))
  BY ParamIs, GoClear, QuietTell
<1>3. Told(ground(p, ch)) BY <1>1 DEF ground, States
<1>4. Told(escape(p, ch)) BY <1>1 DEF escape, States
<1>5. Told(escapeIntermediate(p, ch)) BY <1>1 DEF escapeIntermediate, States
<1>6. Told(csi(p, ch)) BY <1>1, <1>2 DEF csi, States
<1>7. Told(csiIgnore(p, ch)) BY <1>1 DEF csiIgnore, States
<1>8. Told(osc(p, ch)) BY <1>1 DEF osc, States
<1>9. p.state \in States BY DEF Parsers
<1> QED BY <1>1, <1>3, <1>4, <1>5, <1>6, <1>7, <1>8, <1>9 DEF handleChar, States

\* One character of a read, or what waits for the rest of it.
LEMMA DecodeOneIs == ASSUME NEW d \in Decodings PROVE DecodeOne(d) \in Decodings
<1>1. d.p \in Parsers /\ d.out \in Seq(Events) /\ d.data \in Seq(Chars) BY DEF Decodings
<1>2. CASE d.data = <<>> BY <1>2 DEF DecodeOne
<1>3. CASE d.data # <<>> /\ Len(d.data) < 4 /\ ~FullRune(d.data)
  <2>0. <<>> \in Seq(Chars) OBVIOUS
  <2>1. <<>> \in Seq(Chars) /\ [d.p EXCEPT !.partial = d.data] \in Parsers
    BY <1>1, <2>0 DEF Parsers
  <2> QED BY <1>1, <1>3, <2>1 DEF DecodeOne, Decodings
<1>4. CASE d.data # <<>> /\ ~(Len(d.data) < 4 /\ ~FullRune(d.data))
  <2> DEFINE r == DecodeRune(d.data)
             one == handleChar(d.p, r.rune)
             rest == SubSeq(d.data, r.size + 1, Len(d.data))
  <2>1. Len(d.data) \in Nat \ {0} /\ d.data[1] \in Chars BY <1>1, <1>4
  <2>2. r.rune \in Chars /\ r.size \in Nat /\ r.size <= Len(d.data)
    BY <2>1 DEF DecodeRune, Chars, Wide
  <2> HIDE DEF r
  <2>3. Told(one) BY <1>1, <2>2, CharacterIs
  <2>4. rest \in Seq(Chars) BY <1>1, <2>1, <2>2, SubSeqProperties
  <2> HIDE DEF one, rest
  <2>5. d.out \o one.out \in Seq(Events) BY <1>1, <2>3 DEF Told
  <2>6. DecodeOne(d) = [p |-> one.p, out |-> d.out \o one.out, data |-> rest]
    BY <1>4 DEF DecodeOne, r, one, rest
  <2> QED BY <2>3, <2>4, <2>5, <2>6 DEF Told, Decodings
<1> QED BY <1>2, <1>3, <1>4

\* A whole read.
LEMMA DecodeIs ==
    ASSUME NEW p \in Parsers, NEW data \in Seq(Chars)
    PROVE  Told(Decode(p, data))
<1> DEFINE n == Len(data)
           a == [p |-> p, out |-> <<>>, data |-> data]
           Solves(g) == g = [k \in 0 .. n |-> IF k = 0 THEN a ELSE DecodeOne(g[k - 1])]
           f == CHOOSE g : Solves(g)
<1>0. n \in Nat OBVIOUS
<1>1. a \in Decodings
  <2>1. <<>> \in Seq(Events) OBVIOUS
  <2> QED BY <2>1 DEF Decodings
<1>5. Decode(p, data) = [p |-> f[n].p, out |-> f[n].out] BY DEF Decode
<1> HIDE DEF n, a
<1>3. \E g : Solves(g)
  <2> DEFINE F == [k \in 1 .. n |-> [v \in Decodings |-> DecodeOne(v)]]
  <2>1. \A k \in 1 .. n : \A v \in Decodings : F[k][v] = DecodeOne(v) OBVIOUS
  <2>2. F \in [1 .. n -> [Decodings -> Decodings]] BY DecodeOneIs
  <2> HIDE DEF F
  <2>0. Runs(Decodings, a, n, F) BY <1>0, <1>1, <2>2, InTurn
  <2>3. PICK g \in [0 .. n -> Decodings] : g[0] = a /\ \A k \in 1 .. n : g[k] = F[k][g[k - 1]]
    BY <2>0 DEF Runs
  <2>4. \A k \in 0 .. n : g[k] = IF k = 0 THEN a ELSE DecodeOne(g[k - 1])
    <3> TAKE k \in 0 .. n
    <3>1. k # 0 => k \in 1 .. n /\ k - 1 \in 0 .. n BY <1>0
    <3> QED BY <1>0, <2>1, <2>3, <3>1
  <2>5. g = [k \in 0 .. n |-> g[k]] OBVIOUS
  <2> QED BY <2>4, <2>5
<1>4. Solves(f) BY <1>3
<1> HIDE DEF f
<1>6. f[0] \in Decodings BY <1>0, <1>1, <1>4
<1>7. \A k \in 1 .. n : f[k - 1] \in Decodings => f[k] \in Decodings
  <2> TAKE k \in 1 .. n
  <2>1. f[k] = DecodeOne(f[k - 1]) BY <1>0, <1>4
  <2> QED BY <2>1, DecodeOneIs
<1>8. f[n] \in Decodings BY <1>0, <1>6, <1>7, Climbs
<1> QED BY <1>5, <1>8 DEF Decodings, Told

\* A read and what an earlier one left incomplete.
LEMMA WriteIs ==
    ASSUME NEW p \in Parsers, NEW data \in Seq(Chars)
    PROVE  Told(write(p, data))
<1>0. p.partial \in Seq(Chars) BY DEF Parsers
<1>1. p.partial \o data \in Seq(Chars) /\ <<>> \in Seq(Chars) BY <1>0
<1>2. [p EXCEPT !.partial = <<>>] \in Parsers BY <1>1 DEF Parsers
<1> QED BY <1>1, <1>2, DecodeIs DEF write

\* What the parser tells of is something the child may do.
LEMMA DispatchGoes ==
    ASSUME NEW u, Good(u), NEW e \in Events
    PROVE  Goes(u, Dispatch(u, e))
<1>1. e.w \in Chars /\ e.args \in Seq(Nat) BY DEF Events
<1>2. p1(e, 1) \in Nat \ {0} BY <1>1 DEF p1
<1>3. Goes(u, CUB(u, p1(e, 1))) BY <1>2, ByColumnsGoes
<1> QED BY <1>1, <1>3, Stays, PrintGoes, IndexGoes DEF Dispatch

\* And so is all that one read tells of.
LEMMA DispatchedGoes ==
    ASSUME NEW u, Good(u), NEW out \in Seq(Events)
    PROVE  Goes(u, Dispatched(u, out))
<1> DEFINE n == Len(out)
           A == {v \in Terms : Goes(u, v)}
           Solves(g) == g = [k \in 0 .. n |-> IF k = 0 THEN u ELSE Dispatch(g[k - 1], out[k])]
           f == CHOOSE g : Solves(g)
<1>0. n \in Nat /\ \A k \in 1 .. n : out[k] \in Events OBVIOUS
<1>5. Dispatched(u, out) = f[n] BY DEF Dispatched
<1>1. u \in A BY Stays, InUse
<1>2. ASSUME NEW v \in A, NEW e \in Events PROVE Dispatch(v, e) \in A
  <2>1. Good(v) /\ Goes(u, v) BY DEF Goes
  <2>2. Goes(v, Dispatch(v, e)) BY <2>1, DispatchGoes
  <2>3. Goes(u, Dispatch(v, e)) BY <2>1, <2>2, GoesOn
  <2> QED BY <2>3 DEF Goes, Good
<1> HIDE DEF A, n
<1>3. \E g : Solves(g)
  <2> DEFINE F == [k \in 1 .. n |-> [v \in A |-> Dispatch(v, out[k])]]
  <2>1. \A k \in 1 .. n : \A v \in A : F[k][v] = Dispatch(v, out[k]) OBVIOUS
  <2>2. F \in [1 .. n -> [A -> A]] BY <1>0, <1>2
  <2> HIDE DEF F
  <2>0. Runs(A, u, n, F) BY <1>0, <1>1, <2>2, InTurn
  <2>3. PICK g \in [0 .. n -> A] : g[0] = u /\ \A k \in 1 .. n : g[k] = F[k][g[k - 1]]
    BY <2>0 DEF Runs
  <2>4. \A k \in 0 .. n : g[k] = IF k = 0 THEN u ELSE Dispatch(g[k - 1], out[k])
    <3> TAKE k \in 0 .. n
    <3>1. k # 0 => k \in 1 .. n /\ k - 1 \in 0 .. n BY <1>0
    <3> QED BY <1>0, <2>1, <2>3, <3>1
  <2>5. g = [k \in 0 .. n |-> g[k]] OBVIOUS
  <2> QED BY <2>4, <2>5
<1>4. Solves(f) BY <1>3
<1> HIDE DEF f
<1>6. f[0] \in A BY <1>0, <1>1, <1>4
<1>7. \A k \in 1 .. n : f[k - 1] \in A => f[k] \in A
  <2> TAKE k \in 1 .. n
  <2>1. f[k] = Dispatch(f[k - 1], out[k]) BY <1>0, <1>4
  <2> QED BY <1>0, <1>2, <2>1
<1>8. f[n] \in A BY <1>0, <1>6, <1>7, Climbs
<1> QED BY <1>5, <1>8 DEF A

\* What a step of the child's, the person's or the window's may do to the terminal.
Does(u, v, by) ==
    /\ Good(v)
    /\ by = "child" => HistoryKept(u, v)
    /\ by # "size" => ShellKept(u, v)
    /\ by = "size" => v.on = u.on

TermInv ==
    /\ Good(t)
    /\ vt \in Parsers
    /\ scene \in Scenes
    /\ left \in Nat

\* Forgetting what nothing holds changes nothing of it.
LEMMA ThenTidy ==
    ASSUME NEW u, Good(u), NEW v, NEW by, Does(u, v, by)
    PROVE  Does(u, Tidy(v), by)
<1> DEFINE end == Tidy(v)
<1>1. Good(v) BY DEF Does
<1>2. /\ Goes(v, end) /\ Shell(end) = Shell(v) /\ end.on = v.on /\ end.scr = v.scr
      /\ end.gone = v.gone
  BY <1>1, TidyGoes
<1> HIDE DEF end
<1>3. Good(end) BY <1>2 DEF Goes
<1>4. HistoryKept(u, v) => HistoryKept(u, end) BY <1>2 DEF HistoryKept
<1>5. ShellKept(u, v) => ShellKept(u, end) BY <1>2 DEF ShellKept
<1>6. Does(u, end, by) BY <1>2, <1>3, <1>4, <1>5 DEF Does
<1> QED BY <1>6 DEF end

\* What draws is the child's to do.
LEMMA ChildDoes == ASSUME NEW u, NEW v, Goes(u, v) PROVE Does(u, v, "child")
BY DEF Goes, Kept, Does

\* The window's step.
LEMMA PaneDoes ==
    ASSUME NEW u, Good(u), NEW size \in Sizes
    PROVE  Does(u, resizePane(u, size[1], size[2]), "size")
<1>1. Good(resizePane(u, size[1], size[2])) BY PaneGood
<1>2. \A end : \A k \in Kinds : resizeScreen(end, k, size[1], size[2]).on = end.on
  BY DEF resizeScreen
<1>3. resizePane(u, size[1], size[2]).on = u.on BY <1>2 DEF resizePane, Kinds
<1> QED BY <1>1, <1>3 DEF Does

\* The person's step.
LEMMA PersonDoes ==
    ASSUME NEW u, Good(u), NEW n \in Int
    PROVE  /\ Does(u, WithS(u, [S(u) EXCEPT !.ring = scrollBackBy(S(u).ring, n)]), "person")
           /\ Does(u, WithS(u, [S(u) EXCEPT !.ring = scrollTo(S(u).ring, n)]), "person")
BY ViewGood DEF Does

\* Switching screens is the child's step, and keeps the shell's screen.
LEMMA SwitchDoes == ASSUME NEW u, Good(u), NEW on \in BOOLEAN PROVE Does(u, setAltScreen(u, on), "child")
BY SwitchGood DEF Does, ShellKept

\* A read, whatever bytes are in it and wherever it is cut.
LEMMA ReadDoes ==
    ASSUME NEW u, Good(u), NEW p \in Parsers, NEW sc \in Scenes, NEW n \in Nat, NEW data \in [1 .. n -> sc.chars]
    PROVE  Does(u, Read(u, p, data).u, "child") /\ Read(u, p, data).p \in Parsers
<1>1. sc.chars \subseteq Chars BY DEF Chars
<1>2. data \in Seq(Chars) BY <1>1
<1>3. Told(write(p, data)) BY <1>2, WriteIs
<1>4. Goes(u, Dispatched(u, write(p, data).out)) BY <1>3, DispatchedGoes DEF Told
<1> QED BY <1>3, <1>4, ChildDoes DEF Read, Told

\* A new pane's terminal.
LEMMA FirstIs == ASSUME NEW sc \in Scenes, scene = sc PROVE Good(First)
<1> DEFINE R == sc.size[1]
           C == sc.size[2]
           cells == [y \in Upto(R) |-> y + 1]
           h == [id \in Names |-> IF id <= R THEN BlankRow(C) ELSE BlankRow(0)]
           s == newScreen(R, C, cells, Cap)
<1>1. R \in 1 .. MaxRows /\ C \in Nat \ {0} /\ Cap \in Nat /\ MaxRows \in Nat
  BY TerminalAssumption
<1>2. cells \in [Upto(R) -> Names] /\ \A y \in Upto(R) : cells[y] = y + 1
  BY <1>1 DEF Upto, Names
<1>3. h \in [Names -> Texts] BY <1>1, BlankRowIs
<1>4. \A y \in Upto(R) : h[cells[y]] = BlankRow(C)
  <2> SUFFICES ASSUME NEW y \in Upto(R) PROVE h[cells[y]] = BlankRow(C) OBVIOUS
  <2>1. cells[y] = y + 1 /\ cells[y] \in Names BY <1>2
  <2>2. y + 1 <= R BY <1>1 DEF Upto
  <2> HIDE DEF cells, R, C
  <2> QED BY <2>1, <2>2
<1>4a. DOMAIN BlankRow(C) = Upto(C) BY DEF BlankRow
<1>5. /\ First.heap = h /\ First.on = "prim" /\ First.altMode = FALSE /\ First.lastChar = "none"
      /\ First.gone = <<>> /\ First.down = FALSE
      /\ First.scr = [k \in {"prim", "alt"} |-> IF k = "prim" THEN s ELSE NoAlt]
      /\ First = [heap |-> First.heap, scr |-> First.scr, on |-> First.on, altMode |-> First.altMode,
                  lastChar |-> First.lastChar, gone |-> First.gone, down |-> First.down]
  BY DEF First
<1> HIDE DEF h, cells
<1>6. newRing(Cap) \in Ring(Cap, Names) BY <1>1, NewIsRing
<1>7. s \in Screens("prim")
  <2>1. cells \in Grids BY <1>1, <1>2, GridIn
  <2> HIDE DEF R, C
  <2> QED BY <1>1, <1>6, <2>1 DEF newScreen, Screens, RingOf, Widths
<1>8. /\ s.rows = R /\ s.cols = C /\ s.cells = cells /\ s.ring = newRing(Cap)
      /\ s.scrollTop = 0 /\ s.scrollBot = R
      /\ s.curY = 0 /\ s.curX = 0
  BY DEF newScreen
<1> HIDE DEF s, R, C
<1>9. First \in Terms
  <2>1. <<>> \in Seq(Texts) OBVIOUS
  <2>2. First.scr \in {f \in [Kinds -> Screens("prim") \cup Screens("alt") \cup {NoAlt}] :
              f["prim"] \in Screens("prim") /\ f["alt"] \in Screens("alt") \cup {NoAlt}}
    BY <1>5, <1>7 DEF Kinds
  <2>3. /\ First.on \in Kinds /\ First.altMode \in BOOLEAN /\ First.lastChar \in Chars
        /\ First.gone \in Seq(Texts) /\ First.down \in BOOLEAN
    BY <1>5, <2>1 DEF Kinds, Chars
  <2>4. First.heap \in [Names -> Texts] BY <1>3, <1>5
  <2> QED BY <1>5, <2>2, <2>3, <2>4 DEF Terms
<1>10. First.scr["prim"] = s /\ First.scr["alt"] = NoAlt BY <1>5
<1>11. Live(First) = {"prim"} BY <1>9, <1>10, LiveIs DEF Kinds
<1>12. Gridded(First, "prim")
  <2>1. Placement(s) BY <1>1, <1>8 DEF Placement
  <2>2. \A y, z \in Upto(R) : cells[y] = cells[z] => y = z BY <1>1, <1>2 DEF Upto
  <2> QED BY <1>1, <1>2, <1>4, <1>4a, <1>5, <1>8, <1>10, <2>1, <2>2 DEF Gridded
<1>13. /\ newRing(Cap).len = 0 /\ newRing(Cap).head = 0
       /\ \A k \in Upto(Cap) : newRing(Cap).sb[k] = NoRow
  BY <1>1 DEF newRing, Upto
<1>14. Filled(First.scr["prim"].ring)
  <2>1. \A k \in Upto(Cap) : ~ (k < 0) BY <1>1 DEF Upto
  <2> DEFINE r == First.scr["prim"].ring
  <2>2. r.len = 0 /\ r.head = 0 /\ \A k \in Upto(Cap) : r.sb[k] = NoRow BY <1>8, <1>10, <1>13
  <2>3. 0 = Cap => Upto(Cap) = {} BY DEF Upto
  <2> HIDE DEF NoRow, r
  <2>4. \A k, l \in Upto(Cap) : r.sb[k] = r.sb[l] /\ r.sb[k] # NoRow => k = l BY <2>2
  <2>5. r.len < Cap => r.head = r.len /\ \A k \in Upto(Cap) : r.sb[k] # NoRow <=> k < r.len
    BY <2>1, <2>2
  <2>6. r.len = Cap => \A k \in Upto(Cap) : r.sb[k] # NoRow BY <2>2, <2>3
  <2> QED BY <2>4, <2>5, <2>6 DEF Filled, r
<1>15. Stored(First) = {} BY <1>8, <1>10, <1>13 DEF Stored
<1>16. Apart(First) BY <1>11, <1>15 DEF Apart
<1>17. Remembered(First)
  <2>1. Len(<<>>) = 0 /\ \A i \in 0 .. 0 - 1 : FALSE OBVIOUS
  <2> QED BY <1>5, <1>8, <1>10, <1>13, <2>1 DEF Remembered
<1> QED BY <1>5, <1>9, <1>11, <1>12, <1>14, <1>16, <1>17 DEF Good

\* The invariant holds at the start.
LEMMA TermStarts == TermInit => TermInv
<1> SUFFICES ASSUME TermInit PROVE TermInv OBVIOUS
<1>1. scene \in Scenes /\ left = scene.steps /\ vt = NewParser /\ t = First BY DEF TermInit
<1>2. Good(First) BY <1>1, FirstIs
<1>3. left \in Nat BY <1>1, TerminalAssumption
<1> QED BY <1>1, <1>2, <1>3, FirstParser DEF TermInv

\* Every action does what its actor may.
LEMMA TermSteps ==
    ASSUME TermInv, TermNext
    PROVE  TermInv' /\ Does(t, t', who')
<1>0. Good(t) /\ vt \in Parsers /\ scene \in Scenes /\ left \in Nat BY DEF TermInv
<1>0a. /\ Counts \subseteq Nat \ {0} /\ Places \subseteq Nat \ {0} /\ Counts \subseteq Nat
       /\ scene.chars \subseteq Chars
  BY <1>0, TerminalAssumption DEF Chars
<1>0b. S(t).rows \in Nat \ {0}
  BY <1>0, InUse DEF Screens, Widths
<1> DEFINE To(by, news) == /\ \A u \in news : Does(t, u, by)
                           /\ \E u \in news : t' = Tidy(u)
                           /\ who' = by /\ vt' = vt /\ scene' = scene /\ left' = left - 1
                           /\ left > 0
<1>1. ASSUME NEW by, NEW news, To(by, news) PROVE TermInv' /\ Does(t, t', who')
  <2>1. PICK u \in news : t' = Tidy(u) BY <1>1
  <2>2. Does(t, t', who') BY <1>0, <1>1, <2>1, ThenTidy
  <2>3. Good(t') BY <2>2 DEF Does
  <2>4. left' \in Nat BY <1>0, <1>1
  <2> QED BY <1>0, <1>1, <2>2, <2>3, <2>4 DEF TermInv
<1> HIDE DEF To
<1>2. ASSUME NEW v, Goes(t, v) PROVE Does(t, v, "child") BY <1>2, ChildDoes
<1>c1. ASSUME PrintChar PROVE To("child", {doPrint(t, ch) : ch \in scene.chars})
  <2>1. \A ch \in scene.chars : Does(t, doPrint(t, ch), "child") BY <1>0, <1>0a, <1>2, PrintGoes
  <2> QED BY <1>c1, <2>1 DEF PrintChar, Step, To
<1>c2. ASSUME Repeat PROVE To("child", {REP(t, n) : n \in Counts})
  <2>1. \A n \in Counts : Does(t, REP(t, n), "child") BY <1>0, <1>0a, <1>2, TimesGoes DEF REP
  <2> QED BY <1>c2, <2>1 DEF Repeat, Step, To
<1>c3. ASSUME Control PROVE To("child", {BS(t), HT(t), CR(t), CBT(t)})
  <2>1. \A v \in {BS(t), HT(t), CR(t), CBT(t)} : Does(t, v, "child") BY <1>0, <1>2, ControlGoes
  <2> QED BY <1>c3, <2>1 DEF Control, Step, To
<1>c4. ASSUME Newline PROVE To("child", {index(t), NEL(t)})
  <2>1. \A v \in {index(t), NEL(t)} : Does(t, v, "child")
    BY <1>0, <1>2, IndexGoes, NextLineGoes DEF NEL
  <2> QED BY <1>c4, <2>1 DEF Newline, Step, To
<1>c5. ASSUME LineUp PROVE To("child", {reverseIndex(t)})
  <2>1. \A v \in {reverseIndex(t)} : Does(t, v, "child") BY <1>0, <1>2, IndexGoes
  <2> QED BY <1>c5, <2>1 DEF LineUp, Step, To
<1>c6. ASSUME Scroll PROVE To("child", UNION {{SU(t, n), SD(t, n)} : n \in Counts})
  <2>1. \A n \in Counts : Does(t, SU(t, n), "child") /\ Does(t, SD(t, n), "child")
    BY <1>0, <1>0a, <1>2, TimesGoes DEF SU, SD
  <2> QED BY <1>c6, <2>1 DEF Scroll, Step, To
<1>c7. ASSUME Lines PROVE To("child", UNION {{IL(t, n), DL(t, n)} : n \in Counts})
  <2>1. \A n \in Counts : Does(t, IL(t, n), "child") /\ Does(t, DL(t, n), "child")
    BY <1>0, <1>0a, <1>2, TimesGoes DEF IL, DL
  <2> QED BY <1>c7, <2>1 DEF Lines, Step, To
<1>c8. ASSUME Margins
       PROVE  To("child", {DECSTBM(t, top, bot) : top \in Places, bot \in Places \cup {0}})
  <2>1. \A top \in Places, bot \in Places \cup {0} : Does(t, DECSTBM(t, top, bot), "child")
    BY <1>0, <1>0a, <1>2, MarginsGoes
  <2> QED BY <1>c8, <2>1 DEF Margins, Step, To
<1>c9. ASSUME Origin PROVE To("child", {DECOM(t, on) : on \in BOOLEAN})
  <2>1. \A on \in BOOLEAN : Does(t, DECOM(t, on), "child") BY <1>0, <1>2, ModesGoes
  <2> QED BY <1>c9, <2>1 DEF Origin, Step, To
<1>c10. ASSUME Vertical
        PROVE  To("child", UNION {{CUU(t, n), CUD(t, n), CNL(t, n), CPL(t, n)} : n \in Counts})
  <2>1. \A n \in Counts : \A v \in {CUU(t, n), CUD(t, n), CNL(t, n), CPL(t, n)} : Does(t, v, "child")
    BY <1>0, <1>0a, <1>2, ByLinesGoes
  <2> QED BY <1>c10, <2>1 DEF Vertical, Step, To
<1>c11. ASSUME Horizontal PROVE To("child", UNION {{CUF(t, n), CUB(t, n)} : n \in Counts})
  <2>1. \A n \in Counts : Does(t, CUF(t, n), "child") /\ Does(t, CUB(t, n), "child")
    BY <1>0, <1>0a, <1>2, ByColumnsGoes
  <2> QED BY <1>c11, <2>1 DEF Horizontal, Step, To
<1>c12. ASSUME Position PROVE To("child", {CUP(t, y, x) : y \in Places, x \in Places})
  <2>1. \A y \in Places, x \in Places : Does(t, CUP(t, y, x), "child")
    BY <1>0, <1>0a, <1>2, PositionGoes
  <2> QED BY <1>c12, <2>1 DEF Position, Step, To
<1>c13. ASSUME ToLine PROVE To("child", {VPA(t, n) : n \in Places})
  <2>1. \A n \in Places : Does(t, VPA(t, n), "child") BY <1>0, <1>0a, <1>2, ByLinesGoes
  <2> QED BY <1>c13, <2>1 DEF ToLine, Step, To
<1>c14. ASSUME ToColumn PROVE To("child", {CHA(t, n) : n \in Places})
  <2>1. \A n \in Places : Does(t, CHA(t, n), "child") BY <1>0, <1>0a, <1>2, ByColumnsGoes
  <2> QED BY <1>c14, <2>1 DEF ToColumn, Step, To
<1>c15. ASSUME Erase PROVE To("child", UNION {{EL(t, how), ED(t, how)} : how \in 0 .. 2})
  <2>1. \A how \in 0 .. 2 : Does(t, EL(t, how), "child") /\ Does(t, ED(t, how), "child")
    BY <1>0, <1>2, EraseGoes
  <2> QED BY <1>c15, <2>1 DEF Erase, Step, To
<1>c16. ASSUME Characters
        PROVE  To("child", UNION {{DCH(t, n), ICH(t, n), ECH(t, n)} : n \in Counts})
  <2>1. \A n \in Counts : \A v \in {DCH(t, n), ICH(t, n), ECH(t, n)} : Does(t, v, "child")
    BY <1>0, <1>0a, <1>2, CharactersGo
  <2> QED BY <1>c16, <2>1 DEF Characters, Step, To
<1>c17. ASSUME SetModes PROVE To("child", UNION {{DECAWM(t, on), IRM(t, on)} : on \in BOOLEAN})
  <2>1. \A on \in BOOLEAN : Does(t, DECAWM(t, on), "child") /\ Does(t, IRM(t, on), "child")
    BY <1>0, <1>2, ModesGoes
  <2> QED BY <1>c17, <2>1 DEF SetModes, Step, To
<1>c18. ASSUME Save PROVE To("child", {DECSC(t), DECRC(t)})
  <2>1. \A v \in {DECSC(t), DECRC(t)} : Does(t, v, "child") BY <1>0, <1>2, SaveGoes
  <2> QED BY <1>c18, <2>1 DEF Save, Step, To
<1>c19. ASSUME Reset PROVE To("child", {RIS(t)})
  <2>1. Does(t, RIS(t), "child") BY <1>0, <1>2, ResetGoes
  <2> QED BY <1>c19, <2>1 DEF Reset, Step, To
<1>c20. ASSUME SwitchScreen PROVE To("child", {setAltScreen(t, on) : on \in BOOLEAN})
  <2>1. \A on \in BOOLEAN : Does(t, setAltScreen(t, on), "child") BY <1>0, SwitchDoes
  <2> QED BY <1>c20, <2>1 DEF SwitchScreen, Step, To
<1>c21. ASSUME ReadOutput PROVE TermInv' /\ Does(t, t', who')
  <2>0. Min2(left, 3) \in Nat /\ Min2(left, 3) <= left BY <1>0 DEF Min2
  <2>1. PICK n \in 1 .. Min2(left, 3) : \E data \in [1 .. n -> scene.chars] :
          t' = Tidy(Read(t, vt, data).u) /\ vt' = Read(t, vt, data).p /\ left' = left - n
    BY <1>c21 DEF ReadOutput
  <2>1a. PICK data \in [1 .. n -> scene.chars] : t' = Tidy(Read(t, vt, data).u) /\ vt' = Read(t, vt, data).p /\ left' = left - n
    BY <2>1
  <2>2. n \in Nat /\ left - n \in Nat BY <1>0, <2>0
  <2>3. Does(t, Read(t, vt, data).u, "child") /\ Read(t, vt, data).p \in Parsers
    BY <1>0, <2>2, ReadDoes
  <2>4. Does(t, t', "child") BY <1>0, <2>1a, <2>3, ThenTidy
  <2>5. who' = "child" /\ scene' = scene BY <1>c21 DEF ReadOutput
  <2>6. Good(t') BY <2>4 DEF Does
  <2> QED BY <1>0, <2>1a, <2>2, <2>3, <2>4, <2>5, <2>6 DEF TermInv
<1>c22. ASSUME PaneResizes PROVE To("size", {resizePane(t, z[1], z[2]) : z \in Sizes})
  <2>1. \A z \in Sizes : Does(t, resizePane(t, z[1], z[2]), "size") BY <1>0, PaneDoes
  <2> QED BY <1>c22, <2>1 DEF PaneResizes, Step, To
<1>p1. ASSUME NEW n \in Int, scrollFocusedBy(n)
       PROVE  To("person", {WithS(t, [S(t) EXCEPT !.ring = scrollBackBy(S(t).ring, n)])})
  <2>1. Does(t, WithS(t, [S(t) EXCEPT !.ring = scrollBackBy(S(t).ring, n)]), "person")
    BY <1>0, PersonDoes
  <2> QED BY <1>p1, <2>1 DEF scrollFocusedBy, Step, To
<1>p2. ASSUME NEW n \in Int, scrollFocusedTo(n)
       PROVE  To("person", {WithS(t, [S(t) EXCEPT !.ring = scrollTo(S(t).ring, n)])})
  <2>1. Does(t, WithS(t, [S(t) EXCEPT !.ring = scrollTo(S(t).ring, n)]), "person")
    BY <1>0, PersonDoes
  <2> QED BY <1>p2, <2>1 DEF scrollFocusedTo, Step, To
<1>p3. Max2(1, S(t).rows - 2) \in Int /\ -Max2(1, S(t).rows - 2) \in Int BY <1>0b DEF Max2
<1>c23. ASSUME ScrollKey \/ EnterScroll \/ Wheel
        PROVE  \E n \in Int : scrollFocusedBy(n) \/ scrollFocusedTo(n)
  <2>1. CASE ScrollKey BY <2>1, <1>p3 DEF ScrollKey
  <2>2. CASE EnterScroll BY <2>2, <1>p3 DEF EnterScroll
  <2>3. CASE Wheel BY <2>3 DEF Wheel
  <2> QED BY <1>c23, <2>1, <2>2, <2>3
<1>3. ASSUME NEW n \in Int, scrollFocusedBy(n) \/ scrollFocusedTo(n)
      PROVE  TermInv' /\ Does(t, t', who')
  BY <1>1, <1>3, <1>p1, <1>p2
<1>4. PrintChar \/ Repeat \/ Control \/ Newline \/ LineUp \/ Scroll => TermInv' /\ Does(t, t', who')
  BY <1>1, <1>c1, <1>c2, <1>c3, <1>c4, <1>c5, <1>c6
<1>5. Lines \/ Margins \/ Origin \/ Vertical \/ Horizontal \/ Position \/ ToLine \/ ToColumn => TermInv' /\ Does(t, t', who')
  BY <1>1, <1>c7, <1>c8, <1>c9, <1>c10, <1>c11, <1>c12, <1>c13, <1>c14
<1>6. Erase \/ Characters \/ SetModes \/ Save \/ Reset \/ SwitchScreen \/ PaneResizes => TermInv' /\ Does(t, t', who')
  BY <1>1, <1>c15, <1>c16, <1>c17, <1>c18, <1>c19, <1>c20, <1>c22
<1>7. ScrollKey \/ EnterScroll \/ Wheel => TermInv' /\ Does(t, t', who') BY <1>3, <1>c23
<1> QED BY <1>4, <1>5, <1>6, <1>7, <1>c21 DEF TermNext

\* Every step keeps it.
LEMMA TermKeeps == TermInv /\ [TermNext]_termVars => TermInv'
<1>1. TermInv /\ UNCHANGED termVars => TermInv' BY DEF TermInv, termVars
<1> QED BY <1>1, TermSteps

\* It always holds.
LEMMA TermHolds == TermSpec => []TermInv
BY TermStarts, TermKeeps, PTL DEF TermSpec

\* The ring of either screen; the alternate one's has no capacity.
LEMMA RingIn ==
    ASSUME NEW u, Good(u), NEW k \in Live(u)
    PROVE  LET r == u.scr[k].ring IN /\ r.off \in Nat /\ r.len \in Nat /\ r.cap \in Nat /\ r.off <= r.len /\ r.len <= r.cap
<1>1. u \in Terms /\ k \in Kinds /\ u.scr[k] \in Screens(k) BY LiveIs DEF Good
<1>2. u.scr[k].ring \in RingOf(k) BY <1>1 DEF Screens
<1>3. CASE k = "prim" BY <1>3, <1>2, Known DEF RingOf, Ring
<1>4. CASE k = "alt" BY <1>4, <1>2 DEF RingOf, newRing
<1> QED BY <1>1, <1>3, <1>4 DEF Kinds

\* What the painter and the streamer index without looking is there: whatever
\* the sizes, the capacity of the ring and the sequences, every screen has its
\* rows, each as wide as the screen whatever row the ring handed back, the
\* margins lie in it and the viewport in the history (Screen.scrollUp, resize).
THEOREM PainterStaysInBounds == TermSpec => []PainterInBounds
<1>1. TermInv => PainterInBounds
  <2> SUFFICES ASSUME Good(t), NEW k \in Live(t)
               PROVE  LET s == t.scr[k] IN
                      /\ DOMAIN s.cells = Upto(s.rows)
                      /\ \A y \in Upto(s.rows) : DOMAIN t.heap[s.cells[y]] = Upto(s.cols)
                      /\ 0 <= s.scrollTop /\ s.scrollTop < s.scrollBot /\ s.scrollBot <= s.rows
                      /\ 0 <= s.ring.off /\ s.ring.off <= s.ring.len /\ s.ring.len <= s.ring.cap
                      /\ 0 <= s.curY /\ (s.curY < s.rows \/ s.savedY >= s.rows)
                      /\ 0 <= s.curX /\ (s.curX < s.cols \/ s.savedX >= s.cols)
    BY DEF TermInv, PainterInBounds
  <2> DEFINE s == t.scr[k]
  <2>1. Gridded(t, k) BY DEF Good
  <2>2. s \in Screens(k) BY LiveIs DEF Good
  <2>3. s.scrollTop \in Nat /\ s.curY \in Nat /\ s.curX \in Nat BY <2>2 DEF Screens
  <2>4. s.ring.off \in Nat /\ s.ring.off <= s.ring.len /\ s.ring.len <= s.ring.cap BY RingIn
  <2>5. /\ s.cells \in [Upto(s.rows) -> Names] /\ Placement(s)
        /\ \A y \in Upto(s.rows) : DOMAIN t.heap[s.cells[y]] = Upto(s.cols)
    BY <2>1 DEF Gridded
  <2>6. DOMAIN s.cells = Upto(s.rows) BY <2>5
  <2> HIDE DEF s
  <2>7. 0 <= s.scrollTop /\ 0 <= s.ring.off /\ 0 <= s.curY /\ 0 <= s.curX BY <2>3, <2>4
  <2>8. /\ s.scrollTop < s.scrollBot /\ s.scrollBot <= s.rows /\ (s.curY < s.rows \/ s.savedY >= s.rows)
        /\ (s.curX < s.cols \/ s.savedX >= s.cols)
    BY <2>5 DEF Placement
  <2> QED BY <2>4, <2>5, <2>6, <2>7, <2>8 DEF s
<1> QED BY <1>1, TermHolds, PTL

\* The history before a screen, and how long it is.
LEMMA HistoryIs ==
    ASSUME NEW u, Good(u), NEW k \in Live(u), NEW g, g = (IF k = "prim" THEN u.gone ELSE <<>>)
    PROVE  /\ g \in Seq(Texts) /\ Len(g) = u.scr[k].ring.len
           /\ \A i \in 0 .. u.scr[k].ring.len - 1 :
                sbRow(u.scr[k].ring, i) # NoRow /\ u.heap[sbRow(u.scr[k].ring, i)] = g[i + 1]
<1>1. u \in Terms /\ k \in Kinds /\ u.scr[k] \in Screens(k) BY LiveIs DEF Good
<1>2. CASE k = "prim"
  <2>1. Remembered(u) /\ Filled(u.scr["prim"].ring) BY DEF Good
  <2>2. \A i \in 0 .. u.scr["prim"].ring.len - 1 : sbRow(u.scr["prim"].ring, i) # NoRow
    BY <1>1, <2>1, SlotIsRow, Known
  <2>3. u.gone \in Seq(Texts) BY <1>1 DEF Terms
  <2> QED BY <1>2, <2>1, <2>2, <2>3 DEF Remembered
<1>3. CASE k = "alt"
  <2>1. u.scr[k].ring = newRing(0) BY <1>1, <1>3 DEF Screens, RingOf
  <2>2. newRing(0).len = 0 BY DEF newRing
  <2>3. <<>> \in Seq(Texts) /\ Len(<<>>) = 0 /\ \A i \in 0 .. 0 - 1 : FALSE OBVIOUS
  <2> QED BY <1>3, <2>1, <2>2, <2>3
<1> QED BY <1>1, <1>2, <1>3 DEF Kinds

\* A screenful at an offset is a window on the document.
LEMMA WindowIs ==
    ASSUME NEW u, Good(u), NEW k \in Live(u), NEW off \in Nat
    PROVE  LET s == u.scr[k]
               doc == Document(u, k)
               from == Len(doc) - s.rows - Min2(off, Len(doc) - s.rows)
           IN captureAt(u, s, off) = SubSeq(doc, from + 1, from + s.rows)
<1> DEFINE s == u.scr[k]
           R == s.rows
           L == s.ring.len
           o == Min2(off, L)
           g == IF k = "prim" THEN u.gone ELSE <<>>
           rows == [i \in 1 .. R |-> u.heap[s.cells[i - 1]]]
           doc == Document(u, k)
           from == Len(doc) - R - Min2(off, Len(doc) - R)
           shown == captureAt(u, s, off)
<1>1. /\ s \in Screens(k) /\ R \in Nat \ {0} /\ s.cells \in [Upto(R) -> Names]
      /\ u.heap \in [Names -> Texts]
  <2>1. s \in Screens(k) BY LiveIs DEF Good
  <2>2. Gridded(u, k) BY DEF Good
  <2>3. u.heap \in [Names -> Texts] BY DEF Good, Terms
  <2> QED BY <2>1, <2>2, <2>3 DEF Gridded, Screens, Widths
<1>2. L \in Nat BY RingIn
<1>3. /\ g \in Seq(Texts) /\ Len(g) = L
      /\ \A i \in 0 .. L - 1 : sbRow(s.ring, i) # NoRow /\ u.heap[sbRow(s.ring, i)] = g[i + 1]
  BY HistoryIs
<1>4. doc = g \o rows BY DEF Document
<1>5. shown = [i \in 1 .. R |-> IF viewRow(s, clamp(off, 0, L), i - 1) = NoRow THEN BlankRow(0)
                               ELSE u.heap[viewRow(s, clamp(off, 0, L), i - 1)]]
  BY DEF captureAt
<1>6. \A i \in 1 .. R : rows[i] = u.heap[s.cells[i - 1]] /\ s.cells[i - 1] # NoRow
  <2> TAKE i \in 1 .. R
  <2>1. i - 1 \in Upto(R) BY <1>1 DEF Upto
  <2>2. s.cells[i - 1] \in Names BY <1>1, <2>1
  <2> QED BY <2>2, Known
<1>7. rows \in Seq(Texts) /\ Len(rows) = R
  <2>1. \A i \in 1 .. R : u.heap[s.cells[i - 1]] \in Texts
    <3> TAKE i \in 1 .. R
    <3>1. i - 1 \in Upto(R) BY <1>1 DEF Upto
    <3> QED BY <1>1, <3>1
  <2> HIDE DEF R
  <2> QED BY <1>1, <2>1
<1>8. o \in Nat /\ o <= L /\ clamp(off, 0, L) = o BY <1>2 DEF Min2, clamp
<1>9. \A i \in 1 .. R : viewRow(s, o, i - 1) =
        IF i - 1 >= o THEN (IF i - 1 - o < R THEN s.cells[i - 1 - o] ELSE NoRow) ELSE sbRow(s.ring, L + (i - 1) - o)
  BY DEF viewRow
<1> HIDE DEF g, rows, doc, shown, L, R, o, s
<1>10. Len(doc) = L + R /\ doc \in Seq(Texts)
       /\ \A i \in 1 .. L + R : doc[i] = IF i <= L THEN g[i] ELSE rows[i - L]
  BY <1>1, <1>2, <1>3, <1>4, <1>7, ConcatProperties
<1>11. from = L - o BY <1>1, <1>2, <1>10 DEF o
<1> HIDE DEF from
<1>12. \A i \in 1 .. R : shown[i] = doc[from + i]
  <2> TAKE i \in 1 .. R
  <2>1. CASE i - 1 >= o
    <3>1. /\ i - o \in 1 .. R /\ L - o + i \in 1 .. L + R /\ ~(L - o + i <= L)
          /\ L - o + i - L = i - o /\ i - 1 - o = (i - o) - 1 /\ i - 1 - o < R
      BY <1>1, <1>2, <1>8, <2>1
    <3>2. viewRow(s, o, i - 1) = s.cells[(i - o) - 1] BY <1>9, <2>1, <3>1
    <3>3. shown[i] = rows[i - o] BY <1>5, <1>6, <1>8, <3>1, <3>2
    <3>4. doc[L - o + i] = rows[i - o]
      <4> DEFINE m == L - o + i
      <4>1. m \in 1 .. L + R /\ ~(m <= L) /\ m - L = i - o BY <1>1, <1>2, <1>8, <2>1
      <4> HIDE DEF m
      <4>2. doc[m] = rows[m - L] BY <1>10, <4>1
      <4> QED BY <4>1, <4>2 DEF m
    <3>5. from + i = L - o + i BY <1>11
    <3> QED BY <3>3, <3>4, <3>5
  <2>2. CASE ~(i - 1 >= o)
    <3>1. /\ L + (i - 1) - o \in 0 .. L - 1 /\ L - o + i \in 1 .. L + R /\ L - o + i <= L
          /\ (L + (i - 1) - o) + 1 = L - o + i
      BY <1>1, <1>2, <1>8, <2>2
    <3>2. viewRow(s, o, i - 1) = sbRow(s.ring, L + (i - 1) - o) BY <1>9, <2>2
    <3>3. shown[i] = g[L - o + i] BY <1>3, <1>5, <1>8, <3>1, <3>2
    <3>4. doc[L - o + i] = g[L - o + i] BY <1>10, <3>1
    <3>5. from + i = L - o + i BY <1>11
    <3> QED BY <3>3, <3>4, <3>5
  <2> QED BY <2>1, <2>2
<1>13. SubSeq(doc, from + 1, from + R) = [i \in 1 .. R |-> doc[from + i]]
  <2>1. from + 1 \in 1 .. L + R + 1 /\ from + R \in (from + 1) - 1 .. L + R /\ from \in Nat
    BY <1>1, <1>2, <1>8, <1>11
  <2> DEFINE q == SubSeq(doc, from + 1, from + R)
  <2>2. q \in Seq(Texts) /\ Len(q) = R /\ \A i \in 1 .. R : q[i] = doc[from + i]
    <3>0. \A j \in from + 1 .. from + R : doc[j] \in Texts BY <1>1, <1>2, <1>10, <2>1
    <3>1. q \in Seq(Texts) /\ Len(q) = (IF from + 1 <= from + R THEN from + R - (from + 1) + 1 ELSE 0)
          /\ \A j \in 1 .. from + R - (from + 1) + 1 : q[j] = doc[from + 1 + j - 1]
      BY <1>1, <2>1, <3>0, SubSeqProperties
    <3>2. from + R - (from + 1) + 1 = R /\ from + 1 <= from + R /\ \A j \in 1 .. R : from + 1 + j - 1 = from + j
      BY <1>1, <2>1
    <3> HIDE DEF q
    <3> QED BY <3>1, <3>2
  <2> HIDE DEF q
  <2>3. q = [i \in 1 .. R |-> q[i]] BY <2>2
  <2>4. q = [i \in 1 .. R |-> doc[from + i]] BY <2>2, <2>3
  <2> QED BY <2>4 DEF q
<1>14. shown = [i \in 1 .. R |-> shown[i]] BY <1>5
<1>15. shown = SubSeq(doc, from + 1, from + R) BY <1>12, <1>13, <1>14
<1> QED BY <1>15 DEF shown, doc, from, R, s

\* What is shown at any offset is a window on the rows that scrolled off the
\* primary screen and those on it, in order and unaltered (viewRow, captureAt):
\* the ring's rows are those that scrolled off last, although rows are swapped
\* and recycled, and no row has two places.
THEOREM EveryViewIsAWindow == TermSpec => []ViewIsAWindow
<1>1. TermInv => ViewIsAWindow
  <2> SUFFICES ASSUME Good(t), NEW k \in Live(t), NEW off \in 0 .. Cap + 1
               PROVE  LET s == t.scr[k]
                          doc == Document(t, k)
                          from == Len(doc) - s.rows - Min2(off, Len(doc) - s.rows)
                      IN captureAt(t, s, off) = SubSeq(doc, from + 1, from + s.rows)
    BY DEF TermInv, ViewIsAWindow
  <2>1. off \in Nat BY Known
  <2> QED BY <2>1, WindowIs
<1> QED BY <1>1, TermHolds, PTL

\* The history in view, after a step that keeps it.
LEMMA ParkedIs ==
    ASSUME NEW u, Good(u), NEW v, Good(v), HistoryKept(u, v), v.scr["prim"].ring.off < Cap, NEW i \in DOMAIN Parked(u)
    PROVE  v.heap[Parked(v)[i]] = u.heap[Parked(u)[i]]
<1> DEFINE R == u.scr["prim"].rows
           r == u.scr["prim"].ring
           q == v.scr["prim"].ring
<1>1. /\ r.off \in Nat /\ r.len \in Nat /\ r.off <= r.len /\ q.off \in Nat /\ q.len \in Nat
      /\ q.off <= q.len
  BY RingIs
<1>2. R \in Nat /\ v.scr["prim"].rows = R /\ r.off <= q.off
  BY InUse DEF Screens, Widths, HistoryKept
<1>3. /\ Parked(u) = [j \in 1 .. Min2(r.off, R) |-> sbRow(r, r.len - r.off + j - 1)]
      /\ Parked(v) = [j \in 1 .. Min2(q.off, R) |-> sbRow(q, q.len - q.off + j - 1)]
  BY <1>2 DEF Parked
<1>4. \A j \in 0 .. r.len - 1 : u.heap[sbRow(r, j)] = u.gone[j + 1] BY DEF Good, Remembered
<1>5. \A j \in 0 .. q.len - 1 : v.heap[sbRow(q, j)] = v.gone[j + 1] BY DEF Good, Remembered
<1>6. \A j \in 1 .. r.off : v.gone[q.len - q.off + j] = u.gone[r.len - r.off + j]
  BY DEF HistoryKept
<1> HIDE DEF R, r, q
<1>7. i \in 1 .. Min2(r.off, R) BY <1>3
<1>8. i \in 1 .. r.off /\ i \in 1 .. Min2(q.off, R) BY <1>1, <1>2, <1>7 DEF Min2
<1>9. /\ r.len - r.off + i - 1 \in 0 .. r.len - 1 /\ q.len - q.off + i - 1 \in 0 .. q.len - 1
      /\ r.len - r.off + i - 1 + 1 = r.len - r.off + i
      /\ q.len - q.off + i - 1 + 1 = q.len - q.off + i
  BY <1>1, <1>2, <1>8
<1>10. u.heap[Parked(u)[i]] = u.gone[r.len - r.off + i] BY <1>3, <1>4, <1>7, <1>9
<1>11. v.heap[Parked(v)[i]] = v.gone[q.len - q.off + i] BY <1>3, <1>5, <1>8, <1>9
<1> QED BY <1>6, <1>8, <1>10, <1>11

\* While the person reads the history the child does not move it, and the shell's
\* screen comes back as it was when a full-screen program leaves the alternate
\* one (pushScrollback, setAltScreen).
THEOREM HiddenIsAlwaysKept == TermSpec => WhatIsHiddenIsKept
<1>1. ASSUME TermInv, [TermNext]_termVars
      PROVE  /\ who' = "child" /\ t'.scr["prim"].ring.off < Cap =>
                  \A i \in DOMAIN Parked(t) : t'.heap[Parked(t)'[i]] = t.heap[Parked(t)[i]]
             /\ t'.altMode <=> t'.on = "alt"
             /\ t.on = "alt" /\ Shell(t)' # Shell(t) => who' = "size"
             /\ t.on = "alt" /\ t'.on = "prim" => Shell(t)' = Shell(t)
  <2>0. Good(t) BY <1>1 DEF TermInv
  <2>1. CASE TermNext
    <3>1. Does(t, t', who') BY <1>1, <2>1, TermSteps
    <3>2. Good(t') /\ (who' = "child" => HistoryKept(t, t')) /\ (who' # "size" => ShellKept(t, t')) /\ (who' = "size" => t'.on = t.on)
      BY <3>1 DEF Does
    <3>3. Parked(t)' = Parked(t') /\ Shell(t)' = Shell(t') BY DEF Parked, Shell
    <3>4. who' = "child" /\ t'.scr["prim"].ring.off < Cap =>
            \A i \in DOMAIN Parked(t) : t'.heap[Parked(t')[i]] = t.heap[Parked(t)[i]]
      BY <2>0, <3>2, ParkedIs
    <3>5. t'.altMode <=> t'.on = "alt" BY <3>2 DEF Good
    <3>6. t.on = "alt" /\ who' # "size" => Shell(t') = Shell(t) BY <3>2 DEF ShellKept
    <3>7. t.on = "alt" /\ t'.on = "prim" => who' # "size" BY <3>2
    <3> QED BY <3>3, <3>4, <3>5, <3>6, <3>7
  <2>2. CASE UNCHANGED termVars
    <3>1. t' = t BY <2>2 DEF termVars
    <3>2. Parked(t)' = Parked(t) /\ Shell(t)' = Shell(t) BY <3>1 DEF Parked, Shell
    <3>3. t.altMode <=> t.on = "alt" BY <2>0 DEF Good
    <3> QED BY <3>1, <3>2, <3>3
  <2> QED BY <1>1, <2>1, <2>2
<1>2. TermInv /\ [TermNext]_termVars =>
        [who' = "child" /\ t'.scr["prim"].ring.off < Cap
            => \A i \in DOMAIN Parked(t) : t'.heap[Parked(t)'[i]] = t.heap[Parked(t)[i]]]_termVars
  BY <1>1
<1>3. TermInv /\ [TermNext]_termVars =>
        [/\ t'.altMode <=> t'.on = "alt"
         /\ t.on = "alt" /\ Shell(t)' # Shell(t) => who' = "size"
         /\ t.on = "alt" /\ t'.on = "prim" => Shell(t)' = Shell(t)]_termVars
  BY <1>1
<1> QED
  BY <1>2, <1>3, TermHolds, PTL DEF TermSpec, WhatIsHiddenIsKept, HistoryHeldStill, PrimaryComesBack
=============================================================================
