---------------------------- MODULE CommandMenu ----------------------------
(***************************************************************************)
(* The slash-command menu of one runtime: command_menu.py projects what    *)
(* the gateway offers to a list of commands, and a loop of the runtime     *)
(* (src/hermes_octo_plugin/adapter.py) publishes the list to the server,   *)
(* when a connect forces it and when a poll finds that it changed.         *)
(*                                                                         *)
(* The menu belongs to the bot.  A token may be moved to another bot, which *)
(* the runtime learns when it registers again.  A command's name is a      *)
(* number, in the order of names.                                          *)
(***************************************************************************)
EXTENDS SequencesExt, Integers

CONSTANTS
    Robots, NoRobot,  \* the bots the token may belong to
    Offers,      \* <<source, name>> pairs that registries of the gateway may hold
    Reserved,    \* core names and aliases that are recognised but not shown
    OctoNames,   \* plugin names that begin with octo-
    Length,      \* stored length of a command's entry, by name
    MaxChars,    \* command_menu_max_chars, 0 for no limit
    FirstOffers, \* bound: what the registries may hold at the start
    MaxChanges,  \* bound: changes of the registries or of the usage
    MaxMoves,    \* bound: moves of the token to another bot
    MaxBreaks    \* bound: lost connections and disconnects

Names == {o[2] : o \in Offers}
Skills == {n \in Names : <<"skill", n>> \in Offers}

ASSUME MenuAssumption ==
    /\ Offers \subseteq {"core", "quick", "plugin", "bundle", "skill"} \X Nat
    /\ Reserved \subseteq Names /\ OctoNames \subseteq Names
    /\ Length \in [Names -> Nat \ {0}]
    /\ MaxChars \in Nat \ {1}
    /\ FirstOffers \subseteq SUBSET Offers
    /\ NoRobot \notin Robots

ASSUME MenuBounds == MaxChanges \in Nat /\ MaxMoves \in Nat /\ MaxBreaks \in Nat

VARIABLES
    offered,  \* what the registries of the gateway hold
    used,     \* the skills used more often than the others
    menu,     \* the projection of these
    bot,      \* the bot the server takes the token for
    server,   \* the menu of each bot
    robot,    \* _robot_id
    life,     \* no session, joining, connected, or a session without a websocket
    task,     \* _command_menu_task: none, in its wait, or in set_commands
    event,    \* _command_menu_force_event
    force,    \* _command_menu_force_pending
    digest,   \* _command_menu_published_digest
    request,  \* the snapshot being published, and the bot whose menu the server made it
    astray,   \* history: a publication whose answer was lost, or a moved token, since
              \* the last connect
    changes, moves, breaks

gateway == <<offered, used, menu>>
octo    == <<bot, server>>
loop    == <<task, event, force, digest, request>>
bounds  == <<changes, moves, breaks>>
vars    == <<gateway, octo, robot, life, loop, astray, bounds>>

-----------------------------------------------------------------------------
(* The projection.                                                         *)

\* Sources in the order in which the gateway looks a command up.
Sources == <<"core", "quick", "plugin", "bundle", "skill">>
Lookup(source) == CHOOSE i \in 1..Len(Sources) : Sources[i] = source

Before(e, f) == \/ Lookup(e[1]) < Lookup(f[1])
                \/ e[1] = f[1] /\ e[2] < f[2]

\* The set S in the total order Less.
Sorted(S, Less(_, _)) ==
    [i \in 1..Cardinality(S) |->
        CHOOSE e \in S : Cardinality({f \in S : Less(f, e)}) = i - 1]

AddAlways(entries, e) == Append(entries, e)  \* mutant: a name in two entries

\* add(): the first source that has a name keeps it.
Add(entries, e) ==
    IF \/ \E i \in DOMAIN entries : entries[i][2] = e[2]
       \/ e[1] # "core" /\ e[2] \in Reserved
    THEN entries ELSE Append(entries, e)

Collected(S) == FoldLeft(Add, <<>>, Sorted(S, Before))

Priority(e) ==
    CASE e[1] = "plugin" /\ e[2] \in OctoNames -> 0
      [] e[1] = "core"   -> 1
      [] e[1] = "skill"  -> 2
      [] e[1] = "quick"  -> 3
      [] e[1] = "plugin" /\ e[2] \notin OctoNames -> 4
      [] e[1] = "bundle" -> 5

\* sorted() is stable, so that entries that compare equal keep their places.
Outranks(U, e, f) ==
    \/ Priority(e) < Priority(f)
    \/ /\ Priority(e) = Priority(f)
       /\ IF e[1] = "skill" THEN \/ e[2] \in U /\ f[2] \notin U
                                 \/ (e[2] \in U <=> f[2] \in U) /\ e[2] < f[2]
          ELSE Before(e, f)

Ordered(S, U) ==
    IF MaxChars = 0 THEN Collected(S)
    ELSE Sorted(ToSet(Collected(S)), LAMBDA e, f : Outranks(U, e, f))

FitSkips(acc, e) ==  \* mutant: what does not fit is skipped
    LET chars == acc.chars + Length[e[2]] + (IF acc.menu = <<>> THEN 0 ELSE 1)
    IN  IF MaxChars # 0 /\ chars > MaxChars THEN acc
        ELSE [acc EXCEPT !.menu = Append(@, e), !.chars = chars]

\* The loop over the ordered entries, which ends at the first that does not fit.
Fit(acc, e) ==
    LET chars == acc.chars + Length[e[2]] + (IF acc.menu = <<>> THEN 0 ELSE 1)
    IN  IF acc.ended \/ (MaxChars # 0 /\ chars > MaxChars)
        THEN [acc EXCEPT !.ended = TRUE]
        ELSE [acc EXCEPT !.menu = Append(@, e), !.chars = chars]

Entries(S, U) ==
    FoldLeft(Fit, [menu |-> <<>>, chars |-> 2, ended |-> FALSE], Ordered(S, U)).menu

\* With a limit an item has no description, and does not tell its source.
Item(e) == IF MaxChars = 0 THEN e ELSE <<"any", e[2]>>
Items(q) == [i \in DOMAIN q |-> Item(q[i])]

Menu(S, U) == Items(Entries(S, U))
Menus == {Items(Entries(p[1], p[2])) : p \in (SUBSET Offers) \X (SUBSET Skills)}
NoMenu == <<<<"none", 0>>>>

\* collect_runtime_command_menu raises when no core command was collected, and
\* when a registry, the configuration or the limit cannot be read.
HasCore == \E e \in offered : e[1] = "core"

-----------------------------------------------------------------------------
TypeOK ==
    /\ offered \subseteq Offers /\ used \subseteq Skills /\ menu \in Menus
    /\ bot \in Robots /\ robot \in Robots \union {NoRobot}
    /\ server \in [Robots -> Menus \union {NoMenu}]
    /\ life \in {"down", "joining", "up", "lost"}
    /\ task \in {"none", "waiting", "asking"} /\ (life = "down" => task = "none")
    /\ event \in BOOLEAN /\ force \in BOOLEAN /\ astray \in BOOLEAN
    /\ digest \in Menus \union {NoMenu}
    /\ request \in [menu : Menus \union {NoMenu}, taker : Robots \union {NoRobot}]
    /\ changes \in 0..MaxChanges /\ moves \in 0..MaxMoves /\ breaks \in 0..MaxBreaks

NoRequest == [menu |-> NoMenu, taker |-> NoRobot]
Taken == request.taker # NoRobot

Init ==
    /\ offered \in FirstOffers /\ used = {} /\ menu = Menu(offered, used)
    /\ bot \in Robots /\ robot = NoRobot
    /\ server = [r \in Robots |-> NoMenu]
    /\ life = "down" /\ task = "none"
    /\ event = FALSE /\ force = FALSE /\ astray = FALSE
    /\ digest = NoMenu /\ request = NoRequest
    /\ changes = 0 /\ moves = 0 /\ breaks = 0

\* A command is registered or removed while the gateway runs.
Changes(o) ==
    /\ changes < MaxChanges /\ changes' = changes + 1
    /\ offered' = SymDiff(offered, {o}) /\ menu' = Menu(offered', used)
    /\ UNCHANGED <<used, octo, robot, life, loop, astray, moves, breaks>>

\* A skill becomes, or is no longer, one of the most used.
Uses(n) ==
    /\ changes < MaxChanges /\ changes' = changes + 1
    /\ used' = SymDiff(used, {n}) /\ menu' = Menu(offered, used')
    /\ UNCHANGED <<offered, octo, robot, life, loop, astray, moves, breaks>>

TokenMoves(r) ==
    /\ moves < MaxMoves /\ moves' = moves + 1
    /\ r # bot /\ bot' = r
    /\ astray' = TRUE
    /\ UNCHANGED <<gateway, server, robot, life, loop, changes, breaks>>

\* _do_connect registers.  Another bot than before drops what belonged to the
\* previous one, while a publication may still be on its way.
Registers ==
    /\ life \in {"down", "lost"} /\ life' = "joining"
    /\ robot' = bot
    /\ IF robot \in {NoRobot, bot}
       THEN UNCHANGED <<digest, force, event>>
       ELSE digest' = NoMenu /\ force' = FALSE /\ event' = FALSE
    /\ UNCHANGED <<gateway, octo, task, request, astray, bounds>>

WelcomedQuietly ==  \* mutant: a running loop is not woken
    /\ life = "joining" /\ life' = "up"
    /\ event' = (event \/ task = "none")
    /\ task' = IF task = "none" THEN "waiting" ELSE task
    /\ astray' = (bot # robot)
    /\ UNCHANGED <<gateway, octo, robot, force, digest, request, bounds>>

\* The websocket is open: _wake_command_menu_sync.
Welcomed ==
    /\ life = "joining" /\ life' = "up"
    /\ event' = TRUE
    /\ task' = IF task = "none" THEN "waiting" ELSE task
    /\ astray' = (bot # robot)
    /\ UNCHANGED <<gateway, octo, robot, force, digest, request, bounds>>

\* The websocket, or the attempt to open one, is lost.  The loop goes on.
Lost ==
    /\ breaks < MaxBreaks /\ breaks' = breaks + 1
    /\ life \in {"joining", "up"} /\ life' = "lost"
    /\ UNCHANGED <<gateway, octo, robot, loop, astray, changes, moves>>

DisconnectsBeside ==  \* mutant: the loop is not cancelled
    /\ breaks < MaxBreaks /\ breaks' = breaks + 1
    /\ life # "down" /\ life' = "down"
    /\ UNCHANGED <<gateway, octo, robot, loop, astray, changes, moves>>

\* _finalize_disconnect_resources.  The digest stays.
Disconnects ==
    /\ breaks < MaxBreaks /\ breaks' = breaks + 1
    /\ life # "down" /\ life' = "down"
    /\ task' = "none" /\ event' = FALSE /\ force' = FALSE
    /\ request' = NoRequest
    /\ astray' = (astray \/ Taken)
    /\ UNCHANGED <<gateway, octo, robot, digest, changes, moves>>

\* The wait of the loop ends, by the event or after a minute.
WaitEnds(forced) ==
    /\ task = "waiting" /\ (forced => event)
    /\ event' = (event /\ ~forced)
    /\ force' = (force \/ forced)

\* _reconcile_command_menu: the snapshot cannot be built.
Unbuilt(forced) ==
    /\ WaitEnds(forced)
    /\ UNCHANGED <<gateway, octo, robot, life, task, digest, request, astray, bounds>>

Unchanged(forced) ==
    /\ WaitEnds(forced)
    /\ HasCore /\ ~force' /\ menu = digest
    /\ UNCHANGED <<gateway, octo, robot, life, task, digest, request, astray, bounds>>

Publishes(forced) ==
    /\ WaitEnds(forced)
    /\ HasCore /\ (force' \/ menu # digest)
    /\ task' = "asking"
    /\ request' = [menu |-> menu, taker |-> NoRobot]
    /\ UNCHANGED <<gateway, octo, robot, life, digest, astray, bounds>>

ServerTakes ==
    /\ task = "asking" /\ ~Taken
    /\ server' = [server EXCEPT ![bot] = request.menu]
    /\ request' = [request EXCEPT !.taker = bot]
    /\ UNCHANGED <<gateway, bot, robot, life, task, event, force, digest, astray, bounds>>

Published ==
    /\ task = "asking" /\ Taken
    /\ task' = "waiting" /\ request' = NoRequest
    /\ digest' = request.menu /\ force' = FALSE
    /\ astray' = (astray /\ {bot, request.taker} # {robot})
    /\ UNCHANGED <<gateway, octo, robot, life, event, bounds>>

FailsForced ==  \* mutant: a failed publication is no longer forced
    /\ task = "asking"
    /\ task' = "waiting" /\ request' = NoRequest
    /\ force' = FALSE
    /\ astray' = (astray \/ Taken)
    /\ UNCHANGED <<gateway, octo, robot, life, event, digest, bounds>>

\* The request fails, although the server may have taken it.
Fails ==
    /\ task = "asking"
    /\ task' = "waiting" /\ request' = NoRequest
    /\ astray' = (astray \/ Taken)
    /\ UNCHANGED <<gateway, octo, robot, life, event, force, digest, bounds>>

Reconcile(forced) == Unbuilt(forced) \/ Unchanged(forced) \/ Publishes(forced)

Next ==
    \/ \E o \in Offers : Changes(o)
    \/ \E n \in Skills : Uses(n)
    \/ \E r \in Robots : TokenMoves(r)
    \/ Registers
    \/ Welcomed
    \/ Lost
    \/ Disconnects
    \/ \E forced \in BOOLEAN : Reconcile(forced)
    \/ ServerTakes
    \/ Published
    \/ Fails

Spec == Init /\ [][Next]_vars

\* The loop runs.  A gateway whose registries can be read, and a server that
\* answers, do so at last; waits, failures and everything outside are not fair.
Fairness ==
    /\ WF_vars(\E forced \in BOOLEAN : Reconcile(forced))
    /\ SF_vars(Publishes(TRUE) \/ Unchanged(TRUE))
    /\ SF_vars(Publishes(FALSE) \/ Unchanged(FALSE))
    /\ SF_vars(ServerTakes)
    /\ SF_vars(Published)

FairSpec == Spec /\ Fairness
-----------------------------------------------------------------------------
(* Properties.                                                             *)

\* The digest is the only thing the periodic poll compares.  While no forced
\* publication is due it says what the present bot's menu is: neither an answer
\* that arrives after the bot has changed, nor a failure, makes the poll believe
\* in a menu the server does not have (_reconcile_command_menu,
\* _reset_identity_scoped_state).  Left out is a runtime that is astray: an answer
\* was lost after the server took the menu, or the token moved, since the last
\* connect.
DigestIsTruth ==
    (life = "up" /\ ~event /\ ~force /\ ~astray /\ ~Taken /\ digest # NoMenu)
        => server[robot] = digest

\* A connected runtime whose gateway has come to rest publishes that menu, forced
\* or not, whatever failed before (the loop's "eventually reconcile").
Settled == life = "up" /\ HasCore
MenuIsCurrent == robot \in Robots /\ server[robot] = menu
MenuBecomesCurrent == <>[]Settled => <>[](astray \/ MenuIsCurrent)

\* What build_command_menu publishes, against what dispatch does: every entry is
\* what its name runs, no name that dispatch keeps for itself is shown, the limit
\* holds, and an entry is left out only behind all that outrank it, at a point
\* where the next one no longer fits.
RunsAs(n) == Sources[CHOOSE i \in 1..Len(Sources) :
                 /\ <<Sources[i], n>> \in offered
                 /\ \A j \in 1..(i - 1) : <<Sources[j], n>> \notin offered]
Dispatched == {e \in offered : e[1] = RunsAs(e[2]) /\ (e[1] # "core" => e[2] \notin Reserved)}
Chars(S) == 1 + MapThenSumSet(LAMBDA e : Length[e[2]] + 1, S)
MenuIsProjection ==
    LET q == Entries(offered, used)
        shown == ToSet(q)
    IN  /\ menu = Items(q)
        /\ shown \subseteq Dispatched /\ Cardinality(shown) = Len(q)
        /\ MaxChars = 0 => shown = Dispatched
        /\ MaxChars # 0 =>
              /\ shown # {} => Chars(shown) <= MaxChars
              /\ \A e \in shown, f \in Dispatched \ shown : Outranks(used, e, f)
              /\ shown # Dispatched =>
                    \E f \in Dispatched \ shown : Chars(shown \union {f}) > MaxChars
=============================================================================
