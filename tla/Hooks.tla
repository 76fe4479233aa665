-------------------------------- MODULE Hooks --------------------------------
(***************************************************************************)
(* Reporting what nobody caught: the hook a reporter installs at init and  *)
(* takes out at close, among those other libraries install (hooks.py and   *)
(* __init__.py in Python; index.ts of Node, Deno and Bun).                 *)
(*                                                                         *)
(* In Python a hook is one variable of the interpreter and each hook calls *)
(* the one it found there. In JavaScript it is a listener, added and       *)
(* removed by its identity. `hooks` lists what a crash calls, in order.    *)
(***************************************************************************)
EXTENDS Naturals, Sequences, SequencesExt

CONSTANTS
    Libraries,    \* others that install a hook
    MaxClients,   \* bound on init
    MaxHooks      \* bound on the hooks there at once

ASSUME HooksAssumption == MaxClients \in Nat /\ MaxHooks \in Nat /\ "reporter" \notin Libraries

VARIABLES
    runtime,    \* "python" or "javascript"
    hooks,      \* the hooks a crash calls, the newest first
    installed,  \* the client of the hooks the module remembers, or 0
    current,    \* the client the module's functions use, or 0
    clients,    \* whether each client made so far still takes reports
    closing,    \* the clients a close waits for
    depth,      \* how many frames an error keeps
    undo,       \* what it is put back to, or "nothing"
    crash,      \* what became of the exception nobody caught
    shared      \* history: a library has installed a hook

hooksVars == <<runtime, hooks, installed, current, clients, closing, depth, undo, crash, shared>>

-----------------------------------------------------------------------------
Ours(client) == [of |-> "reporter", client |-> client]
Theirs(l) == [of |-> l, client |-> 0]
IsOurs(h) == h.of = "reporter"

\* _restore puts the previous hook back if ours is still the one there; a
\* listener is removed from where it is.
Removable ==
    {i \in DOMAIN hooks : hooks[i] = Ours(installed) /\ (runtime = "python" => i = 1)}

Uninstalled ==
    IF Removable = {} THEN hooks ELSE RemoveAt(hooks, CHOOSE i \in Removable : TRUE)

\* Listeners are called in the order they were added.
Installed(h, there) == IF runtime = "python" THEN <<h>> \o there ELSE Append(there, h)

\* applyStackFrameLimit and its undo, in JavaScript.
Undone == IF undo = "nothing" THEN depth ELSE undo

LimitFrames(raise) ==
    IF runtime = "javascript"
    THEN /\ depth' = IF raise THEN "raised" ELSE Undone
         /\ undo' = IF raise THEN Undone ELSE "nothing"
    ELSE UNCHANGED <<depth, undo>>

\* init: the hooks of the one before go, then come the client and its own. The
\* client before is not closed.
InitCall(watch, raise) ==
    LET made == Len(clients) + 1
    IN  /\ crash = "none" /\ made <= MaxClients
        /\ watch => Len(Uninstalled) < MaxHooks
        /\ LimitFrames(raise)
        /\ clients' = Append(clients, "open") /\ current' = made
        /\ installed' = IF watch THEN made ELSE 0
        /\ hooks' = IF watch THEN Installed(Ours(made), Uninstalled) ELSE Uninstalled
        /\ UNCHANGED <<runtime, closing, crash, shared>>

\* Options the client refuses end it there: the client before stays current,
\* with no hook.
InitFails(raise) ==
    /\ crash = "none"
    /\ LimitFrames(raise)
    /\ hooks' = Uninstalled /\ installed' = 0
    /\ UNCHANGED <<runtime, current, clients, closing, crash, shared>>

\* close removes the hooks and closes the client, which waits for what is
\* queued while other code runs.
CloseCall ==
    /\ crash = "none"
    /\ hooks' = Uninstalled /\ installed' = 0
    /\ IF runtime = "javascript" THEN depth' = Undone /\ undo' = "nothing" ELSE UNCHANGED <<depth, undo>>
    /\ IF current = 0 THEN UNCHANGED <<clients, closing>>
       ELSE clients' = [clients EXCEPT ![current] = "closed"] /\ closing' = closing \cup {current}
    /\ UNCHANGED <<runtime, current, crash, shared>>

\* (A close that forgets whatever is current.)
ForgetsTheLatest(c) == 0

\* It forgets the client it closed, and not one that came after it.
CurrentAfter(c) == IF current = c THEN 0 ELSE current

CloseReturns(c) ==
    /\ crash = "none" /\ c \in closing
    /\ closing' = closing \ {c} /\ current' = CurrentAfter(c)
    /\ UNCHANGED <<runtime, hooks, installed, clients, depth, undo, crash, shared>>

-----------------------------------------------------------------------------
(* Other libraries.                                                        *)

LibraryInstalls(l) ==
    /\ crash = "none" /\ Len(hooks) < MaxHooks /\ ~Contains(hooks, Theirs(l))
    /\ hooks' = Installed(Theirs(l), hooks) /\ shared' = TRUE
    /\ UNCHANGED <<runtime, installed, current, clients, closing, depth, undo, crash>>

\* One that puts back what it found takes out the hooks installed since.
LibraryRemoves(l) ==
    /\ crash = "none"
    /\ \E i \in DOMAIN hooks :
           /\ hooks[i] = Theirs(l)
           /\ hooks' = IF runtime = "python" THEN SubSeq(hooks, i + 1, Len(hooks)) ELSE RemoveAt(hooks, i)
    /\ UNCHANGED <<runtime, installed, current, clients, closing, depth, undo, crash, shared>>

\* The application sets how many frames it wants.
SetsFrames ==
    /\ crash = "none" /\ runtime = "javascript" /\ depth # "own" /\ depth' = "own"
    /\ UNCHANGED <<runtime, hooks, installed, current, clients, closing, undo, crash, shared>>

-----------------------------------------------------------------------------
(* The crash.                                                              *)

\* The hooks that run before one that ends the process, all if none does.
Called(last) == {i \in DOMAIN hooks : i <= last}

\* Our hook reports through the module, to whatever client is current.
Reporting(last) ==
    {i \in Called(last) : IsOurs(hooks[i]) /\ current # 0 /\ clients[current] = "open"}

\* (A hook that leaves the report to the end of the process.)
LeftToTheEnd(i, survives) == survives

\* Python's hook waits for the flush of the client it was installed with; a
\* listener starts that of the current one, which ends if the process goes on.
Flushed(i, survives) == IF runtime = "python" THEN hooks[i].client = current ELSE survives

\* An exception nobody caught. The hooks are called up to `last`, which may be
\* a library's that exits at once: what was not flushed by then is lost.
Crash(last, survives) ==
    /\ crash = "none"
    /\ last = Len(hooks) \/ (runtime = "python" /\ last \in DOMAIN hooks /\ ~IsOurs(hooks[last]))
    /\ survives => runtime = "javascript"
    /\ crash' = IF Reporting(last) = {} THEN "unreported"
                ELSE IF \E i \in Reporting(last) : Flushed(i, survives) THEN "flushed"
                ELSE "lost"
    /\ UNCHANGED <<runtime, hooks, installed, current, clients, closing, depth, undo, shared>>

-----------------------------------------------------------------------------
HooksInit ==
    /\ runtime \in {"python", "javascript"}
    /\ hooks = <<>> /\ installed = 0 /\ current = 0 /\ clients = <<>> /\ closing = {}
    /\ depth = "default" /\ undo = "nothing" /\ crash = "none" /\ shared = FALSE

HooksNext ==
    \/ \E watch, raise \in BOOLEAN : InitCall(watch, raise) \/ InitFails(raise)
    \/ CloseCall
    \/ \E c \in closing : CloseReturns(c)
    \/ \E l \in Libraries : LibraryInstalls(l) \/ LibraryRemoves(l)
    \/ SetsFrames
    \/ \E last \in 0..MaxHooks, survives \in BOOLEAN : Crash(last, survives)

-----------------------------------------------------------------------------
(* Properties.                                                             *)

\* Every variable has its type.
HooksTypeOK ==
    /\ runtime \in {"python", "javascript"}
    /\ Len(hooks) <= MaxHooks
    /\ \A i \in DOMAIN hooks : hooks[i] \in [of : Libraries \cup {"reporter"}, client : 0..Len(clients)]
    /\ installed \in 0..Len(clients) /\ current \in 0..Len(clients)
    /\ Len(clients) <= MaxClients /\ \A i \in DOMAIN clients : clients[i] \in {"open", "closed"}
    /\ closing \subseteq DOMAIN clients
    /\ depth \in {"default", "raised", "own"} /\ undo \in {"default", "raised", "own", "nothing"}
    /\ crash \in {"none", "unreported", "lost", "flushed"}

\* The hooks of the reporter that a crash calls.
OwnHooks == {i \in DOMAIN hooks : IsOurs(hooks[i])}

\* What the reporter remembers to have installed goes with the client that is
\* current and open, through every init that failed, every close that returns
\* after a later init and everything libraries do: a hook that is there
\* reports, and flushes what it reported.
WatchedIsCurrent ==
    installed # 0 => installed = current /\ clients[current] = "open"

\* While the hook the reporter remembers is among those that are called, the
\* exception reaches the client, and in Python it is sent before any hook that
\* ours calls may end the process.
WatchedCrashIsFlushed ==
    (crash # "none" /\ \E i \in DOMAIN hooks : hooks[i] = Ours(installed)
                                             /\ (runtime = "python" => \A j \in 1..i - 1 : IsOurs(hooks[j])))
        => crash \in IF runtime = "python" THEN {"flushed"} ELSE {"flushed", "lost"}

\* A crash is reported once, through any number of init and close, until a
\* library has put a hook of its own over ours, and always among listeners.
StacksAmongOthersOnly ==
    (runtime = "javascript" \/ ~shared) => \A i, j \in OwnHooks : i = j

\* Frames stay raised only as long as the reporter can put them back, and it
\* never takes its own limit for the one to put back, through any number of
\* init and close.
FramesPutBack ==
    /\ undo = "nothing" => depth # "raised"
    /\ undo # "raised"

\* The invariant of the hooks, through any number of init and close beside
\* other libraries: a crash is reported, once, by the client that is current,
\* and the raised limit of frames is never mistaken for the application's.
HooksInv ==
    HooksTypeOK /\ WatchedIsCurrent /\ WatchedCrashIsFlushed /\ StacksAmongOthersOnly /\ FramesPutBack

=============================================================================
