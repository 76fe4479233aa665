--------------------------- MODULE RuntimesProofs ---------------------------
(***************************************************************************)
(* Proofs about the parts of a reporter's runtime that Runtimes puts       *)
(* together, for any number of records, calls, clients and libraries.      *)
(***************************************************************************)
EXTENDS Runtimes, SequenceTheorems, FiniteSetTheorems, WellFoundedInduction, TLAPS

-----------------------------------------------------------------------------
(* Hooks.                                                                   *)

AnyHook == [of : Libraries \cup {"reporter"}, client : Nat]

\* The reporter's own hook is there for the client it remembers, once: always
\* among listeners, and in Python until a library has put one over it.
OneOwnHook ==
  /\ \A i \in DOMAIN hooks : IsOurs(hooks[i]) => hooks[i].client \in DOMAIN clients
  /\ runtime = "javascript" \/ ~shared =>
       /\ \A i \in OwnHooks : hooks[i] = Ours(installed)
       /\ \A i, j \in OwnHooks : i = j
  /\ runtime = "python" /\ ~shared => OwnHooks = DOMAIN hooks

\* Hooks and clients are sequences, and a client whose close goes on is closed.
HooksShape ==
  /\ hooks \in Seq(AnyHook) /\ clients \in Seq({"open", "closed"})
  /\ \A c \in closing : clients[c] = "closed"

HooksIInv == HooksInv /\ HooksShape /\ OneOwnHook

LEMMA HooksInitKeeps == HooksInit => HooksIInv
<1> SUFFICES ASSUME HooksInit PROVE HooksIInv
  OBVIOUS
<1> USE HooksAssumption DEF HooksAssumption, HooksInit
<1>1. HooksTypeOK
  BY DEF HooksTypeOK
<1>2. WatchedIsCurrent /\ WatchedCrashIsFlushed /\ FramesPutBack
  BY DEF WatchedIsCurrent, WatchedCrashIsFlushed, FramesPutBack
<1>3. DOMAIN hooks = {}
  OBVIOUS
<1>4. StacksAmongOthersOnly /\ OneOwnHook
  BY <1>3 DEF StacksAmongOthersOnly, OneOwnHook, OwnHooks
<1>5. HooksShape
  BY DEF HooksShape
<1> QED  BY <1>1, <1>2, <1>4, <1>5 DEF HooksIInv, HooksInv

\* What is left of a sequence without one of its elements: the others, in order.
LEMMA RemovedIsThere ==
  ASSUME NEW S, NEW q \in Seq(S), NEW n \in DOMAIN q
  PROVE  /\ RemoveAt(q, n) \in Seq(S) /\ Len(RemoveAt(q, n)) = Len(q) - 1
         /\ \A i \in DOMAIN RemoveAt(q, n) :
              RemoveAt(q, n)[i] = q[IF i < n THEN i ELSE i + 1]
<1> DEFINE a == SubSeq(q, 1, n - 1)
           b == SubSeq(q, n + 1, Len(q))
<1>1. n \in 1..Len(q) /\ Len(q) \in Nat /\ \A i \in 1..Len(q) : q[i] \in S
  BY ElementOfSeq
<1>2. /\ a \in Seq(S) /\ Len(a) = n - 1
      /\ \A i \in 1..n - 1 : a[i] = q[i]
  <2>1. \A i \in 1..n - 1 : q[i] \in S
    BY <1>1
  <2>2. 1 \in Int /\ n - 1 \in Int
    BY <1>1
  <2> QED  BY <1>1, <2>1, <2>2, SubSeqProperties
<1>3. /\ b \in Seq(S) /\ Len(b) = Len(q) - n
      /\ \A i \in 1..Len(q) - n : b[i] = q[n + i]
  <2>1. \A i \in n + 1..Len(q) : q[i] \in S
    BY <1>1
  <2>2. n + 1 \in Int /\ Len(q) \in Int
    BY <1>1
  <2> QED  BY <1>1, <2>1, <2>2, SubSeqProperties
<1>4. RemoveAt(q, n) = a \o b
  BY DEF RemoveAt
<1> HIDE DEF a, b
<1>5. /\ a \o b \in Seq(S) /\ Len(a \o b) = Len(a) + Len(b)
      /\ \A i \in 1..Len(a) + Len(b) :
           (a \o b)[i] = IF i <= Len(a) THEN a[i] ELSE b[i - Len(a)]
  BY <1>2, <1>3, ConcatProperties
<1>6. Len(a) + Len(b) = Len(q) - 1 /\ Len(q) - 1 \in Nat
  <2>1. Len(q) \in Nat /\ n \in Nat
    BY <1>1
  <2>2. Len(a) = n - 1 /\ Len(b) = Len(q) - n
    BY <1>2, <1>3
  <2> QED  BY <1>1, <2>1, <2>2
<1>7. ASSUME NEW i \in 1..Len(q) - 1, i < n
      PROVE  (a \o b)[i] = q[i]
  <2>1. i \in 1..n - 1 /\ i <= Len(a) /\ i \in 1..Len(a) + Len(b)
    <3>1. i \in Nat /\ n \in Nat /\ i >= 1
      BY <1>1
    <3>2. Len(a) = n - 1
      BY <1>2
    <3> QED  BY <1>6, <1>7, <3>1, <3>2
  <2> QED  BY <1>2, <1>5, <2>1
<1>8. ASSUME NEW i \in 1..Len(q) - 1, ~(i < n)
      PROVE  (a \o b)[i] = q[i + 1]
  <2>1. i \in Nat /\ n \in Nat /\ Len(q) \in Nat /\ n >= 1
    BY <1>1
  <2>2. Len(a) = n - 1
    BY <1>2
  <2>3. i - Len(a) \in 1..Len(q) - n /\ ~(i <= Len(a)) /\ n + (i - Len(a)) = i + 1
    BY <1>8, <2>1, <2>2
  <2>6. i \in 1..Len(a) + Len(b)
    BY <1>6
  <2>4. (a \o b)[i] = b[i - Len(a)]
    BY <1>5, <2>3, <2>6
  <2>5. b[i - Len(a)] = q[n + (i - Len(a))]
    BY <1>3, <2>3
  <2> QED  BY <2>3, <2>4, <2>5
<1>9. DOMAIN (a \o b) = 1..Len(q) - 1 /\ Len(a \o b) = Len(q) - 1
  BY <1>5, <1>6, LenProperties
<1>10. \A i \in 1..Len(q) - 1 : (a \o b)[i] = q[IF i < n THEN i ELSE i + 1]
  BY <1>7, <1>8
<1> QED  BY <1>4, <1>5, <1>9, <1>10

\* A sequence with one element put in: it is there, and the others besides.
LEMMA InstalledIsThere ==
  ASSUME NEW q \in Seq(AnyHook), NEW h \in AnyHook
  PROVE  /\ Installed(h, q) \in Seq(AnyHook) /\ Len(Installed(h, q)) = Len(q) + 1
         /\ \E n \in DOMAIN Installed(h, q) :
              /\ Installed(h, q)[n] = h
              /\ \A i \in DOMAIN Installed(h, q) \ {n} :
                    \E j \in DOMAIN q : Installed(h, q)[i] = q[j]
<1>1. CASE runtime = "python"
  <2>1. <<h>> \in Seq(AnyHook) /\ Len(<<h>>) = 1 /\ <<h>>[1] = h
    OBVIOUS
  <2>2. /\ <<h>> \o q \in Seq(AnyHook) /\ Len(<<h>> \o q) = Len(q) + 1
        /\ \A i \in 1..Len(q) + 1 : (<<h>> \o q)[i] = IF i <= 1 THEN h ELSE q[i - 1]
    BY <2>1, ConcatProperties
  <2>3. \A i \in (1..Len(q) + 1) \ {1} : i - 1 \in DOMAIN q /\ (<<h>> \o q)[i] = q[i - 1]
    BY <2>2
  <2>4. DOMAIN (<<h>> \o q) = 1..Len(q) + 1 /\ 1 \in 1..Len(q) + 1
    BY <2>2
  <2> QED  BY <1>1, <2>2, <2>3, <2>4 DEF Installed
<1>2. CASE runtime # "python"
  <2>1. /\ Append(q, h) \in Seq(AnyHook) /\ Len(Append(q, h)) = Len(q) + 1
        /\ Append(q, h)[Len(q) + 1] = h
        /\ \A i \in 1..Len(q) : Append(q, h)[i] = q[i]
    BY AppendProperties
  <2>2. DOMAIN Append(q, h) = 1..Len(q) + 1 /\ Len(q) + 1 \in 1..Len(q) + 1
    BY <2>1
  <2>3. \A i \in (1..Len(q) + 1) \ {Len(q) + 1} : i \in DOMAIN q
    OBVIOUS
  <2> QED  BY <1>2, <2>1, <2>2, <2>3 DEF Installed
<1> QED  BY <1>1, <1>2

\* What _restore and process.off leave: the hooks of others, and of ours at most
\* those that a library has put one over.
LEMMA UninstalledIsThere ==
  ASSUME HooksIInv
  PROVE  /\ Uninstalled \in Seq(AnyHook) /\ Len(Uninstalled) <= Len(hooks)
         /\ \A i \in DOMAIN Uninstalled : \E j \in DOMAIN hooks : Uninstalled[i] = hooks[j]
         /\ runtime = "javascript" \/ ~shared =>
              \A i \in DOMAIN Uninstalled : ~IsOurs(Uninstalled[i])
         /\ runtime = "python" /\ ~shared => DOMAIN Uninstalled = {}
<1> USE DEF HooksIInv
<1>0. hooks \in Seq(AnyHook) /\ Len(hooks) \in Nat /\ DOMAIN hooks = 1..Len(hooks)
  BY DEF HooksShape
<1>1. ASSUME Removable = {}
      PROVE  /\ Uninstalled = hooks
             /\ runtime = "javascript" \/ ~shared => OwnHooks = {}
  <2>1. Uninstalled = hooks
    BY <1>1 DEF Uninstalled
  <2>2. CASE runtime = "javascript"
    <3>1. \A i \in OwnHooks : i \in DOMAIN hooks /\ hooks[i] = Ours(installed)
      BY <2>2 DEF OneOwnHook, OwnHooks
    <3>2. \A i \in OwnHooks : i \in Removable
      BY <2>2, <3>1 DEF Removable
    <3> QED  BY <1>1, <2>1, <3>2
  <2>3. CASE runtime = "python" /\ ~shared
    <3> SUFFICES ASSUME OwnHooks # {} PROVE FALSE
      BY <2>1, <2>3
    <3>2. 1 \in DOMAIN hooks /\ 1 \in OwnHooks
      BY <1>0, <2>3 DEF OneOwnHook, OwnHooks
    <3>3. hooks[1] = Ours(installed)
      BY <2>3, <3>2 DEF OneOwnHook
    <3> QED  BY <1>1, <3>2, <3>3 DEF Removable
  <2> QED  BY <2>1, <2>2, <2>3 DEF HooksInv, HooksTypeOK
<1>2. ASSUME NEW n \in DOMAIN hooks, Uninstalled = RemoveAt(hooks, n), n \in Removable
      PROVE  /\ Uninstalled \in Seq(AnyHook) /\ Len(Uninstalled) <= Len(hooks)
             /\ \A i \in DOMAIN Uninstalled : \E j \in DOMAIN hooks \ {n} : Uninstalled[i] = hooks[j]
  <2>1. /\ Uninstalled \in Seq(AnyHook) /\ Len(Uninstalled) = Len(hooks) - 1
        /\ \A i \in DOMAIN Uninstalled : Uninstalled[i] = hooks[IF i < n THEN i ELSE i + 1]
    BY <1>0, <1>2, RemovedIsThere
  <2>2. \A i \in DOMAIN Uninstalled : (IF i < n THEN i ELSE i + 1) \in DOMAIN hooks \ {n}
    BY <1>0, <2>1
  <2> QED  BY <1>0, <2>1, <2>2
<1>3. CASE Removable = {}
  BY <1>0, <1>1, <1>3 DEF OwnHooks, OneOwnHook
<1>4. CASE Removable # {}
  <2>1. PICK n \in DOMAIN hooks : n \in Removable /\ Uninstalled = RemoveAt(hooks, n)
    BY <1>4 DEF Uninstalled, Removable
  <2>2. IsOurs(hooks[n])
    BY <2>1 DEF Removable, Ours, IsOurs
  <2>3. runtime = "javascript" \/ ~shared => \A i \in DOMAIN Uninstalled : ~IsOurs(Uninstalled[i])
    BY <1>2, <2>1, <2>2 DEF OneOwnHook, OwnHooks
  <2>4. runtime = "python" /\ ~shared => DOMAIN Uninstalled = {}
    BY <1>2, <2>1, <2>2 DEF OneOwnHook, OwnHooks
  <2> QED  BY <1>2, <2>1, <2>3, <2>4
<1> QED  BY <1>3, <1>4

-----------------------------------------------------------------------------
\* The types of the steps' results.
LEMMA FramesTypes ==
  ASSUME HooksIInv, NEW raise \in BOOLEAN
  PROVE  /\ Undone \in {"default", "own"}
         /\ LimitFrames(raise) =>
              /\ depth' \in {"default", "raised", "own"} /\ undo' \in {"default", "own", "nothing"}
              /\ undo' = "nothing" => depth' # "raised"
<1> USE DEF HooksIInv, HooksInv, HooksTypeOK, FramesPutBack
<1>1. Undone \in {"default", "own"}
  BY DEF Undone
<1> QED  BY <1>1 DEF LimitFrames

\* Taking the hook out and forgetting it.
LEMMA ForgottenKeeps ==
  ASSUME HooksIInv, crash = "none", UNCHANGED <<runtime, shared, crash>>,
         hooks' = Uninstalled, installed' = 0,
         clients' \in Seq({"open", "closed"}), Len(clients') = Len(clients),
         current' \in 0..Len(clients), closing' \subseteq DOMAIN clients,
         \A c \in closing' : clients'[c] = "closed",
         depth' \in {"default", "raised", "own"}, undo' \in {"default", "own", "nothing"},
         undo' = "nothing" => depth' # "raised"
  PROVE  HooksIInv'
<1> USE HooksAssumption DEF HooksAssumption, HooksIInv
<1>1. /\ hooks' \in Seq(AnyHook) /\ Len(hooks') <= Len(hooks)
      /\ \A i \in DOMAIN hooks' : \E j \in DOMAIN hooks : hooks'[i] = hooks[j]
      /\ runtime = "javascript" \/ ~shared => \A i \in DOMAIN hooks' : ~IsOurs(hooks'[i])
      /\ runtime = "python" /\ ~shared => DOMAIN hooks' = {}
  BY UninstalledIsThere
<1>2. Len(hooks') \in Nat /\ Len(hooks) \in Nat /\ DOMAIN clients' = DOMAIN clients
      /\ DOMAIN clients = 1..Len(clients) /\ Len(clients) \in Nat
  BY <1>1, LenProperties DEF HooksShape
<1>3. HooksTypeOK'
  BY <1>1, <1>2 DEF HooksInv, HooksTypeOK, HooksShape
<1>4. WatchedIsCurrent' /\ WatchedCrashIsFlushed' /\ FramesPutBack'
  BY DEF WatchedIsCurrent, WatchedCrashIsFlushed, FramesPutBack
<1>5. (runtime = "javascript" \/ ~shared)' => OwnHooks' = {}
  BY <1>1 DEF OwnHooks
<1>6. StacksAmongOthersOnly'
  BY <1>5 DEF StacksAmongOthersOnly
<1>7. OneOwnHook'
  BY <1>1, <1>2, <1>5 DEF OneOwnHook
<1>8. HooksShape'
  BY <1>1 DEF HooksShape
<1> QED  BY <1>3, <1>4, <1>6, <1>7, <1>8 DEF HooksInv

\* init that fails, and close.
LEMMA InitFailsKeeps == ASSUME HooksIInv, NEW raise \in BOOLEAN, InitFails(raise) PROVE HooksIInv'
<1>1. clients \in Seq({"open", "closed"}) /\ \A c \in closing : clients[c] = "closed"
  BY DEF HooksIInv, HooksShape
<1>2. current \in 0..Len(clients) /\ closing \subseteq DOMAIN clients
  BY DEF HooksIInv, HooksInv, HooksTypeOK
<1>3. UNCHANGED <<runtime, current, clients, closing, crash, shared>> /\ crash = "none"
      /\ hooks' = Uninstalled /\ installed' = 0 /\ LimitFrames(raise)
  BY DEF InitFails
<1> QED  BY <1>1, <1>2, <1>3, FramesTypes, ForgottenKeeps

LEMMA CloseCallKeeps == ASSUME HooksIInv, CloseCall PROVE HooksIInv'
<1>1. clients \in Seq({"open", "closed"}) /\ \A c \in closing : clients[c] = "closed"
  BY DEF HooksIInv, HooksShape
<1>2. current \in 0..Len(clients) /\ closing \subseteq DOMAIN clients
      /\ depth \in {"default", "raised", "own"} /\ undo \in {"default", "own", "nothing"}
      /\ (undo = "nothing" => depth # "raised")
  BY DEF HooksIInv, HooksInv, HooksTypeOK, FramesPutBack
<1>3. UNCHANGED <<runtime, current, crash, shared>> /\ crash = "none"
      /\ hooks' = Uninstalled /\ installed' = 0
  BY DEF CloseCall
<1>4. depth' \in {"default", "raised", "own"} /\ undo' \in {"default", "own", "nothing"}
      /\ (undo' = "nothing" => depth' # "raised")
  BY <1>2, FramesTypes DEF CloseCall
<1>5. /\ clients' \in Seq({"open", "closed"}) /\ Len(clients') = Len(clients)
      /\ closing' \subseteq DOMAIN clients /\ \A c \in closing' : clients'[c] = "closed"
  <2>1. CASE current = 0
    BY <1>1, <1>2, <2>1 DEF CloseCall
  <2>2. CASE current # 0
    <3>1. clients' = [clients EXCEPT ![current] = "closed"] /\ closing' = closing \cup {current}
      BY <2>2 DEF CloseCall
    <3>2. DOMAIN clients = 1..Len(clients) /\ Len(clients) \in Nat /\ current \in DOMAIN clients
      BY <1>1, <1>2, <2>2, LenProperties
    <3>3. clients' \in Seq({"open", "closed"}) /\ Len(clients') = Len(clients)
      BY <1>1, <3>1, <3>2
    <3> QED  BY <1>1, <1>2, <3>1, <3>2, <3>3
  <2> QED  BY <2>1, <2>2
<1> QED  BY <1>2, <1>3, <1>4, <1>5, ForgottenKeeps

\* init: its hook comes to those that are left, with its client.
LEMMA InitCallKeeps ==
  ASSUME HooksIInv, NEW watch \in BOOLEAN, NEW raise \in BOOLEAN, InitCall(watch, raise)
  PROVE  HooksIInv'
<1> USE HooksAssumption DEF HooksAssumption, HooksIInv
<1> DEFINE made == Len(clients) + 1
<1>1. /\ Uninstalled \in Seq(AnyHook) /\ Len(Uninstalled) <= Len(hooks)
      /\ \A i \in DOMAIN Uninstalled : \E j \in DOMAIN hooks : Uninstalled[i] = hooks[j]
      /\ runtime = "javascript" \/ ~shared => \A i \in DOMAIN Uninstalled : ~IsOurs(Uninstalled[i])
      /\ runtime = "python" /\ ~shared => DOMAIN Uninstalled = {}
  BY UninstalledIsThere
<1>2. /\ Len(Uninstalled) \in Nat /\ Len(hooks) \in Nat /\ Len(clients) \in Nat
      /\ DOMAIN clients = 1..Len(clients) /\ clients \in Seq({"open", "closed"})
  BY <1>1, LenProperties DEF HooksShape
<1>3. /\ clients' \in Seq({"open", "closed"}) /\ Len(clients') = made /\ DOMAIN clients' = 1..made
      /\ clients'[made] = "open" /\ \A c \in DOMAIN clients : clients'[c] = clients[c]
      /\ \A c \in DOMAIN clients' : clients'[c] \in {"open", "closed"}
  <2>1. clients' = Append(clients, "open")
    BY DEF InitCall
  <2> QED  BY <1>2, <2>1, AppendProperties, LenProperties
<1>4. UNCHANGED <<runtime, closing, crash, shared>> /\ crash = "none" /\ current' = made /\ made <= MaxClients
      /\ installed' = (IF watch THEN made ELSE 0) /\ LimitFrames(raise)
  BY DEF InitCall
<1> HIDE DEF made
<1>5. /\ hooks' \in Seq(AnyHook) /\ Len(hooks') <= MaxHooks
      /\ \A i \in DOMAIN hooks' : \/ watch /\ hooks'[i] = Ours(made)
                                  \/ \E j \in DOMAIN hooks : hooks'[i] = hooks[j]
      /\ runtime = "javascript" \/ ~shared =>
           /\ \A i \in DOMAIN hooks' : IsOurs(hooks'[i]) => watch /\ hooks'[i] = Ours(made)
           /\ \A i, j \in DOMAIN hooks' : IsOurs(hooks'[i]) /\ IsOurs(hooks'[j]) => i = j
      /\ runtime = "python" /\ ~shared => \A i \in DOMAIN hooks' : IsOurs(hooks'[i])
  <2>1. CASE ~watch
    <3>1. hooks' = Uninstalled
      BY <2>1 DEF InitCall
    <3> QED  BY <1>1, <1>2, <2>1, <3>1 DEF HooksInv, HooksTypeOK
  <2>2. CASE watch
    <3>1. hooks' = Installed(Ours(made), Uninstalled) /\ Len(Uninstalled) < MaxHooks
      BY <2>2 DEF InitCall, made
    <3>2. Ours(made) \in AnyHook /\ IsOurs(Ours(made))
      BY <1>2 DEF Ours, AnyHook, IsOurs, made
    <3>3. /\ hooks' \in Seq(AnyHook) /\ Len(hooks') = Len(Uninstalled) + 1
          /\ \E n \in DOMAIN hooks' : /\ hooks'[n] = Ours(made)
                                      /\ \A i \in DOMAIN hooks' \ {n} :
                                          \E j \in DOMAIN Uninstalled : hooks'[i] = Uninstalled[j]
      BY <1>1, <3>1, <3>2, InstalledIsThere
    <3>4. PICK n \in DOMAIN hooks' : /\ hooks'[n] = Ours(made)
                                     /\ \A i \in DOMAIN hooks' \ {n} :
                                          \E j \in DOMAIN Uninstalled : hooks'[i] = Uninstalled[j]
      BY <3>3
    <3>5. Len(hooks') <= MaxHooks
      BY <1>2, <3>1, <3>3
    <3>6. \A i \in DOMAIN hooks' : hooks'[i] = Ours(made) \/ \E j \in DOMAIN hooks : hooks'[i] = hooks[j]
      BY <1>1, <3>4
    <3>7. ASSUME runtime = "javascript" \/ ~shared
          PROVE  \A i \in DOMAIN hooks' : IsOurs(hooks'[i]) => i = n
      BY <1>1, <3>4, <3>7
    <3>8. ASSUME runtime = "python" /\ ~shared
          PROVE  \A i \in DOMAIN hooks' : i = n
      BY <1>1, <3>4, <3>8
    <3> QED  BY <2>2, <3>2, <3>3, <3>4, <3>5, <3>6, <3>7, <3>8
  <2> QED  BY <2>1, <2>2
<1>6. \A i \in DOMAIN hooks' : hooks'[i] \in [of : Libraries \cup {"reporter"}, client : 0..made]
  <2>1. \A j \in DOMAIN hooks : hooks[j] \in [of : Libraries \cup {"reporter"}, client : 0..made]
    BY <1>2 DEF HooksInv, HooksTypeOK, made
  <2>2. Ours(made) \in [of : Libraries \cup {"reporter"}, client : 0..made]
    BY <1>2 DEF Ours, made
  <2> QED  BY <1>5, <2>1, <2>2
<1>7. HooksTypeOK'
  <2>1. installed' \in 0..made /\ current' \in 0..made /\ made \in Nat
    BY <1>2, <1>4 DEF made
  <2>2. closing' \subseteq DOMAIN clients'
    BY <1>2, <1>3, <1>4 DEF HooksInv, HooksTypeOK, made
  <2>3. depth' \in {"default", "raised", "own"} /\ undo' \in {"default", "raised", "own", "nothing"}
    BY <1>4, FramesTypes
  <2> QED  BY <1>3, <1>4, <1>5, <1>6, <2>1, <2>2, <2>3 DEF HooksInv, HooksTypeOK
<1>8. WatchedIsCurrent'
  BY <1>3, <1>4 DEF WatchedIsCurrent
<1>9. WatchedCrashIsFlushed'
  BY <1>4 DEF WatchedCrashIsFlushed
<1>10. FramesPutBack'
  BY <1>4, FramesTypes DEF FramesPutBack
<1>11. StacksAmongOthersOnly'
  BY <1>4, <1>5 DEF StacksAmongOthersOnly, OwnHooks
<1>12. OneOwnHook'
  <2>1. \A i \in DOMAIN hooks' : IsOurs(hooks'[i]) => hooks'[i].client \in DOMAIN clients'
    <3>1. made \in 1..made /\ Ours(made).client = made
      BY <1>2 DEF Ours, made
    <3>2. DOMAIN clients \subseteq DOMAIN clients'
      BY <1>2, <1>3 DEF made
    <3> QED  BY <1>3, <1>5, <3>1, <3>2 DEF OneOwnHook
  <2>2. (runtime = "javascript" \/ ~shared)' =>
           /\ \A i \in OwnHooks' : hooks'[i] = Ours(installed')
           /\ \A i, j \in OwnHooks' : i = j
    BY <1>4, <1>5 DEF OwnHooks
  <2>3. (runtime = "python" /\ ~shared)' => OwnHooks' = DOMAIN hooks'
    BY <1>4, <1>5 DEF OwnHooks
  <2> QED  BY <2>1, <2>2, <2>3 DEF OneOwnHook
<1>13. HooksShape'
  <2>1. \A c \in closing' : clients'[c] = "closed"
    BY <1>3, <1>4 DEF HooksShape, HooksInv, HooksTypeOK
  <2> QED  BY <1>3, <1>5, <2>1 DEF HooksShape
<1> QED  BY <1>7, <1>8, <1>9, <1>10, <1>11, <1>12, <1>13 DEF HooksInv

\* A close that returns forgets the client it closed, which no hook is of.
LEMMA CloseReturnsKeeps == ASSUME HooksIInv, NEW c \in closing, CloseReturns(c) PROVE HooksIInv'
<1> USE HooksAssumption DEF HooksAssumption, HooksIInv
<1>1. UNCHANGED <<runtime, hooks, installed, clients, depth, undo, crash, shared>>
      /\ closing' = closing \ {c} /\ current' = (IF current = c THEN 0 ELSE current) /\ crash = "none"
  BY DEF CloseReturns, CurrentAfter
<1>2. clients[c] = "closed" /\ c \in 1..Len(clients) /\ Len(clients) \in Nat
  BY LenProperties DEF HooksShape, HooksInv, HooksTypeOK
<1>3. HooksTypeOK'
  BY <1>1, <1>2 DEF HooksInv, HooksTypeOK
<1>4. WatchedIsCurrent'
  BY <1>1, <1>2 DEF HooksInv, WatchedIsCurrent
<1>5. WatchedCrashIsFlushed' /\ FramesPutBack'
  BY <1>1 DEF HooksInv, WatchedCrashIsFlushed, FramesPutBack
<1>6. StacksAmongOthersOnly' /\ OneOwnHook'
  BY <1>1 DEF HooksInv, StacksAmongOthersOnly, OneOwnHook, OwnHooks
<1>7. HooksShape'
  BY <1>1 DEF HooksShape
<1> QED  BY <1>3, <1>4, <1>5, <1>6, <1>7 DEF HooksInv

\* The application's own limit of frames is none that was raised.
LEMMA SetsFramesKeeps == ASSUME HooksIInv, SetsFrames PROVE HooksIInv'
<1> USE DEF HooksIInv
<1>1. UNCHANGED <<runtime, hooks, installed, clients, current, closing, undo, crash, shared>>
      /\ depth' = "own" /\ crash = "none"
  BY DEF SetsFrames
<1>2. HooksTypeOK' /\ WatchedIsCurrent' /\ FramesPutBack'
  BY <1>1 DEF HooksInv, HooksTypeOK, WatchedIsCurrent, FramesPutBack
<1>3. WatchedCrashIsFlushed' /\ StacksAmongOthersOnly' /\ OneOwnHook' /\ HooksShape'
  BY <1>1 DEF HooksInv, WatchedCrashIsFlushed, StacksAmongOthersOnly, OneOwnHook, OwnHooks, HooksShape
<1> QED  BY <1>2, <1>3 DEF HooksInv

\* Hooks that libraries put in and take out.
LEMMA LibraryKeeps ==
  ASSUME HooksIInv, crash = "none",
         UNCHANGED <<runtime, installed, current, clients, closing, depth, undo, crash>>,
         shared => shared', hooks' \in Seq(AnyHook), Len(hooks') <= MaxHooks,
         \A i \in DOMAIN hooks' : \/ \E j \in DOMAIN hooks : hooks'[i] = hooks[j]
                                  \/ \E l \in Libraries : hooks'[i] = Theirs(l),
         runtime = "javascript" => \A i, j \in OwnHooks' : i = j,
         runtime = "python" => shared'
  PROVE  HooksIInv'
<1> USE HooksAssumption DEF HooksAssumption, HooksIInv
<1>1. \A i \in DOMAIN hooks' : hooks'[i] \in [of : Libraries \cup {"reporter"}, client : 0..Len(clients)]
  <2>1. Len(clients) \in Nat
    BY LenProperties DEF HooksShape
  <2> DEFINE T == [of : Libraries \cup {"reporter"}, client : 0..Len(clients)]
  <2>2. \A l \in Libraries : Theirs(l) \in T
    BY <2>1 DEF Theirs
  <2>3. \A j \in DOMAIN hooks : hooks[j] \in T
    BY DEF HooksInv, HooksTypeOK
  <2> HIDE DEF T
  <2>4. \A i \in DOMAIN hooks' : hooks'[i] \in T
    BY <2>2, <2>3
  <2> QED  BY <2>4 DEF T
<1>2. HooksTypeOK'
  BY <1>1 DEF HooksInv, HooksTypeOK
<1>3. WatchedIsCurrent' /\ WatchedCrashIsFlushed' /\ FramesPutBack'
  BY DEF HooksInv, WatchedIsCurrent, WatchedCrashIsFlushed, FramesPutBack
<1>4. runtime \in {"python", "javascript"}
  BY DEF HooksInv, HooksTypeOK
<1>5. StacksAmongOthersOnly'
  BY <1>4 DEF StacksAmongOthersOnly
<1>6. OneOwnHook'
  <2>3. \A l \in Libraries : ~IsOurs(Theirs(l))
    BY DEF IsOurs, Theirs
  <2>4. \A i \in DOMAIN hooks' : IsOurs(hooks'[i]) => \E j \in DOMAIN hooks : hooks'[i] = hooks[j]
    BY <2>3
  <2>1. \A i \in DOMAIN hooks' : IsOurs(hooks'[i]) => hooks'[i].client \in DOMAIN clients'
    BY <2>4 DEF OneOwnHook
  <2>5. ASSUME runtime = "javascript", NEW i \in OwnHooks'
        PROVE  hooks'[i] = Ours(installed')
    <3>1. IsOurs(hooks'[i]) /\ i \in DOMAIN hooks'
      BY <2>5 DEF OwnHooks
    <3>2. PICK j \in DOMAIN hooks : hooks'[i] = hooks[j]
      BY <2>4, <3>1
    <3>3. j \in OwnHooks
      BY <3>1, <3>2 DEF OwnHooks
    <3>4. hooks[j] = Ours(installed)
      BY <2>5, <3>3 DEF OneOwnHook
    <3> QED  BY <3>2, <3>4 DEF Ours
  <2>2. runtime = "javascript" => \A i \in OwnHooks' : hooks'[i] = Ours(installed')
    BY <2>5
  <2> QED  BY <1>4, <2>1, <2>2 DEF OneOwnHook
<1>7. HooksShape'
  BY DEF HooksShape
<1> QED  BY <1>2, <1>3, <1>5, <1>6, <1>7 DEF HooksInv

LEMMA LibraryInstallsKeeps == ASSUME HooksIInv, NEW l \in Libraries, LibraryInstalls(l) PROVE HooksIInv'
<1>1. /\ UNCHANGED <<runtime, installed, current, clients, closing, depth, undo, crash>> /\ crash = "none"
      /\ hooks' = Installed(Theirs(l), hooks) /\ shared' = TRUE /\ Len(hooks) < MaxHooks
  BY DEF LibraryInstalls
<1>2. hooks \in Seq(AnyHook) /\ Len(hooks) \in Nat /\ Theirs(l) \in AnyHook /\ ~IsOurs(Theirs(l))
  BY HooksAssumption, LenProperties DEF HooksAssumption, HooksIInv, HooksShape, Theirs, AnyHook, IsOurs
<1>3. /\ hooks' \in Seq(AnyHook) /\ Len(hooks') = Len(hooks) + 1
      /\ \A i \in DOMAIN hooks' : hooks'[i] = Theirs(l) \/ \E j \in DOMAIN hooks : hooks'[i] = hooks[j]
  <2>1. /\ Installed(Theirs(l), hooks) \in Seq(AnyHook)
        /\ Len(Installed(Theirs(l), hooks)) = Len(hooks) + 1
        /\ \E n \in DOMAIN Installed(Theirs(l), hooks) :
             /\ Installed(Theirs(l), hooks)[n] = Theirs(l)
             /\ \A i \in DOMAIN Installed(Theirs(l), hooks) \ {n} :
                   \E j \in DOMAIN hooks : Installed(Theirs(l), hooks)[i] = hooks[j]
    BY <1>2, InstalledIsThere
  <2>2. PICK n \in DOMAIN hooks' :
             /\ hooks'[n] = Theirs(l)
             /\ \A i \in DOMAIN hooks' \ {n} : \E j \in DOMAIN hooks : hooks'[i] = hooks[j]
    BY <1>1, <2>1
  <2>3. \A i \in DOMAIN hooks' : i = n \/ i \in DOMAIN hooks' \ {n}
    OBVIOUS
  <2> QED  BY <1>1, <2>1, <2>2, <2>3
<1>4. Len(hooks') <= MaxHooks
  BY HooksAssumption, <1>1, <1>2, <1>3 DEF HooksAssumption
<1>5. ASSUME runtime = "javascript"
      PROVE  \A i, j \in OwnHooks' : i = j
  <2>1. hooks' = Append(hooks, Theirs(l))
    BY <1>1, <1>5 DEF Installed
  <2>2. \A i \in OwnHooks' : i \in OwnHooks
    <3>1. DOMAIN hooks' = 1..Len(hooks) + 1 /\ DOMAIN hooks = 1..Len(hooks)
      BY <1>2, <1>3, LenProperties
    <3>2. hooks'[Len(hooks) + 1] = Theirs(l) /\ \A i \in 1..Len(hooks) : hooks'[i] = hooks[i]
      BY <1>2, <2>1, AppendProperties
    <3>3. \A i \in 1..Len(hooks) + 1 : i = Len(hooks) + 1 \/ i \in 1..Len(hooks)
      BY <1>2
    <3> QED  BY <1>2, <3>1, <3>2, <3>3 DEF OwnHooks
  <2> QED  BY <1>5, <2>2 DEF HooksIInv, OneOwnHook
<1> QED  BY <1>1, <1>3, <1>4, <1>5, LibraryKeeps

LEMMA LibraryRemovesKeeps == ASSUME HooksIInv, NEW l \in Libraries, LibraryRemoves(l) PROVE HooksIInv'
<1>1. UNCHANGED <<runtime, installed, current, clients, closing, depth, undo, crash, shared>> /\ crash = "none"
  BY DEF LibraryRemoves
<1>2. PICK n \in DOMAIN hooks :
        /\ hooks[n] = Theirs(l)
        /\ hooks' = IF runtime = "python" THEN SubSeq(hooks, n + 1, Len(hooks)) ELSE RemoveAt(hooks, n)
  BY DEF LibraryRemoves
<1>3. /\ hooks \in Seq(AnyHook) /\ Len(hooks) \in Nat /\ DOMAIN hooks = 1..Len(hooks) /\ Len(hooks) <= MaxHooks
      /\ ~IsOurs(hooks[n]) /\ MaxHooks \in Nat
  BY <1>2, HooksAssumption, LenProperties
     DEF HooksAssumption, HooksIInv, HooksShape, HooksInv, HooksTypeOK, Theirs, IsOurs
<1>4. runtime = "python" => shared
  BY <1>3 DEF HooksIInv, OneOwnHook, OwnHooks
<1>5. CASE runtime = "python"
  <2>1. \A i \in n + 1..Len(hooks) : hooks[i] \in AnyHook
    BY <1>3, ElementOfSeq
  <2>2. /\ hooks' \in Seq(AnyHook)
        /\ Len(hooks') = (IF n + 1 <= Len(hooks) THEN Len(hooks) - (n + 1) + 1 ELSE 0)
        /\ \A i \in 1..Len(hooks) - (n + 1) + 1 : hooks'[i] = hooks[n + 1 + i - 1]
    <3>1. n + 1 \in Int /\ Len(hooks) \in Int
      BY <1>3
    <3>2. hooks' = SubSeq(hooks, n + 1, Len(hooks))
      BY <1>2, <1>5
    <3>3. LET q == SubSeq(hooks, n + 1, Len(hooks)) IN
          /\ q \in Seq(AnyHook) /\ Len(q) = (IF n + 1 <= Len(hooks) THEN Len(hooks) - (n + 1) + 1 ELSE 0)
          /\ \A i \in 1..Len(hooks) - (n + 1) + 1 : q[i] = hooks[n + 1 + i - 1]
      BY <2>1, <3>1, SubSeqProperties
    <3> QED  BY <3>2, <3>3
  <2>3. Len(hooks') <= MaxHooks /\ Len(hooks') \in Nat /\ DOMAIN hooks' = 1..Len(hooks')
    BY <1>3, <2>2, LenProperties
  <2>4. ASSUME NEW i \in DOMAIN hooks' PROVE \E j \in DOMAIN hooks : hooks'[i] = hooks[j]
    <3>1. i \in 1..Len(hooks) - (n + 1) + 1 /\ n + 1 + i - 1 \in 1..Len(hooks)
      BY <1>3, <2>2, <2>3
    <3> QED  BY <1>3, <2>2, <3>1
  <2> QED  BY <1>1, <1>4, <1>5, <2>2, <2>3, <2>4, LibraryKeeps
<1>6. CASE runtime # "python"
  <2>1. /\ hooks' \in Seq(AnyHook) /\ Len(hooks') = Len(hooks) - 1
        /\ \A i \in DOMAIN hooks' : hooks'[i] = hooks[IF i < n THEN i ELSE i + 1]
    BY <1>2, <1>3, <1>6, RemovedIsThere
  <2>2. DOMAIN hooks' = 1..Len(hooks) - 1
    BY <2>1, LenProperties
  <2>3. \A i \in DOMAIN hooks' : (IF i < n THEN i ELSE i + 1) \in DOMAIN hooks
    BY <1>3, <2>2
  <2>4. \A i \in DOMAIN hooks' : \E j \in DOMAIN hooks : hooks'[i] = hooks[j]
    BY <2>1, <2>3
  <2>5. ASSUME NEW i \in OwnHooks', NEW j \in OwnHooks', runtime = "javascript" PROVE i = j
    <3>1. /\ i \in 1..Len(hooks) - 1 /\ j \in 1..Len(hooks) - 1
          /\ (IF i < n THEN i ELSE i + 1) \in OwnHooks /\ (IF j < n THEN j ELSE j + 1) \in OwnHooks
      BY <2>1, <2>2, <2>3 DEF OwnHooks
    <3>2. (IF i < n THEN i ELSE i + 1) = (IF j < n THEN j ELSE j + 1)
      BY <2>5, <3>1 DEF HooksIInv, OneOwnHook
    <3> QED  BY <1>3, <3>1, <3>2
  <2>6. Len(hooks') <= MaxHooks
    BY <1>3, <2>1
  <2> QED  BY <1>1, <1>6, <2>1, <2>4, <2>5, <2>6, LibraryKeeps
<1> QED  BY <1>5, <1>6

\* A hook of the client the reporter remembers is called, as are those before it.
LEMMA CrashKeeps ==
  ASSUME HooksIInv, NEW last \in 0..MaxHooks, NEW survives \in BOOLEAN, Crash(last, survives)
  PROVE  HooksIInv'
<1> USE DEF HooksIInv
<1>1. UNCHANGED <<runtime, hooks, installed, current, clients, closing, depth, undo, shared>>
  BY DEF Crash
<1>2. crash' \in {"unreported", "flushed", "lost"}
  BY DEF Crash
<1>3. HooksTypeOK' /\ WatchedIsCurrent' /\ FramesPutBack' /\ StacksAmongOthersOnly' /\ OneOwnHook' /\ HooksShape'
  BY <1>1, <1>2 DEF HooksInv, HooksTypeOK, WatchedIsCurrent, FramesPutBack, StacksAmongOthersOnly,
                    OneOwnHook, OwnHooks, HooksShape
<1>4. ASSUME NEW i \in DOMAIN hooks, hooks[i] = Ours(installed),
             runtime = "python" => \A j \in 1..i - 1 : IsOurs(hooks[j])
      PROVE  crash' \in IF runtime = "python" THEN {"flushed"} ELSE {"flushed", "lost"}
  <2>1. DOMAIN hooks = 1..Len(hooks) /\ Len(hooks) \in Nat /\ last \in Nat
    BY HooksAssumption, LenProperties DEF HooksAssumption, HooksShape
  <2>2. IsOurs(hooks[i]) /\ installed \in DOMAIN clients /\ hooks[i].client = installed
    BY <1>4 DEF Ours, IsOurs, OneOwnHook
  <2>3. installed # 0 /\ installed = current /\ clients[current] = "open"
    <3>1. DOMAIN clients = 1..Len(clients)
      BY LenProperties DEF HooksShape
    <3> QED  BY <2>2, <3>1 DEF HooksInv, WatchedIsCurrent
  <2>4. i <= last
    <3>1. CASE last = Len(hooks)
      BY <2>1, <3>1
    <3>2. CASE runtime = "python" /\ last \in DOMAIN hooks /\ ~IsOurs(hooks[last])
      BY <1>4, <2>1, <2>2, <3>2
    <3> QED  BY <3>1, <3>2 DEF Crash
  <2>5. i \in Reporting(last)
    BY <2>2, <2>3, <2>4 DEF Reporting, Called
  <2>6. runtime = "python" => Flushed(i, survives)
    BY <2>2, <2>3 DEF Flushed
  <2> QED  BY <2>5, <2>6 DEF Crash
<1>5. WatchedCrashIsFlushed'
  BY <1>1, <1>4 DEF WatchedCrashIsFlushed
<1> QED  BY <1>3, <1>5 DEF HooksInv

LEMMA HooksStepKeeps == ASSUME HooksIInv, [HooksNext]_hooksVars PROVE HooksIInv'
<1>1. CASE UNCHANGED hooksVars
  BY <1>1 DEF hooksVars, HooksIInv, HooksInv, HooksTypeOK, WatchedIsCurrent, WatchedCrashIsFlushed,
              StacksAmongOthersOnly, FramesPutBack, OneOwnHook, OwnHooks, HooksShape
<1>2. CASE \E watch, raise \in BOOLEAN : InitCall(watch, raise) \/ InitFails(raise)
  BY <1>2, InitCallKeeps, InitFailsKeeps
<1>3. CASE CloseCall
  BY <1>3, CloseCallKeeps
<1>4. CASE \E c \in closing : CloseReturns(c)
  BY <1>4, CloseReturnsKeeps
<1>5. CASE \E l \in Libraries : LibraryInstalls(l) \/ LibraryRemoves(l)
  BY <1>5, LibraryInstallsKeeps, LibraryRemovesKeeps
<1>6. CASE SetsFrames
  BY <1>6, SetsFramesKeeps
<1>7. CASE \E last \in 0..MaxHooks, survives \in BOOLEAN : Crash(last, survives)
  BY <1>7, CrashKeeps
<1> QED  BY <1>1, <1>2, <1>3, <1>4, <1>5, <1>6, <1>7 DEF HooksNext

\* The invariant of the hooks (hooks.py, __init__.py, index.ts of the runtimes):
\* through any number of init and close beside any number of other libraries, the
\* hook that is remembered is of the client that is current and open, a crash it
\* sees is sent, and the reporter never stacks its own hooks by itself.
THEOREM HooksInvariant == Spec => []HooksInv
<1>1. Init => HooksIInv
  BY HooksInitKeeps DEF Init
<1>2. HooksIInv /\ [Next]_runtimesVars => HooksIInv'
  <2>1. [Next]_runtimesVars => [HooksNext]_hooksVars
    BY DEF Next, runtimesVars, hooksVars
  <2> QED  BY <2>1, HooksStepKeeps
<1>3. HooksIInv => HooksInv
  BY DEF HooksIInv
<1> QED  BY <1>1, <1>2, <1>3, PTL DEF Spec

-----------------------------------------------------------------------------
(* The client.                                                              *)

\* A record the client took is where its state says: under its own promise, in
\* the queue of its kind, or under the promise of the batch it is sent with.
RecordsHeld ==
  /\ \A r \in Records : record[r] = "hook" => Hook(r) \in pending
  /\ \A r \in Records : record[r] = "sending" => \E t \in pending : r \in t.of
  /\ \A r \in Records : record[r] = "queued" => r \in ToSet(queue[KindOf(r)])
  /\ \A k \in Kinds : \A r \in ToSet(queue[k]) : record[r] = "queued" /\ KindOf(r) = k

\* The flag stands for the failures no flush has answered for.
FlagTells ==
  /\ failedSinceFlush <=> \E r \in Records : record[r] = "failed" /\ r \notin told
  /\ \A r \in told : record[r] = "failed"

Ended == {"sent", "failed", "dropped"}

\* What a call covers was taken, and has ended once its loop has.
CoversEnd ==
  \A c \in Callers : \A r \in caller[c].covers :
    /\ caller[c].step # "idle" => record[r] \notin {"new", "refused"}
    /\ caller[c].step = "transports" => record[r] \in Ended

Silence == pending = {} /\ \A k \in Kinds : queue[k] = <<>>

Done(c) == caller[c].step = "transports" \/ (caller[c].step = "idle" /\ caller[c].answer)

\* A close shuts the door before it waits, and nothing comes after its wait.
CloseShuts ==
  \A c \in Closers :
    /\ caller[c].step # "idle" \/ caller[c].answer => closed
    /\ Done(c) => Silence

ReporterIInv ==
  ReporterTypeOK /\ QueuedHasADrain /\ RecordsHeld /\ FlagTells /\ CoversEnd /\ CloseShuts

States == {"new", "hook", "queued", "sending", "sent", "failed", "dropped", "refused"}

LEMMA HookIsATask == ASSUME NEW r \in Records PROVE Hook(r) \in Tasks
<1>1. IsFiniteSet({r}) /\ Cardinality({r}) = 1
  BY FS_Singleton
<1>2. 1 \in 1..MaxBatch
  BY ReporterAssumption DEF ReporterAssumption
<1> QED  BY <1>1, <1>2 DEF Hook, Tasks

\* A queue no longer than a batch is sent as one, and an empty one not at all.
LEMMA OneBatch ==
  ASSUME NEW q \in Seq(Records), Len(q) <= MaxBatch
  PROVE  /\ q = <<>> => Batches(q) = {}
         /\ q # <<>> => Batches(q) = {ToSet(q)} /\ Send(ToSet(q)) \in Tasks
         /\ \A r \in ToSet(q) : r \in Records
<1> DEFINE M == MaxBatch
           starts == {n \in 1..Len(q) : n % M = 1 % M}
<1>1. M \in Nat \ {0} /\ Len(q) \in Nat /\ DOMAIN q = 1..Len(q)
  BY ReporterAssumption, LenProperties DEF ReporterAssumption
<1>2. \A n \in 1..Len(q) : n % M = 1 % M => n = 1
  <2>1. ASSUME NEW n \in 1..Len(q), n % M = 1 % M PROVE n = 1
    <3>1. CASE M = 1
      BY <1>1, <2>1, <3>1
    <3>2. CASE M > 1
      <4>1. 1 % M = 1
        BY <1>1, <3>2
      <4>2. n \in 1..M
        BY <1>1, <2>1
      <4>3. n = M => n % M = 0
        BY <1>1
      <4>4. n < M => n % M = n
        BY <1>1, <4>2
      <4> QED  BY <1>1, <2>1, <4>1, <4>2, <4>3, <4>4
    <3> QED  BY <1>1, <3>1, <3>2
  <2> QED  BY <2>1
<1>3. Batches(q) = {{q[j] : j \in {n \in i..Len(q) : n < i + M}} : i \in starts}
  BY DEF Batches
<1>4. CASE q = <<>>
  <2>1. starts = {}
    BY <1>1, <1>4
  <2> QED  BY <1>3, <1>4, <2>1 DEF ToSet
<1>5. CASE q # <<>>
  <2>1. Len(q) \in Nat \ {0}
    BY <1>1, <1>5, EmptySeq
  <2>2. starts = {1}
    BY <1>1, <1>2, <2>1
  <2>3. {n \in 1..Len(q) : n < 1 + M} = 1..Len(q)
    BY <1>1
  <2>4. Batches(q) = {{q[j] : j \in {n \in 1..Len(q) : n < 1 + M}}}
    BY <1>3, <2>2
  <2>5. Batches(q) = {ToSet(q)}
    BY <1>1, <2>3, <2>4 DEF ToSet
  <2>6. IsFiniteSet(1..Len(q)) /\ Cardinality(1..Len(q)) = Len(q)
    <3>1. 1 \in Int /\ Len(q) \in Int /\ ~(1 > Len(q)) /\ Len(q) - 1 + 1 = Len(q)
      BY <1>1, <2>1
    <3> QED  BY <3>1, FS_Interval
  <2>7. IsFiniteSet(ToSet(q)) /\ Cardinality(ToSet(q)) <= Len(q)
    <3>1. ToSet(q) = {q[j] : j \in 1..Len(q)}
      BY <1>1 DEF ToSet
    <3>2. [j \in 1..Len(q) |-> q[j]] \in Surjection(1..Len(q), ToSet(q))
      BY <3>1 DEF Surjection
    <3> QED  BY <2>6, <3>2, FS_Surjection
  <2>8. ToSet(q) \subseteq Records /\ q[1] \in ToSet(q)
    <3>1. \A i \in 1..Len(q) : q[i] \in Records
      BY ElementOfSeq
    <3>2. 1 \in 1..Len(q)
      BY <2>1
    <3> QED  BY <1>1, <3>1, <3>2 DEF ToSet
  <2>9. Cardinality(ToSet(q)) \in Nat /\ Cardinality(ToSet(q)) # 0
    BY <2>7, <2>8, FS_CardinalityType, FS_EmptySet
  <2>10. Cardinality(ToSet(q)) \in 1..MaxBatch
    BY <1>1, <2>7, <2>9
  <2> QED  BY <1>5, <2>5, <2>8, <2>10 DEF Send, Tasks
<1> QED  BY <1>4, <1>5

LEMMA ReporterInitKeeps == ReporterInit => ReporterIInv
<1> SUFFICES ASSUME ReporterInit PROVE ReporterIInv
  OBVIOUS
<1> USE DEF ReporterInit
<1>1. ReporterTypeOK
  <2>1. queue \in [Kinds -> Seq(Records)] /\ drainScheduled \in [Kinds -> BOOLEAN]
    BY DEF Kinds
  <2>2. caller \in [Callers -> [step : {"idle", "loop", "wait", "transports"},
                             waits : SUBSET Tasks, covers : SUBSET Records, answer : BOOLEAN]]
    BY DEF NoCall
  <2> QED  BY <2>1, <2>2 DEF ReporterTypeOK
<1>2. QueuedHasADrain /\ FlagTells /\ CoversEnd
  BY DEF QueuedHasADrain, FlagTells, CoversEnd, NoCall
<1>3. \A k \in Kinds : ToSet(queue[k]) = {}
  BY DEF ToSet
<1>4. RecordsHeld
  BY <1>3 DEF RecordsHeld
<1>5. CloseShuts
  BY ReporterAssumption DEF CloseShuts, Done, NoCall, ReporterAssumption
<1> QED  BY <1>1, <1>2, <1>4, <1>5 DEF ReporterIInv

\* The calls as they are, but for a wait that begins, what is waited for, and a
\* call that gives up.
CallsStay ==
  \A c \in Callers : \/ /\ \/ caller'[c].step = caller[c].step
                           \/ caller[c].step = "loop" /\ caller'[c].step = "wait"
                        /\ caller'[c].covers = caller[c].covers
                        /\ caller'[c].answer = caller[c].answer
                     \/ /\ caller'[c].step = "idle" /\ ~caller'[c].answer
                        /\ caller'[c].covers = {}

\* A step of the records: what ended stays ended, what was taken stays taken,
\* the flag goes up with a failure and with nothing else.
RecordsMove ==
  /\ \A r \in Records : record[r] \in Ended => record'[r] = record[r]
  /\ \A r \in Records : record[r] \notin {"new", "refused"} => record'[r] \notin {"new", "refused"}
  /\ failedSinceFlush' <=> failedSinceFlush \/ \E r \in Records : record'[r] = "failed" /\ record[r] # "failed"

LEMMA RecordsMoveKeeps ==
  ASSUME ReporterIInv, ReporterTypeOK', QueuedHasADrain', RecordsHeld', RecordsMove, CallsStay,
         closed' = closed, told' = told, closed /\ Silence => Silence'
  PROVE  ReporterIInv'
<1> USE DEF ReporterIInv
<1>1. \A c \in Callers : caller[c].covers \subseteq Records
  BY DEF ReporterTypeOK
<1>2. FlagTells'
  <2>1. told \subseteq Records
    BY DEF ReporterTypeOK
  <2>2. \A r \in told : record'[r] = "failed"
    BY <2>1 DEF FlagTells, RecordsMove, Ended
  <2>3. ASSUME NEW r \in Records, record[r] = "failed", r \notin told
        PROVE  record'[r] = "failed"
    BY <2>3 DEF RecordsMove, Ended
  <2>4. \A r \in Records : record'[r] = "failed" /\ record[r] # "failed" => r \notin told
    BY DEF FlagTells
  <2> QED  BY <2>2, <2>3, <2>4 DEF FlagTells, RecordsMove
<1>3. CoversEnd'
  BY <1>1 DEF CoversEnd, CallsStay, RecordsMove, Ended
<1>4. CloseShuts'
  <2>1. Closers \subseteq Callers
    BY ReporterAssumption DEF ReporterAssumption
  <2>2. \A c \in Closers : Done(c)' => Done(c)
    BY <2>1 DEF Done, CallsStay
  <2>3. \A c \in Closers : Done(c) => closed /\ Silence
    BY <2>1 DEF CloseShuts, Done
  <2> QED  BY <2>1, <2>2, <2>3 DEF CloseShuts, CallsStay
<1> QED  BY <1>2, <1>3, <1>4

Calls == [Callers -> [step : {"idle", "loop", "wait", "transports"},
                      waits : SUBSET Tasks, covers : SUBSET Records, answer : BOOLEAN]]

LEMMA SettledKeeps ==
  ASSUME ReporterTypeOK, NEW task, Settled(task)
  PROVE  /\ CallsStay /\ caller' \in Calls
         /\ \A c \in Callers : caller'[c].step = caller[c].step
<1>1. caller \in Calls
  BY DEF ReporterTypeOK, Calls
<1>2. caller' = [c \in Callers |-> [caller[c] EXCEPT !.waits = @ \ {task}]]
  BY DEF Settled
<1>3. CallsStay /\ \A c \in Callers : caller'[c].step = caller[c].step
  BY <1>1, <1>2 DEF CallsStay, Calls
<1>4. ASSUME NEW c \in Callers
      PROVE  [caller[c] EXCEPT !.waits = @ \ {task}]
               \in [step : {"idle", "loop", "wait", "transports"},
                    waits : SUBSET Tasks, covers : SUBSET Records, answer : BOOLEAN]
  BY <1>1 DEF Calls
<1> QED  BY <1>2, <1>3, <1>4 DEF Calls

LEMMA CaptureKeeps == ASSUME ReporterIInv, NEW r \in Records, Capture(r) PROVE ReporterIInv'
<1> USE DEF ReporterIInv
<1>1. /\ record[r] = "new" /\ UNCHANGED <<queue, drainScheduled, closed, failedSinceFlush, caller, told, up>>
      /\ closed => record' = [record EXCEPT ![r] = "refused"] /\ pending' = pending
      /\ ~closed => record' = [record EXCEPT ![r] = "hook"] /\ pending' = pending \cup {Hook(r)}
  BY DEF Capture, Open, queueVars
<1>2. record \in [Records -> States] /\ closed \in BOOLEAN
  BY DEF ReporterTypeOK, States
<1>3. \A x \in Records : x # r => record'[x] = record[x]
  BY <1>1, <1>2
<1>4. record'[r] \in {"hook", "refused"} /\ (record'[r] = "hook" => Hook(r) \in pending')
  BY <1>1, <1>2 DEF States
<1>5. ReporterTypeOK'
  BY <1>1, <1>2, HookIsATask DEF ReporterTypeOK, States
<1>6. RecordsHeld'
  <2>1. pending \subseteq pending'
    BY <1>1, <1>2
  <2>2. \A k \in Kinds : r \notin ToSet(queue[k])
    BY <1>1 DEF RecordsHeld
  <2>3. \A k \in Kinds : ToSet(queue[k]) \subseteq Records
    BY DEF ReporterTypeOK, ToSet
  <2> QED  BY <1>1, <1>3, <1>4, <2>1, <2>2, <2>3 DEF RecordsHeld
<1>7. RecordsMove
  BY <1>1, <1>3, <1>4 DEF RecordsMove, Ended
<1>8. QueuedHasADrain' /\ CallsStay
  BY <1>1 DEF QueuedHasADrain, CallsStay
<1>9. closed /\ Silence => Silence'
  BY <1>1 DEF Silence
<1> QED  BY <1>1, <1>5, <1>6, <1>7, <1>8, <1>9, RecordsMoveKeeps

\* What a promise was about ends, and the promise with it.
LEMMA TaskEndsKeeps ==
  ASSUME ReporterIInv, NEW task \in pending, NEW state \in Ended,
         \A r \in task.of : record[r] \in {"hook", "sending"},
         record' = [r \in Records |-> IF r \in task.of THEN state ELSE record[r]],
         pending' = pending \ {task}, Settled(task),
         UNCHANGED <<queue, drainScheduled, closed, told>>, up' \in BOOLEAN,
         failedSinceFlush' = (failedSinceFlush \/ state = "failed")
  PROVE  ReporterIInv'
<1> USE DEF ReporterIInv
<1>1. record \in [Records -> States] /\ task \in Tasks /\ pending \subseteq Tasks
  BY DEF ReporterTypeOK, States
<1>2. task.of \subseteq Records /\ \E r \in Records : r \in task.of
  <2>1. task.of \subseteq Records /\ Cardinality(task.of) \in 1..MaxBatch
    BY <1>1 DEF Tasks
  <2>2. Cardinality(task.of) # 0
    BY <2>1, ReporterAssumption DEF ReporterAssumption
  <2>3. task.of # {}
    BY <2>2, FS_EmptySet
  <2> QED  BY <2>1, <2>3
<1>3. CallsStay /\ caller' \in Calls
  BY SettledKeeps
<1>4. ReporterTypeOK'
  <2>1. record' \in [Records -> States]
    BY <1>1 DEF States, Ended
  <2>2. failedSinceFlush' \in BOOLEAN
    BY DEF ReporterTypeOK
  <2> QED  BY <1>1, <1>3, <2>1, <2>2 DEF ReporterTypeOK, States, Calls
<1>5. RecordsHeld'
  <2>1. \A r \in Records : record'[r] \notin Ended => r \notin task.of /\ record'[r] = record[r]
    OBVIOUS
  <2>2. \A r \in Records : record'[r] = "hook" => Hook(r) \in pending'
    BY <2>1 DEF RecordsHeld, Hook, Ended
  <2>3. \A r \in Records : record'[r] = "sending" => \E t \in pending' : r \in t.of
    BY <2>1 DEF RecordsHeld, Ended
  <2>4. \A r \in Records : record'[r] = "queued" => r \in ToSet(queue'[KindOf(r)])
    BY <2>1 DEF RecordsHeld, Ended
  <2>5. \A k \in Kinds : \A r \in ToSet(queue[k]) : r \in Records /\ r \notin task.of
    BY <1>1 DEF RecordsHeld, ReporterTypeOK, ToSet
  <2>6. \A k \in Kinds : \A r \in ToSet(queue'[k]) : record'[r] = "queued" /\ KindOf(r) = k
    BY <2>5 DEF RecordsHeld
  <2> QED  BY <2>2, <2>3, <2>4, <2>6 DEF RecordsHeld
<1>6. RecordsMove
  <2>1. \A r \in Records : r \in task.of => record[r] \notin Ended /\ record'[r] = state /\ state \in Ended
    BY DEF Ended
  <2>2. \A r \in Records : r \notin task.of => record'[r] = record[r]
    OBVIOUS
  <2>3. (\E r \in Records : record'[r] = "failed" /\ record[r] # "failed") <=> state = "failed"
    BY <1>2, <2>1, <2>2 DEF Ended
  <2> QED  BY <2>1, <2>2, <2>3 DEF RecordsMove, Ended
<1>7. QueuedHasADrain'
  BY DEF QueuedHasADrain
<1>8. closed /\ Silence => Silence'
  BY DEF Silence
<1> QED  BY <1>3, <1>4, <1>5, <1>6, <1>7, <1>8, RecordsMoveKeeps

LEMMA HookEndsKeeps ==
  ASSUME ReporterIInv, NEW r \in Records, HookDrops(r) \/ \E throws \in BOOLEAN : HookThrows(r, throws)
  PROVE  ReporterIInv'
<1>1. record[r] = "hook" /\ Hook(r) \in pending /\ Hook(r).of = {r}
  BY DEF ReporterIInv, RecordsHeld, HookDrops, HookThrows, Hook
<1>2. record \in [Records -> States] /\ failedSinceFlush \in BOOLEAN /\ up \in BOOLEAN
  BY DEF ReporterIInv, ReporterTypeOK, States
<1>3. CASE HookDrops(r)
  <2>1. record' = [x \in Records |-> IF x \in Hook(r).of THEN "dropped" ELSE record[x]]
    BY <1>1, <1>2, <1>3 DEF HookDrops
  <2>2. /\ pending' = pending \ {Hook(r)} /\ Settled(Hook(r))
        /\ UNCHANGED <<queue, drainScheduled, closed, told, up>> /\ failedSinceFlush' = failedSinceFlush
    BY <1>3 DEF HookDrops, queueVars
  <2>3. failedSinceFlush' = (failedSinceFlush \/ "dropped" = "failed")
    BY <1>2, <2>2
  <2> QED  BY <1>1, <1>2, <2>1, <2>2, <2>3, TaskEndsKeeps DEF Ended
<1>4. ASSUME NEW throws \in BOOLEAN, HookThrows(r, throws) PROVE ReporterIInv'
  <2>1. /\ record' = [x \in Records |-> IF x \in Hook(r).of THEN "failed" ELSE record[x]]
        /\ pending' = pending \ {Hook(r)} /\ Settled(Hook(r)) /\ failedSinceFlush' = TRUE
        /\ UNCHANGED <<queue, drainScheduled, closed, told>> /\ up' \in BOOLEAN
    BY <1>4 DEF HookThrows, Fails, Untrack, StaysUp, queueVars
  <2> QED  BY <1>1, <2>1, TaskEndsKeeps DEF Ended
<1> QED  BY <1>3, <1>4

LEMMA TaskStepKeeps == ASSUME ReporterIInv, NEW task \in pending, TaskStep(task) PROVE ReporterIInv'
<1>1. failedSinceFlush \in BOOLEAN /\ up \in BOOLEAN
  BY DEF ReporterIInv, ReporterTypeOK
<1>2. CASE SendSucceeds(task)
  <2>1. /\ record' = [x \in Records |-> IF x \in task.of THEN "sent" ELSE record[x]]
        /\ pending' = pending \ {task} /\ Settled(task) /\ failedSinceFlush' = failedSinceFlush
        /\ UNCHANGED <<queue, drainScheduled, closed, told, up>> /\ \A r \in task.of : record[r] = "sending"
    BY <1>2 DEF SendSucceeds, Requested, queueVars
  <2>2. failedSinceFlush' = (failedSinceFlush \/ "sent" = "failed")
    BY <1>1, <2>1
  <2> QED  BY <1>1, <2>1, <2>2, TaskEndsKeeps DEF Ended
<1>3. ASSUME NEW throws \in BOOLEAN, SendFails(task, throws) PROVE ReporterIInv'
  <2>1. /\ record' = [x \in Records |-> IF x \in task.of THEN "failed" ELSE record[x]]
        /\ pending' = pending \ {task} /\ Settled(task) /\ failedSinceFlush' = TRUE
        /\ UNCHANGED <<queue, drainScheduled, closed, told>> /\ \A r \in task.of : record[r] = "sending"
        /\ up' \in BOOLEAN
    BY <1>3 DEF SendFails, Fails, Untrack, StaysUp, Requested, queueVars
  <2> QED  BY <2>1, TaskEndsKeeps DEF Ended
<1> QED  BY <1>2, <1>3 DEF TaskStep

LEMMA SendReportKeeps == ASSUME ReporterIInv, NEW r \in Records, SendReport(r) PROVE ReporterIInv'
<1> USE DEF ReporterIInv
<1>1. /\ record[r] = "hook" /\ record' = [record EXCEPT ![r] = "sending"]
      /\ UNCHANGED <<queue, drainScheduled, pending, closed, failedSinceFlush, caller, told, up>>
  BY DEF SendReport, queueVars
<1>2. record \in [Records -> States]
  BY DEF ReporterTypeOK, States
<1>3. record'[r] = "sending" /\ \A x \in Records : x # r => record'[x] = record[x]
  BY <1>1, <1>2
<1>4. ReporterTypeOK'
  BY <1>1, <1>2 DEF ReporterTypeOK, States
<1>5. RecordsHeld'
  <2>1. Hook(r) \in pending /\ r \in Hook(r).of
    BY <1>1 DEF RecordsHeld, Hook
  <2>2. \A k \in Kinds : ToSet(queue[k]) \subseteq Records \ {r}
    BY <1>1 DEF ReporterTypeOK, RecordsHeld, ToSet
  <2> QED  BY <1>1, <1>3, <2>1, <2>2 DEF RecordsHeld
<1>6. RecordsMove
  BY <1>1, <1>3 DEF RecordsMove, Ended
<1>7. QueuedHasADrain' /\ CallsStay
  BY <1>1 DEF QueuedHasADrain, CallsStay
<1>8. closed /\ Silence => Silence'
  BY <1>1 DEF Silence
<1> QED  BY <1>1, <1>4, <1>5, <1>6, <1>7, <1>8, RecordsMoveKeeps

\* The batches of a queue that is drained take over what was in it.
LEMMA DrainedIsSent ==
  ASSUME ReporterTypeOK, NEW q \in Seq(Records), Len(q) <= MaxBatch
  PROVE  /\ {Send(b) : b \in Batches(q)} \subseteq Tasks
         /\ \A r \in ToSet(q) : \E t \in {Send(b) : b \in Batches(q)} : r \in t.of
         /\ q = <<>> => {Send(b) : b \in Batches(q)} = {}
<1>1. CASE q = <<>>
  <2>1. Batches(q) = {}
    BY <1>1, OneBatch
  <2>2. ToSet(q) = {}
    BY <1>1 DEF ToSet
  <2> QED  BY <2>1, <2>2
<1>2. CASE q # <<>>
  <2>1. Batches(q) = {ToSet(q)} /\ Send(ToSet(q)) \in Tasks
    BY <1>2, OneBatch
  <2>2. Send(ToSet(q)).of = ToSet(q)
    BY DEF Send
  <2> QED  BY <1>2, <2>1, <2>2
<1> QED  BY <1>1, <1>2

LEMMA EnqueueKeeps == ASSUME ReporterIInv, NEW r \in Records, Enqueue(r) PROVE ReporterIInv'
<1> USE DEF ReporterIInv
<1> DEFINE k == KindOf(r)
           q == Append(queue[k], r)
<1>1. /\ record[r] = "hook" /\ r \notin Reports /\ Settled(Hook(r))
      /\ UNCHANGED <<closed, failedSinceFlush, told, up>>
  BY DEF Enqueue
<1>2. /\ record \in [Records -> States] /\ queue \in [Kinds -> Seq(Records)] /\ k \in Kinds
      /\ drainScheduled \in [Kinds -> BOOLEAN] /\ pending \subseteq Tasks
  BY DEF ReporterTypeOK, States, KindOf, Kinds
<1>3. /\ q \in Seq(Records) /\ Len(q) = Len(queue[k]) + 1 /\ ToSet(q) = ToSet(queue[k]) \cup {r}
      /\ Len(queue[k]) \in Nat /\ q # <<>>
  <2>1. /\ Append(queue[k], r) \in Seq(Records) /\ Len(Append(queue[k], r)) = Len(queue[k]) + 1
        /\ \A i \in 1..Len(queue[k]) : Append(queue[k], r)[i] = queue[k][i]
        /\ Append(queue[k], r)[Len(queue[k]) + 1] = r
    BY <1>2, AppendProperties
  <2>2. Len(queue[k]) \in Nat /\ DOMAIN q = 1..Len(queue[k]) + 1 /\ DOMAIN queue[k] = 1..Len(queue[k])
    BY <1>2, <2>1, LenProperties
  <2>3. 1..Len(queue[k]) + 1 = 1..Len(queue[k]) \cup {Len(queue[k]) + 1}
    BY <2>2
  <2>4. Len(queue[k]) + 1 # 0 /\ Len(<<>>) = 0
    BY <2>2
  <2> QED  BY <2>1, <2>2, <2>3, <2>4 DEF ToSet
<1>4. Len(q) <= MaxBatch
  <2>1. MaxBatch \in Nat \ {0}
    BY ReporterAssumption DEF ReporterAssumption
  <2>2. queue[k] # <<>> => Len(queue[k]) < MaxBatch
    BY <1>2 DEF QueuedHasADrain
  <2>3. queue[k] = <<>> => Len(queue[k]) = 0
    OBVIOUS
  <2> QED  BY <1>3, <2>1, <2>2, <2>3
<1>5. CallsStay /\ caller' \in Calls
  BY <1>1, SettledKeeps
<1>6. Hook(r) \in pending
  BY <1>1 DEF RecordsHeld
<1>7. \A x \in Records : Hook(x) = Hook(r) => x = r
  BY DEF Hook
<1>8. \A kk \in Kinds : ToSet(queue[kk]) \subseteq Records \ {r}
  BY <1>1 DEF ReporterTypeOK, RecordsHeld, ToSet
<1>9. closed /\ Silence => Silence'
  BY <1>6 DEF Silence
<1>10. CASE Full(q)
  <2>1. /\ record' = Drained(q, [record EXCEPT ![r] = "queued"])
        /\ queue' = [queue EXCEPT ![k] = <<>>] /\ drainScheduled' = drainScheduled
        /\ pending' = (pending \ {Hook(r)}) \cup {Send(b) : b \in Batches(q)}
    BY <1>10 DEF Enqueue
  <2>2. \A x \in Records : IF x \in ToSet(q) THEN record'[x] = "sending" ELSE record'[x] = record[x]
    BY <1>2, <1>3, <2>1 DEF Drained
  <2> HIDE DEF k, q
  <2>3. /\ {Send(b) : b \in Batches(q)} \subseteq Tasks
        /\ \A x \in ToSet(q) : \E t \in {Send(b) : b \in Batches(q)} : x \in t.of
    BY <1>3, <1>4, DrainedIsSent
  <2>4. ReporterTypeOK'
    <3>1. record' \in [Records -> States]
      BY <1>2, <2>1 DEF Drained, States
    <3>2. queue' \in [Kinds -> Seq(Records)]
      BY <1>2, <2>1
    <3> QED  BY <1>1, <1>2, <1>5, <2>1, <2>3, <3>1, <3>2 DEF ReporterTypeOK, States, Calls
  <2>5. \A x \in ToSet(q) : x = r \/ (record[x] = "queued" /\ KindOf(x) = k)
    BY <1>2, <1>3 DEF RecordsHeld
  <2>6. RecordsHeld'
    <3>1. \A x \in Records : record'[x] = "hook" => Hook(x) \in pending'
      BY <1>3, <1>7, <2>1, <2>2 DEF RecordsHeld
    <3>2. \A x \in Records : record'[x] = "sending" => \E t \in pending' : x \in t.of
      <4>1. ASSUME NEW x \in Records, record'[x] = "sending", x \notin ToSet(q)
            PROVE  \E t \in pending' : x \in t.of
        <5>1. record[x] = "sending" /\ x # r
          BY <1>3, <2>2, <4>1
        <5>2. PICK t \in pending : x \in t.of
          BY <5>1 DEF RecordsHeld
        <5>3. t # Hook(r)
          BY <5>1, <5>2 DEF Hook
        <5> QED  BY <2>1, <5>2, <5>3
      <4>2. ASSUME NEW x \in Records, x \in ToSet(q)
            PROVE  \E t \in pending' : x \in t.of
        <5>1. PICK t \in {Send(b) : b \in Batches(q)} : x \in t.of
          BY <2>3, <4>2
        <5> QED  BY <2>1, <5>1
      <4> QED  BY <4>1, <4>2
    <3>3. ASSUME NEW x \in Records, record'[x] = "queued" PROVE x \in ToSet(queue'[KindOf(x)])
      <4>1. x \notin ToSet(q) /\ record[x] = "queued"
        BY <2>2, <3>3
      <4>2. x \in ToSet(queue[KindOf(x)])
        BY <4>1 DEF RecordsHeld
      <4>3. KindOf(x) # k
        BY <1>3, <4>1, <4>2
      <4> QED  BY <1>2, <2>1, <4>2, <4>3 DEF KindOf, Kinds
    <3>4. ASSUME NEW kk \in Kinds, NEW x \in ToSet(queue'[kk])
          PROVE  record'[x] = "queued" /\ KindOf(x) = kk
      <4>1. kk # k /\ queue'[kk] = queue[kk]
        BY <1>2, <2>1, <3>4 DEF ToSet
      <4>2. record[x] = "queued" /\ KindOf(x) = kk /\ x \in Records /\ x # r
        BY <1>8, <3>4, <4>1 DEF RecordsHeld
      <4>3. x \notin ToSet(q)
        BY <2>5, <4>1, <4>2
      <4> QED  BY <2>2, <4>2, <4>3
    <3> QED  BY <3>1, <3>2, <3>3, <3>4 DEF RecordsHeld
  <2>7. RecordsMove
    BY <1>1, <2>2, <2>5 DEF RecordsMove, Ended
  <2>8. QueuedHasADrain'
    BY <1>2, <2>1 DEF QueuedHasADrain
  <2> QED  BY <1>1, <1>5, <1>9, <2>4, <2>6, <2>7, <2>8, RecordsMoveKeeps
<1>11. CASE ~Full(q)
  <2>1. /\ record' = [record EXCEPT ![r] = "queued"] /\ queue' = [queue EXCEPT ![k] = q]
        /\ pending' = pending \ {Hook(r)} /\ drainScheduled' = [drainScheduled EXCEPT ![k] = TRUE]
    BY <1>11 DEF Enqueue
  <2>2. record'[r] = "queued" /\ \A x \in Records : x # r => record'[x] = record[x]
    BY <1>2, <2>1
  <2>3. queue'[k] = q /\ \A kk \in Kinds : kk # k => queue'[kk] = queue[kk]
    BY <1>2, <2>1
  <2>9. k = KindOf(r)
    OBVIOUS
  <2> HIDE DEF k, q
  <2>4. ReporterTypeOK'
    BY <1>1, <1>2, <1>3, <1>5, <2>1 DEF ReporterTypeOK, States, Calls
  <2>5. RecordsHeld'
    <3>1. \A x \in Records : record'[x] = "hook" => Hook(x) \in pending'
      BY <1>7, <2>1, <2>2 DEF RecordsHeld
    <3>2. ASSUME NEW x \in Records, record'[x] = "sending" PROVE \E t \in pending' : x \in t.of
      <4>1. record[x] = "sending" /\ x # r
        BY <2>2, <3>2
      <4>2. PICK t \in pending : x \in t.of
        BY <4>1 DEF RecordsHeld
      <4>3. t # Hook(r)
        BY <4>1, <4>2 DEF Hook
      <4> QED  BY <2>1, <4>2, <4>3
    <3>3. ASSUME NEW x \in Records, record'[x] = "queued" PROVE x \in ToSet(queue'[KindOf(x)])
      <4>1. CASE x = r
        BY <1>3, <2>3, <2>9, <4>1
      <4>2. CASE x # r
        <5>1. x \in ToSet(queue[KindOf(x)])
          BY <2>2, <3>3, <4>2 DEF RecordsHeld
        <5> QED  BY <1>3, <2>3, <5>1 DEF KindOf, Kinds
      <4> QED  BY <4>1, <4>2
    <3>4. ASSUME NEW kk \in Kinds, NEW x \in ToSet(queue'[kk])
          PROVE  record'[x] = "queued" /\ KindOf(x) = kk
      <4>1. x \in ToSet(queue[kk]) \/ (x = r /\ kk = k)
        BY <1>3, <2>3, <3>4
      <4>2. CASE x \in ToSet(queue[kk])
        BY <1>8, <2>2, <4>2 DEF RecordsHeld
      <4>3. CASE x = r /\ kk = k
        BY <2>2, <2>9, <4>3
      <4> QED  BY <4>1, <4>2, <4>3
    <3> QED  BY <3>1, <3>2, <3>3, <3>4 DEF RecordsHeld
  <2>6. RecordsMove
    BY <1>1, <2>2 DEF RecordsMove, Ended
  <2>7. QueuedHasADrain'
    <3>1. Len(q) < MaxBatch
      BY <1>3, <1>11, ReporterAssumption DEF Full, ReporterAssumption
    <3>2. drainScheduled'[k] /\ \A kk \in Kinds : kk # k => drainScheduled'[kk] = drainScheduled[kk]
      BY <1>2, <2>1
    <3> QED  BY <2>3, <3>1, <3>2 DEF QueuedHasADrain
  <2> QED  BY <1>1, <1>5, <1>9, <2>4, <2>5, <2>6, <2>7, RecordsMoveKeeps
<1> QED  BY <1>10, <1>11

LEMMA DrainMicrotaskKeeps == ASSUME ReporterIInv, NEW k \in Kinds, DrainMicrotask(k) PROVE ReporterIInv'
<1> USE DEF ReporterIInv
<1> DEFINE q == queue[k]
           new == {Send(b) : b \in Batches(q)}
<1>1. /\ drainScheduled[k] /\ drainScheduled' = [drainScheduled EXCEPT ![k] = FALSE]
      /\ record' = Drained(q, record) /\ pending' = pending \cup new
      /\ queue' = [queue EXCEPT ![k] = <<>>] /\ UNCHANGED <<closed, failedSinceFlush, caller, told, up>>
  BY DEF DrainMicrotask
<1>2. /\ record \in [Records -> States] /\ queue \in [Kinds -> Seq(Records)]
      /\ drainScheduled \in [Kinds -> BOOLEAN] /\ pending \subseteq Tasks
  BY DEF ReporterTypeOK, States
<1>3. q \in Seq(Records) /\ Len(q) <= MaxBatch
  <2>1. Len(q) \in Nat /\ (q = <<>> => Len(q) = 0) /\ q \in Seq(Records)
    BY <1>2, LenProperties
  <2>2. q # <<>> => Len(q) < MaxBatch
    BY DEF QueuedHasADrain
  <2> QED  BY <2>1, <2>2, ReporterAssumption DEF ReporterAssumption
<1>4. /\ new \subseteq Tasks /\ \A r \in ToSet(q) : \E t \in new : r \in t.of
      /\ q = <<>> => new = {}
  BY <1>3, DrainedIsSent
<1>5. \A x \in ToSet(q) : record[x] = "queued" /\ KindOf(x) = k
  BY DEF RecordsHeld
<1>6. \A x \in Records : IF x \in ToSet(q) THEN record'[x] = "sending" ELSE record'[x] = record[x]
  BY <1>1 DEF Drained
<1>7. queue'[k] = <<>> /\ \A kk \in Kinds : kk # k => queue'[kk] = queue[kk]
  BY <1>1, <1>2
<1>8. q = <<>> => record' = record /\ queue' = queue
  <2>1. ASSUME q = <<>> PROVE record' = record
    <3>1. ToSet(q) = {}
      BY <2>1 DEF ToSet
    <3> QED  BY <1>1, <1>2, <3>1 DEF Drained
  <2>2. ASSUME q = <<>> PROVE queue' = queue
    BY <1>1, <1>2, <2>2
  <2> QED  BY <2>1, <2>2
<1> HIDE DEF new
<1>9. ReporterTypeOK'
  <2>1. record' \in [Records -> States]
    BY <1>1, <1>2 DEF Drained, States
  <2>2. queue' \in [Kinds -> Seq(Records)]
    BY <1>1, <1>2
  <2>3. drainScheduled' \in [Kinds -> BOOLEAN] /\ pending' \subseteq Tasks
    BY <1>1, <1>2, <1>4
  <2> QED  BY <1>1, <2>1, <2>2, <2>3 DEF ReporterTypeOK, States
<1> HIDE DEF q
<1>10. RecordsHeld'
  <2>1. \A x \in Records : record'[x] = "hook" => Hook(x) \in pending'
    BY <1>1, <1>6 DEF RecordsHeld
  <2>2. ASSUME NEW x \in Records, record'[x] = "sending" PROVE \E t \in pending' : x \in t.of
    <3>1. CASE x \in ToSet(q)
      BY <1>1, <1>4, <3>1
    <3>2. CASE x \notin ToSet(q)
      BY <1>1, <1>6, <2>2, <3>2 DEF RecordsHeld
    <3> QED  BY <3>1, <3>2
  <2>3. ASSUME NEW x \in Records, record'[x] = "queued" PROVE x \in ToSet(queue'[KindOf(x)])
    <3>1. x \notin ToSet(q) /\ x \in ToSet(queue[KindOf(x)])
      BY <1>6, <2>3 DEF RecordsHeld
    <3> QED  BY <1>7, <3>1 DEF q, KindOf, Kinds
  <2>4. ASSUME NEW kk \in Kinds, NEW x \in ToSet(queue'[kk])
        PROVE  record'[x] = "queued" /\ KindOf(x) = kk
    <3>1. kk # k /\ queue'[kk] = queue[kk]
      BY <1>7, <2>4 DEF ToSet
    <3>2. record[x] = "queued" /\ KindOf(x) = kk /\ x \in Records
      BY <1>2, <2>4, <3>1 DEF RecordsHeld, ToSet
    <3> QED  BY <1>5, <1>6, <3>1, <3>2
  <2> QED  BY <2>1, <2>2, <2>3, <2>4 DEF RecordsHeld
<1>11. RecordsMove
  BY <1>1, <1>5, <1>6 DEF RecordsMove, Ended
<1>12. QueuedHasADrain'
  BY <1>1, <1>2, <1>7 DEF QueuedHasADrain
<1>13. CallsStay
  BY <1>1 DEF CallsStay
<1>14. closed /\ Silence => Silence'
  BY <1>1, <1>4, <1>8 DEF Silence, q
<1> QED  BY <1>1, <1>9, <1>10, <1>11, <1>12, <1>13, <1>14, RecordsMoveKeeps

-----------------------------------------------------------------------------
\* The calls of flush and close.

\* A step of one call that leaves the records alone.
LEMMA CallStepKeeps ==
  ASSUME ReporterIInv, NEW c \in Callers, NEW call,
         call \in [step : {"idle", "loop", "wait", "transports"},
                   waits : SUBSET Tasks, covers : SUBSET Records, answer : BOOLEAN],
         UNCHANGED <<record, queue, drainScheduled, pending, up>>,
         caller' = [caller EXCEPT ![c] = call],
         closed' \in BOOLEAN, failedSinceFlush' \in BOOLEAN, told' \subseteq Records,
         FlagTells', closed => closed',
         \A r \in call.covers : /\ call.step # "idle" => record[r] \notin {"new", "refused"}
                                /\ call.step = "transports" => record[r] \in Ended,
         c \in Closers => /\ call.step # "idle" \/ call.answer => closed'
                          /\ call.step = "transports" \/ (call.step = "idle" /\ call.answer) => Silence
  PROVE  ReporterIInv'
<1> USE DEF ReporterIInv
<1>1. caller'[c] = call /\ \A d \in Callers : d # c => caller'[d] = caller[d]
  BY DEF ReporterTypeOK
<1>2. ReporterTypeOK'
  BY DEF ReporterTypeOK
<1>3. QueuedHasADrain' /\ RecordsHeld'
  BY DEF QueuedHasADrain, RecordsHeld
<1>4. CoversEnd'
  BY <1>1 DEF CoversEnd
<1>5. Silence' = Silence
  BY DEF Silence
<1>6. CloseShuts'
  <2>1. Closers \subseteq Callers
    BY ReporterAssumption DEF ReporterAssumption
  <2> QED  BY <1>1, <1>5, <2>1 DEF CloseShuts, Done
<1> QED  BY <1>2, <1>3, <1>4, <1>6

\* When nothing is pending or queued, what was taken has ended.
LEMMA SilenceEnds ==
  ASSUME ReporterIInv, Silence, NEW r \in Records, record[r] \notin {"new", "refused"}
  PROVE  record[r] \in Ended
<1>1. record[r] \in States
  BY DEF ReporterIInv, ReporterTypeOK, States
<1>2. record[r] # "hook" /\ record[r] # "sending"
  BY DEF ReporterIInv, RecordsHeld, Silence
<1>3. record[r] # "queued"
  BY DEF ReporterIInv, RecordsHeld, Silence, ToSet, KindOf, Kinds
<1> QED  BY <1>1, <1>2, <1>3 DEF States, Ended

LEMMA CallKeeps == ASSUME ReporterIInv, NEW c \in Callers, Call(c) PROVE ReporterIInv'
<1> DEFINE call == [Over(c) EXCEPT !.step = "loop", !.covers = Accepted]
<1>1. /\ UNCHANGED <<record, queue, drainScheduled, pending, failedSinceFlush, told, up>>
      /\ closed' = (closed \/ c \in Closers) /\ caller' = [caller EXCEPT ![c] = call]
  BY DEF Call, queueVars
<1>2. Accepted \in SUBSET Records /\ caller[c].waits \in SUBSET Tasks
  BY DEF Accepted, ReporterIInv, ReporterTypeOK
<1>3. /\ call.step = "loop" /\ call.covers = Accepted /\ call.answer = FALSE
      /\ call \in [step : {"idle", "loop", "wait", "transports"},
                   waits : SUBSET Tasks, covers : SUBSET Records, answer : BOOLEAN]
  BY <1>2 DEF NoCall, Over
<1>4. failedSinceFlush' \in BOOLEAN /\ closed' \in BOOLEAN /\ told' \subseteq Records /\ (closed => closed')
  BY <1>1 DEF ReporterIInv, ReporterTypeOK
<1>5. FlagTells'
  BY <1>1 DEF ReporterIInv, FlagTells
<1>6. \A r \in call.covers : record[r] \notin {"new", "refused"}
  BY <1>3 DEF Accepted
<1>7. c \in Closers => closed'
  BY <1>1
<1> HIDE DEF call
<1> QED  BY <1>1, <1>3, <1>4, <1>5, <1>6, <1>7, CallStepKeeps

LEMMA LoopEndsKeeps == ASSUME ReporterIInv, NEW c \in Callers, LoopEnds(c) PROVE ReporterIInv'
<1> USE DEF ReporterIInv
<1> DEFINE call == [caller[c] EXCEPT !.step = "transports"]
<1>1. /\ UNCHANGED <<record, queue, drainScheduled, pending, closed, failedSinceFlush, told, up>>
      /\ caller[c].step = "loop" /\ Silence
  BY DEF LoopEnds, NothingLeft, Silence, queueVars
<1>2. caller \in Calls
  BY DEF ReporterTypeOK, Calls
<1>3. caller' = [caller EXCEPT ![c] = call]
  BY <1>2 DEF LoopEnds, Calls
<1>4. /\ call \in [step : {"idle", "loop", "wait", "transports"},
                   waits : SUBSET Tasks, covers : SUBSET Records, answer : BOOLEAN]
      /\ call.step = "transports" /\ call.covers = caller[c].covers /\ call.answer = caller[c].answer
      /\ caller[c].covers \subseteq Records
  BY <1>2 DEF Calls
<1>5. failedSinceFlush' \in BOOLEAN /\ closed' \in BOOLEAN /\ told' \subseteq Records /\ (closed => closed')
  BY <1>1 DEF ReporterTypeOK
<1>6. FlagTells'
  BY <1>1 DEF FlagTells
<1>7. \A r \in call.covers : record[r] \notin {"new", "refused"} /\ record[r] \in Ended
  BY <1>1, <1>4, SilenceEnds DEF CoversEnd
<1>8. c \in Closers => closed'
  BY <1>1 DEF CloseShuts
<1> HIDE DEF call
<1> QED  BY <1>1, <1>3, <1>4, <1>5, <1>6, <1>7, <1>8, CallStepKeeps

LEMMA WaitEndsKeeps == ASSUME ReporterIInv, NEW c \in Callers, WaitEnds(c) PROVE ReporterIInv'
<1> USE DEF ReporterIInv
<1> DEFINE call == [caller[c] EXCEPT !.step = "loop"]
<1>1. /\ UNCHANGED <<record, queue, drainScheduled, pending, closed, failedSinceFlush, told, up>>
      /\ caller[c].step = "wait"
  BY DEF WaitEnds, queueVars
<1>2. caller \in Calls
  BY DEF ReporterTypeOK, Calls
<1>3. caller' = [caller EXCEPT ![c] = call]
  BY <1>2 DEF WaitEnds, Calls
<1>4. /\ call \in [step : {"idle", "loop", "wait", "transports"},
                   waits : SUBSET Tasks, covers : SUBSET Records, answer : BOOLEAN]
      /\ call.step = "loop" /\ call.covers = caller[c].covers /\ call.answer = caller[c].answer
  BY <1>2 DEF Calls
<1>5. failedSinceFlush' \in BOOLEAN /\ closed' \in BOOLEAN /\ told' \subseteq Records /\ (closed => closed')
  BY <1>1 DEF ReporterTypeOK
<1>6. FlagTells'
  BY <1>1 DEF FlagTells
<1>7. \A r \in call.covers : record[r] \notin {"new", "refused"}
  BY <1>1, <1>4 DEF CoversEnd
<1>8. c \in Closers => closed'
  BY <1>1 DEF CloseShuts
<1> HIDE DEF call
<1> QED  BY <1>1, <1>3, <1>4, <1>5, <1>6, <1>7, <1>8, CallStepKeeps

LEMMA TimesOutKeeps == ASSUME ReporterIInv, NEW c \in Callers, TimesOut(c) PROVE ReporterIInv'
<1> USE DEF ReporterIInv
<1>1. /\ UNCHANGED <<record, queue, drainScheduled, pending, closed, failedSinceFlush, told, up>>
      /\ caller' = [caller EXCEPT ![c] = Over(c)]
  BY DEF TimesOut, queueVars
<1>2. /\ Over(c) \in [step : {"idle", "loop", "wait", "transports"},
                      waits : SUBSET Tasks, covers : SUBSET Records, answer : BOOLEAN]
      /\ Over(c).step = "idle" /\ Over(c).answer = FALSE /\ Over(c).covers = {}
  BY DEF NoCall, Over, ReporterTypeOK
<1>3. failedSinceFlush' \in BOOLEAN /\ closed' \in BOOLEAN /\ told' \subseteq Records /\ (closed => closed')
  BY <1>1 DEF ReporterTypeOK
<1>4. FlagTells'
  BY <1>1 DEF FlagTells
<1> QED  BY <1>1, <1>2, <1>3, <1>4, CallStepKeeps

LEMMA FlushReturnsKeeps == ASSUME ReporterIInv, NEW c \in Callers, FlushReturns(c) PROVE ReporterIInv'
<1> USE DEF ReporterIInv
<1> DEFINE call == [NoCall EXCEPT !.answer = ~failedSinceFlush]
<1>1. /\ UNCHANGED <<record, queue, drainScheduled, pending, closed, up>> /\ caller[c].step = "transports"
      /\ caller' = [caller EXCEPT ![c] = call] /\ failedSinceFlush' = FALSE
      /\ told' = told \cup {r \in Records : record[r] = "failed"}
  BY DEF FlushReturns, Forgets, queueVars
<1>2. /\ call \in [step : {"idle", "loop", "wait", "transports"},
                   waits : SUBSET Tasks, covers : SUBSET Records, answer : BOOLEAN]
      /\ call.step = "idle" /\ call.covers = {}
  BY DEF NoCall
<1>3. failedSinceFlush' \in BOOLEAN /\ closed' \in BOOLEAN /\ told' \subseteq Records /\ (closed => closed')
  BY <1>1 DEF ReporterTypeOK
<1>4. FlagTells'
  BY <1>1 DEF FlagTells
<1>5. c \in Closers => closed' /\ Silence
  BY <1>1 DEF CloseShuts, Done
<1> HIDE DEF call
<1> QED  BY <1>1, <1>2, <1>3, <1>4, <1>5, CallStepKeeps

LEMMA LoopWaitsKeeps ==
  ASSUME ReporterIInv, NEW c \in Callers, NEW late \in BOOLEAN, LoopWaits(c, late)
  PROVE  ReporterIInv'
<1> USE DEF ReporterIInv
<1> DEFINE new(k) == {Send(b) : b \in Batches(queue[k])}
           now == pending \cup UNION {new(k) : k \in Kinds}
<1>1. /\ caller[c].step = "loop" /\ ~NothingLeft(c) /\ pending' = now
      /\ record' = [r \in Records |-> IF record[r] = "queued" THEN "sending" ELSE record[r]]
      /\ queue' = [k \in Kinds |-> <<>>]
      /\ caller' = [caller EXCEPT ![c] = IF late THEN Over(c)
                                        ELSE [caller[c] EXCEPT !.step = "wait", !.waits = now]]
      /\ UNCHANGED <<drainScheduled, closed, failedSinceFlush, told, up>>
  BY DEF LoopWaits
<1>2. /\ record \in [Records -> States] /\ queue \in [Kinds -> Seq(Records)]
      /\ pending \subseteq Tasks /\ caller \in Calls
  BY DEF ReporterTypeOK, States, Calls
<1>3. \A k \in Kinds : new(k) \subseteq Tasks /\ \A r \in ToSet(queue[k]) : \E t \in new(k) : r \in t.of
  <2>1. ASSUME NEW k \in Kinds PROVE queue[k] \in Seq(Records) /\ Len(queue[k]) <= MaxBatch
    <3>1. Len(queue[k]) \in Nat /\ (queue[k] = <<>> => Len(queue[k]) = 0) /\ queue[k] \in Seq(Records)
      BY <1>2, LenProperties
    <3>2. queue[k] # <<>> => Len(queue[k]) < MaxBatch
      BY DEF QueuedHasADrain
    <3> QED  BY <3>1, <3>2, ReporterAssumption DEF ReporterAssumption
  <2> QED  BY <2>1, DrainedIsSent
<1> HIDE DEF new
<1>4. now \subseteq Tasks /\ pending \subseteq now /\ \A k \in Kinds : new(k) \subseteq now
  BY <1>2, <1>3
<1> HIDE DEF now
<1>5. caller' \in Calls /\ CallsStay
  <2>1. CASE late
    BY <1>1, <1>2, <2>1 DEF Calls, CallsStay, Over, NoCall
  <2>2. CASE ~late
    BY <1>1, <1>2, <1>4, <2>2 DEF Calls, CallsStay
  <2> QED  BY <2>1, <2>2
<1>6. ReporterTypeOK'
  <2>1. record' \in [Records -> States]
    BY <1>1, <1>2 DEF States
  <2>2. queue' \in [Kinds -> Seq(Records)]
    BY <1>1
  <2> QED  BY <1>1, <1>4, <1>5, <2>1, <2>2 DEF ReporterTypeOK, States, Calls
<1>7. \A x \in Records : IF record[x] = "queued" THEN record'[x] = "sending" ELSE record'[x] = record[x]
  BY <1>1
<1>8. RecordsHeld'
  <2>1. \A x \in Records : record'[x] = "hook" => Hook(x) \in pending'
    BY <1>1, <1>4, <1>7 DEF RecordsHeld
  <2>2. ASSUME NEW x \in Records, record'[x] = "sending" PROVE \E t \in pending' : x \in t.of
    <3>1. CASE record[x] = "queued"
      <4>1. x \in ToSet(queue[KindOf(x)]) /\ KindOf(x) \in Kinds
        BY <3>1 DEF RecordsHeld, KindOf, Kinds
      <4> QED  BY <1>1, <1>3, <1>4, <4>1
    <3>2. CASE record[x] # "queued"
      BY <1>1, <1>4, <1>7, <2>2, <3>2 DEF RecordsHeld
    <3> QED  BY <3>1, <3>2
  <2>3. \A x \in Records : record'[x] # "queued"
    BY <1>7
  <2>4. \A k \in Kinds : ToSet(queue'[k]) = {}
    BY <1>1 DEF ToSet
  <2> QED  BY <2>1, <2>2, <2>3, <2>4 DEF RecordsHeld
<1>9. RecordsMove
  BY <1>1, <1>7 DEF RecordsMove, Ended
<1>10. QueuedHasADrain'
  BY <1>1 DEF QueuedHasADrain
<1>11. closed /\ Silence => Silence'
  BY <1>1 DEF Silence, NothingLeft
<1> QED  BY <1>1, <1>5, <1>6, <1>8, <1>9, <1>10, <1>11, RecordsMoveKeeps

LEMMA ReporterStepKeeps == ASSUME ReporterIInv, [ReporterNext]_reporterVars PROVE ReporterIInv'
<1>1. CASE UNCHANGED reporterVars
  BY <1>1 DEF reporterVars, queueVars, ReporterIInv, ReporterTypeOK, QueuedHasADrain, RecordsHeld,
              FlagTells, CoversEnd, CloseShuts, Done, Silence
<1>2. CASE \E r \in Records : Capture(r) \/ RecordStep(r)
  BY <1>2, CaptureKeeps, HookEndsKeeps, SendReportKeeps, EnqueueKeeps DEF RecordStep
<1>3. CASE \E task \in pending : TaskStep(task)
  BY <1>3, TaskStepKeeps
<1>4. CASE \E k \in Kinds : DrainMicrotask(k)
  BY <1>4, DrainMicrotaskKeeps
<1>5. CASE \E c \in Callers : CallerStep(c)
  BY <1>5, CallKeeps, LoopEndsKeeps, LoopWaitsKeeps, WaitEndsKeeps, TimesOutKeeps, FlushReturnsKeeps
     DEF CallerStep
<1> QED  BY <1>1, <1>2, <1>3, <1>4, <1>5 DEF ReporterNext

\* A completed flush goes by the flag, and the flag by the failures nobody was
\* told of.
LEMMA FlushSaysTheTruth ==
  ASSUME ReporterIInv, ReporterIInv', [ReporterNext]_reporterVars, NEW c \in Callers,
         caller[c].step = "transports", caller'[c].step = "idle"
  PROVE  IF caller'[c].answer
         THEN \A r \in caller[c].covers : record[r] \in {"sent", "dropped"} \/ r \in told
         ELSE \E r \in Records : record[r] = "failed" /\ r \notin told
<1>1. caller \in Calls
  BY DEF ReporterIInv, ReporterTypeOK, Calls
<1>2. \A task : Settled(task) => caller'[c].step = caller[c].step
  BY SettledKeeps DEF ReporterIInv
<1>3. FlushReturns(c)
  <2>1. ~UNCHANGED reporterVars
    BY DEF reporterVars
  <2>2. ASSUME NEW r \in Records, Capture(r) \/ RecordStep(r) PROVE FALSE
    BY <1>2, <2>2 DEF Capture, RecordStep, HookDrops, SendReport, Enqueue, HookThrows, Fails
  <2>3. ASSUME NEW task \in pending, TaskStep(task) PROVE FALSE
    BY <1>2, <2>3 DEF TaskStep, SendSucceeds, SendFails, Fails
  <2>4. ASSUME NEW k \in Kinds, DrainMicrotask(k) PROVE FALSE
    BY <2>4 DEF DrainMicrotask
  <2>5. ASSUME NEW d \in Callers, CallerStep(d) PROVE FlushReturns(c)
    <3>1. CASE Call(d)
      BY <1>1, <3>1 DEF Call, Calls
    <3>2. CASE LoopEnds(d)
      BY <1>1, <3>2 DEF LoopEnds, Calls
    <3>3. ASSUME NEW late \in BOOLEAN, LoopWaits(d, late) PROVE FALSE
      <4>1. caller'[c].step # "idle" \/ c = d
        BY <1>1, <3>3 DEF LoopWaits
      <4> QED  BY <4>1, <3>3 DEF LoopWaits
    <3>4. CASE WaitEnds(d)
      BY <1>1, <3>4 DEF WaitEnds, Calls
    <3>5. CASE TimesOut(d)
      BY <1>1, <3>5 DEF TimesOut, Calls
    <3>6. CASE FlushReturns(d)
      BY <1>1, <3>6 DEF FlushReturns, Calls
    <3> QED  BY <2>5, <3>1, <3>2, <3>3, <3>4, <3>5, <3>6 DEF CallerStep
  <2> QED  BY <2>1, <2>2, <2>3, <2>4, <2>5 DEF ReporterNext
<1>4. caller'[c].answer = ~failedSinceFlush
  BY <1>1, <1>3 DEF FlushReturns, Calls, NoCall
<1>5. caller[c].covers \subseteq Records
  BY <1>1 DEF Calls
<1> QED  BY <1>4, <1>5 DEF ReporterIInv, FlagTells, CoversEnd, Ended

\* The invariant of the client (client.ts): what waits in a queue is less than a
\* batch and has a drain coming, and a client that answered true to a close has
\* nothing under way and never will, for any number of records and calls.
THEOREM ReporterInvariant == Spec => []ReporterInv
<1>1. Init => ReporterIInv
  BY ReporterInitKeeps DEF Init
<1>2. ReporterIInv /\ [Next]_runtimesVars => ReporterIInv'
  <2>1. [Next]_runtimesVars => [ReporterNext]_reporterVars
    BY DEF Next, runtimesVars
  <2> QED  BY <2>1, ReporterStepKeeps
<1>3. ReporterIInv => ReporterInv
  <2>1. ReporterIInv => ClosedIsQuiet
    BY DEF ReporterIInv, CloseShuts, Done, Silence, ClosedIsQuiet
  <2> QED  BY <2>1 DEF ReporterIInv, ReporterInv
<1> QED  BY <1>1, <1>2, <1>3, PTL DEF Spec

\* A flush says the truth (flush of client.ts): true only when all that was
\* captured before it was sent, dropped on purpose or told of before, and false
\* only when a failure was not told of.
THEOREM FlushIsTrue == Spec => FlushTruth
<1>1. Init => ReporterIInv
  BY ReporterInitKeeps DEF Init
<1>2. [Next]_runtimesVars => [ReporterNext]_reporterVars
  BY DEF Next, runtimesVars
<1>3. ReporterIInv /\ [Next]_runtimesVars => ReporterIInv'
  BY <1>2, ReporterStepKeeps
<1>4. ReporterIInv /\ ReporterIInv' /\ [Next]_runtimesVars =>
        [\A c \in Callers : caller[c].step = "transports" /\ caller'[c].step = "idle" =>
           IF caller'[c].answer
           THEN \A r \in caller[c].covers : record[r] \in {"sent", "dropped"} \/ r \in told
           ELSE \E r \in Records : record[r] = "failed" /\ r \notin told]_reporterVars
  BY <1>2, FlushSaysTheTruth
<1> QED  BY <1>1, <1>3, <1>4, PTL DEF Spec, FlushTruth

-----------------------------------------------------------------------------
(* What is active where.                                                    *)

SpanBlock == [kind : {"span"}, own : SpanNames, was : SpanNames \cup {None}, unwound : BOOLEAN]
BagBlock == [kind : {"bag"}, own : Bags, was : Bags \cup {None}, unwound : BOOLEAN]
Block == SpanBlock \cup BagBlock

\* Blocks keep spans by spans and bags by bags; outside of Python there always
\* is a bag, and only where there is one variable is it put back at an await.
BlocksTyped ==
  /\ blocks \in [Chains -> Seq(Block)]
  /\ \A c \in Chains : \A i \in DOMAIN blocks[c] :
       /\ blocks[c][i].unwound => store = "variable"
       /\ blocks[c][i].kind = "bag" /\ store # "contextvar" => blocks[c][i].was # None

\* A chain is of its own line, and all of a line have begun.
LinesInv ==
  /\ Main \in Living
  /\ \A c \in Living : c \in born[c].line /\ born[c].line \subseteq Living
  /\ \A c \in Chains \ Living : blocks[c] = <<>>

\* The least and the greatest of a set of numbers.
LEMMA LeastThere ==
  ASSUME NEW T \in SUBSET Nat, T # {} PROVE \E x \in T : \A y \in T : x <= y
<1> DEFINE R == {ss \in Nat \X Nat : ss[1] < ss[2]}
<1>1. OpToRel(<,Nat) = R
  BY DEF OpToRel
<1>2. IsWellFoundedOn(R, Nat)
  BY <1>1, NatLessThanWellFounded
<1> HIDE DEF R
<1>3. \E x \in T : \A y \in T : <<y, x>> \notin R
  BY <1>2, WFMin
<1>4. \A x, y \in Nat : <<y, x>> \notin R => x <= y
  BY DEF R
<1> QED  BY <1>3, <1>4

LEMMA GreatestThere ==
  ASSUME NEW n \in Nat, NEW T \in SUBSET (1..n), T # {} PROVE \E x \in T : \A y \in T : y <= x
<1> DEFINE U == {m \in 0..n : n - m \in T}
<1>1. U \in SUBSET Nat /\ U # {}
  <2>1. PICK x \in T : TRUE
    OBVIOUS
  <2>3. x \in 1..n
    OBVIOUS
  <2>2. n - x \in 0..n /\ n - (n - x) = x
    BY <2>3
  <2>4. n - x \in {m \in 0..n : n - m \in T}
    BY <2>2
  <2>5. U \subseteq Nat
    OBVIOUS
  <2> QED  BY <2>4, <2>5
<1>2. PICK m \in U : \A y \in U : m <= y
  BY <1>1, LeastThere
<1>3. n - m \in T /\ m \in 0..n
  OBVIOUS
<1>4. ASSUME NEW y \in T PROVE y <= n - m
  <2>1. n - y \in 0..n /\ n - (n - y) = y
    OBVIOUS
  <2>2. n - y \in U
    BY <2>1
  <2>3. m <= n - y
    BY <1>2, <2>2
  <2> QED  BY <1>3, <2>1, <2>3
<1> QED  BY <1>3, <1>4

LEMMA MinIsThere == ASSUME NEW T \in SUBSET Nat, T # {} PROVE Min(T) \in T
  BY LeastThere DEF Min

LEMMA MaxIsThere ==
  ASSUME NEW n \in Nat, NEW T \in SUBSET (1..n), T # {}
  PROVE  Max(T) \in T /\ \A y \in T : y <= Max(T)
<1>1. \E x \in T : \A y \in T : x >= y
  BY GreatestThere
<1> QED  BY <1>1 DEF Max

\* The fields of what is active, by name.
LEMMA ViewFields ==
  ASSUME NEW v \in View
  PROVE  /\ v.span \in SpanNames \cup {None} /\ v.bag \in Bags \cup {None}
         /\ v["span"] = v.span /\ v["bag"] = v.bag
  BY DEF View

\* One field of one context that changes.
LEMMA ViewChanges ==
  ASSUME view \in [Chains -> View], NEW x \in Chains, NEW kind \in {"span", "bag"}, NEW value,
         kind = "span" => value \in SpanNames \cup {None},
         kind = "bag" => value \in Bags \cup {None}
  PROVE  LET to == [view EXCEPT ![x][kind] = value] IN
         /\ to \in [Chains -> View]
         /\ \A e \in Chains : e # x => to[e] = view[e]
         /\ kind = "span" => to[x].span = value /\ to[x].bag = view[x].bag
         /\ kind = "bag" => to[x].bag = value /\ to[x].span = view[x].span
<1>1. CASE kind = "span"
  BY <1>1 DEF View
<1>2. CASE kind = "bag"
  BY <1>2 DEF View
<1> QED  BY <1>1, <1>2

LEMMA ContextIsAChain == ASSUME NEW c \in Chains PROVE ContextOf(c) \in Chains
  BY ContextsAssumption DEF ContextOf, ContextsAssumption

LEMMA NewBagIsFresh ==
  ASSUME FreshBags # {}
  PROVE  /\ NewBag \in Bags /\ NewBag # Root /\ NewBag # None /\ NewBag \in FreshBags
         /\ \A c \in Chains : NewBag \notin Held(c)
<1>1. NewBag \in FreshBags
  BY DEF NewBag
<1> QED  BY <1>1, ContextsAssumption DEF FreshBags, ContextsAssumption

LEMMA NewSpanIsNew ==
  ASSUME NewSpans # {} PROVE NewSpan \in SpanNames /\ spans[NewSpan].state = "none" /\ NewSpan # None
<1>1. NewSpan \in NewSpans
  BY DEF NewSpan
<1> QED  BY <1>1, ContextsAssumption DEF NewSpans, ContextsAssumption

\* What a block that is entered does.
LEMMA EnterEffect ==
  ASSUME ContextsTypeOK, BlocksTyped, NEW c \in Chains, NEW kind \in {"span", "bag"}, NEW value,
         kind = "span" => value \in SpanNames, kind = "bag" => value \in Bags,
         Enter(c, kind, value), store' = store
  PROVE  LET new == [kind |-> kind, own |-> value, was |-> view[ContextOf(c)][kind], unwound |-> FALSE]
             x == ContextOf(c) IN
         /\ blocks'[c] = Append(blocks[c], new) /\ \A e \in Chains : e # c => blocks'[e] = blocks[e]
         /\ Len(blocks'[c]) <= MaxBlocks /\ new \in Block
         /\ BlocksTyped'
         /\ view' \in [Chains -> View] /\ \A e \in Chains : e # x => view'[e] = view[e]
         /\ kind = "span" => view'[x].span = value /\ view'[x].bag = view[x].bag
         /\ kind = "bag" => view'[x].bag = value /\ view'[x].span = view[x].span
<1> DEFINE x == ContextOf(c)
           new == [kind |-> kind, own |-> value, was |-> view[x][kind], unwound |-> FALSE]
<1>1. x \in Chains /\ view \in [Chains -> View] /\ view[x] \in View
  BY ContextIsAChain DEF ContextsTypeOK
<1>2. /\ blocks' = [blocks EXCEPT ![c] = Append(blocks[c], new)] /\ Len(blocks[c]) < MaxBlocks
      /\ view' = [view EXCEPT ![x][kind] = value]
  BY DEF Enter
<1>3. /\ new \in Block /\ new.unwound = FALSE
      /\ new.kind = "bag" /\ store # "contextvar" => new.was # None
  <2>1. CASE kind = "span"
    <3>1. view[x][kind] \in SpanNames \cup {None}
      BY <1>1, <2>1, ViewFields
    <3> QED  BY <2>1, <3>1 DEF Block, SpanBlock
  <2>2. CASE kind = "bag"
    <3>1. view[x][kind] \in Bags \cup {None} /\ view[x][kind] = view[x].bag
      BY <1>1, <2>2, ViewFields
    <3>2. store # "contextvar" => view[x].bag # None
      BY <1>1 DEF ContextsTypeOK
    <3> QED  BY <2>2, <3>1, <3>2 DEF Block, BagBlock
  <2> QED  BY <2>1, <2>2
<1> HIDE DEF new, x
<1>4. /\ view' \in [Chains -> View] /\ \A e \in Chains : e # x => view'[e] = view[e]
      /\ kind = "span" => view'[x].span = value /\ view'[x].bag = view[x].bag
      /\ kind = "bag" => view'[x].bag = value /\ view'[x].span = view[x].span
  <2>1. kind = "span" => value \in SpanNames \cup {None}
    OBVIOUS
  <2>2. kind = "bag" => value \in Bags \cup {None}
    OBVIOUS
  <2>3. LET to == [view EXCEPT ![x][kind] = value] IN
         /\ to \in [Chains -> View]
         /\ \A e \in Chains : e # x => to[e] = view[e]
         /\ kind = "span" => to[x].span = value /\ to[x].bag = view[x].bag
         /\ kind = "bag" => to[x].bag = value /\ to[x].span = view[x].span
    BY <1>1, <2>1, <2>2, ViewChanges
  <2> QED  BY <1>2, <2>3
<1>5. blocks[c] \in Seq(Block) /\ blocks \in [Chains -> Seq(Block)]
  BY DEF BlocksTyped
<1>6. /\ Append(blocks[c], new) \in Seq(Block) /\ Len(Append(blocks[c], new)) = Len(blocks[c]) + 1
      /\ \A i \in 1..Len(blocks[c]) : Append(blocks[c], new)[i] = blocks[c][i]
      /\ Append(blocks[c], new)[Len(blocks[c]) + 1] = new
  BY <1>3, <1>5, AppendProperties
<1>7. Len(blocks[c]) \in Nat /\ DOMAIN Append(blocks[c], new) = 1..Len(blocks[c]) + 1
      /\ DOMAIN blocks[c] = 1..Len(blocks[c])
  BY <1>5, <1>6, LenProperties
<1>8. blocks'[c] = Append(blocks[c], new) /\ \A e \in Chains : e # c => blocks'[e] = blocks[e]
  BY <1>2, <1>5
<1>9. Len(blocks'[c]) <= MaxBlocks
  BY <1>2, <1>6, <1>7, <1>8, ContextsAssumption DEF ContextsAssumption
<1>10. BlocksTyped'
  <2>1. blocks' \in [Chains -> Seq(Block)]
    BY <1>2, <1>5, <1>6
  <2>2. ASSUME NEW e \in Chains, NEW i \in DOMAIN blocks'[e]
        PROVE  /\ blocks'[e][i].unwound => store' = "variable"
               /\ blocks'[e][i].kind = "bag" /\ store' # "contextvar" => blocks'[e][i].was # None
    <3>1. CASE e # c
      BY <1>8, <2>2, <3>1 DEF BlocksTyped
    <3>2. CASE e = c
      <4>1. i \in 1..Len(blocks[c]) \/ i = Len(blocks[c]) + 1
        BY <1>7, <1>8, <2>2, <3>2
      <4>2. CASE i \in 1..Len(blocks[c])
        BY <1>6, <1>7, <1>8, <3>2, <4>2 DEF BlocksTyped
      <4>3. CASE i = Len(blocks[c]) + 1
        BY <1>3, <1>6, <1>8, <3>2, <4>3
      <4> QED  BY <4>1, <4>2, <4>3
    <3> QED  BY <3>1, <3>2
  <2> QED  BY <2>1, <2>2 DEF BlocksTyped
<1> QED  BY <1>3, <1>4, <1>8, <1>9, <1>10 DEF new, x

\* The types and the lines.
TypedInv == ContextsTypeOK /\ BlocksTyped /\ LinesInv

LEMMA ContextsInitTyped == ContextsInit => TypedInv
<1> SUFFICES ASSUME ContextsInit PROVE TypedInv
  OBVIOUS
<1> USE ContextsAssumption DEF ContextsInit, ContextsAssumption
<1>1. Empty \in View /\ (store # "contextvar" => Empty.bag # None)
  BY DEF Empty, View
<1>2. \A c \in Chains : Len(blocks[c]) = 0 /\ DOMAIN blocks[c] = {}
  OBVIOUS
<1>3. ContextsTypeOK
  <2>1. view \in [Chains -> View] /\ store \in Stores
    BY <1>1
  <2>2. born \in [Chains -> [line : SUBSET Chains, view : View]]
    BY <1>1
  <2>3. spans \in [SpanNames -> [state : {"none", "open", "ended"}, by : Chains \cup {None},
                                 parent : SpanNames \cup {None}]]
    OBVIOUS
  <2> QED  BY <1>1, <1>2, <2>1, <2>2, <2>3 DEF ContextsTypeOK
<1>4. BlocksTyped
  BY <1>2 DEF BlocksTyped
<1>5. LinesInv
  <2>1. \A c \in Chains : born[c].line = {Main} \cap {c}
    OBVIOUS
  <2>2. Living = {Main}
    BY <2>1 DEF Living
  <2> QED  BY <2>1, <2>2 DEF LinesInv
<1> QED  BY <1>3, <1>4, <1>5 DEF TypedInv

\* A chain acts that has begun.
LEMMA ActsEffect ==
  ASSUME ContextsTypeOK, NEW c \in Chains, Acts(c)
  PROVE  c \in Living /\ running' \in Chains \cup {None}
  BY DEF Acts, ContextsTypeOK

\* Chains that stay as they were, and so the lines.
LEMMA LinesStay ==
  ASSUME LinesInv, born' = born, \A c \in Chains \ Living : blocks'[c] = blocks[c] PROVE LinesInv' /\ Living' = Living
  BY DEF LinesInv, Living

LEMMA SpawnTyped ==
  ASSUME TypedInv, NEW c \in Chains, NEW d \in Chains, NEW copied \in BOOLEAN, Spawn(c, d, copied)
  PROVE  /\ TypedInv' /\ c \in Living /\ d \notin Living /\ Living' = Living \cup {d}
         /\ BirthView(c, copied) \in View
         /\ born'[d].line = {d} \cup (IF copied THEN born[c].line ELSE {})
         /\ born'[d].view = BirthView(c, copied)
         /\ \A e \in Chains : e # d => born'[e] = born[e]
         /\ UNCHANGED <<store, blocks, spans, tags, astray>>
         /\ store # "variable" => /\ view'[d] = BirthView(c, copied)
                                  /\ \A e \in Chains : e # d => view'[e] = view[e]
<1> USE DEF TypedInv
<1>1. /\ Acts(c) /\ d \notin Living /\ (copied \/ store = "contextvar")
      /\ born' = [born EXCEPT ![d] = [line |-> {d} \cup (IF copied THEN born[c].line ELSE {}),
                                      view |-> BirthView(c, copied)]]
      /\ view' = IF store = "variable" THEN view ELSE [view EXCEPT ![d] = BirthView(c, copied)]
      /\ UNCHANGED <<store, blocks, spans, tags, astray>>
  BY DEF Spawn
<1>2. c \in Living /\ running' \in Chains \cup {None}
  BY <1>1, ActsEffect
<1>3. BirthView(c, copied) \in View /\ (store # "contextvar" => BirthView(c, copied).bag # None)
  <2>1. CASE copied
    BY <2>1, ContextIsAChain DEF BirthView, ContextsTypeOK
  <2>2. CASE ~copied
    BY <1>1, <2>2, ContextsAssumption DEF BirthView, Empty, View, ContextsAssumption
  <2> QED  BY <2>1, <2>2
<1>4. {d} \cup (IF copied THEN born[c].line ELSE {}) \in SUBSET Chains
  BY DEF ContextsTypeOK
<1>5. ContextsTypeOK'
  <2>1. born' \in [Chains -> [line : SUBSET Chains, view : View]]
    BY <1>1, <1>3, <1>4 DEF ContextsTypeOK
  <2>2. view' \in [Chains -> View]
    BY <1>1, <1>3 DEF ContextsTypeOK
  <2>3. store # "contextvar" => \A e \in Chains : view'[e].bag # None
    BY <1>1, <1>3 DEF ContextsTypeOK
  <2> QED  BY <1>1, <1>2, <2>1, <2>2, <2>3 DEF ContextsTypeOK
<1>6. BlocksTyped'
  BY <1>1 DEF BlocksTyped
<1>7. /\ born'[d].line = {d} \cup (IF copied THEN born[c].line ELSE {})
      /\ born'[d].view = BirthView(c, copied) /\ \A e \in Chains : e # d => born'[e] = born[e]
  BY <1>1 DEF ContextsTypeOK
<1>8. Living' = Living \cup {d}
  BY <1>7 DEF Living
<1>9. LinesInv'
  <2>1. \A e \in Living' : e \in born'[e].line
    BY <1>7, <1>8 DEF LinesInv, Living
  <2>2. \A e \in Living' : born'[e].line \subseteq Living'
    BY <1>2, <1>7, <1>8 DEF LinesInv, Living
  <2> QED  BY <1>1, <1>8, <2>1, <2>2 DEF LinesInv
<1>10. store # "variable" => view'[d] = BirthView(c, copied) /\ \A e \in Chains : e # d => view'[e] = view[e]
  BY <1>1 DEF ContextsTypeOK
<1> QED  BY <1>1, <1>2, <1>3, <1>5, <1>6, <1>7, <1>8, <1>9, <1>10

\* What the two ways into a block have in common.
LEMMA EnterTyped ==
  ASSUME TypedInv, NEW c \in Chains, NEW kind \in {"span", "bag"}, NEW value,
         kind = "span" => value \in SpanNames, kind = "bag" => value \in Bags,
         Acts(c), Enter(c, kind, value), UNCHANGED <<store, born, astray>>,
         spans' \in [SpanNames -> [state : {"none", "open", "ended"}, by : Chains \cup {None},
                                   parent : SpanNames \cup {None}]],
         tags' \in [Bags -> SUBSET Chains]
  PROVE  TypedInv' /\ c \in Living /\ Living' = Living
<1> USE DEF TypedInv
<1>1. c \in Living /\ running' \in Chains \cup {None}
  BY ActsEffect
<1> DEFINE x == ContextOf(c)
           new == [kind |-> kind, own |-> value, was |-> view[x][kind], unwound |-> FALSE]
<1>2. /\ blocks'[c] = Append(blocks[c], new) /\ \A e \in Chains : e # c => blocks'[e] = blocks[e]
      /\ Len(blocks'[c]) <= MaxBlocks /\ new \in Block
      /\ BlocksTyped'
      /\ view' \in [Chains -> View] /\ \A e \in Chains : e # x => view'[e] = view[e]
      /\ kind = "span" => view'[x].span = value /\ view'[x].bag = view[x].bag
      /\ kind = "bag" => view'[x].bag = value /\ view'[x].span = view[x].span
  <2>1. kind = "span" => value \in SpanNames
    OBVIOUS
  <2>2. kind = "bag" => value \in Bags
    OBVIOUS
  <2> QED  BY <2>1, <2>2, EnterEffect
<1> HIDE DEF x, new
<1>3. ContextsTypeOK'
  <2>1. store' # "contextvar" => \A e \in Chains : view'[e].bag # None
    BY <1>2, ContextIsAChain, ContextsAssumption DEF ContextsTypeOK, ContextsAssumption, x
  <2>2. \A e \in Chains : Len(blocks'[e]) <= MaxBlocks /\ \A i \in DOMAIN blocks'[e] :
           blocks'[e][i] \in [kind : {"span", "bag"}, own : SpanNames \cup Bags,
                              was : SpanNames \cup Bags \cup {None}, unwound : BOOLEAN]
    <3>1. \A e \in Chains : Len(blocks'[e]) <= MaxBlocks
      BY <1>2 DEF ContextsTypeOK
    <3>2. \A e \in Chains : \A i \in DOMAIN blocks'[e] : blocks'[e][i] \in Block
      <4>1. \A e \in Chains : blocks'[e] \in Seq(Block)
        BY <1>2 DEF BlocksTyped
      <4> QED  BY <4>1, ElementOfSeq, LenProperties
    <3> QED  BY <3>1, <3>2 DEF Block, SpanBlock, BagBlock
  <2> QED  BY <1>1, <1>2, <2>1, <2>2 DEF ContextsTypeOK
<1>4. LinesInv' /\ Living' = Living
  <2>1. \A e \in Chains \ Living : blocks'[e] = blocks[e]
    BY <1>1, <1>2
  <2> QED  BY <2>1, LinesStay
<1> QED  BY <1>1, <1>2, <1>3, <1>4

LEMMA WithSpanTyped ==
  ASSUME TypedInv, NEW c \in Chains, NEW detached \in BOOLEAN, WithSpan(c, detached)
  PROVE  /\ TypedInv' /\ c \in Living /\ Living' = Living /\ NewSpan \in SpanNames
         /\ spans[NewSpan].state = "none"
         /\ spans'[NewSpan] = [state |-> "open", by |-> c, parent |-> ParentOf(c, detached)]
         /\ \A s \in SpanNames : s # NewSpan => spans'[s] = spans[s]
         /\ UNCHANGED <<store, born, tags, astray>> /\ Enter(c, "span", NewSpan)
<1>1. /\ Acts(c) /\ NewSpans # {} /\ Enter(c, "span", NewSpan) /\ UNCHANGED <<store, born, tags, astray>>
      /\ spans' = [spans EXCEPT ![NewSpan] = [state |-> "open", by |-> c, parent |-> ParentOf(c, detached)]]
  BY DEF WithSpan
<1>2. NewSpan \in SpanNames /\ spans[NewSpan].state = "none"
  BY <1>1, NewSpanIsNew
<1>3. ParentOf(c, detached) \in SpanNames \cup {None}
  BY ContextIsAChain, ViewFields DEF ParentOf, ActiveSpan, TypedInv, ContextsTypeOK
<1>4. spans' \in [SpanNames -> [state : {"none", "open", "ended"}, by : Chains \cup {None},
                                parent : SpanNames \cup {None}]]
  BY <1>1, <1>3 DEF TypedInv, ContextsTypeOK
<1>5. tags' \in [Bags -> SUBSET Chains]
  BY <1>1 DEF TypedInv, ContextsTypeOK
<1>6. TypedInv' /\ c \in Living /\ Living' = Living
  BY <1>1, <1>2, <1>4, <1>5, EnterTyped
<1>7. /\ spans'[NewSpan] = [state |-> "open", by |-> c, parent |-> ParentOf(c, detached)]
      /\ \A s \in SpanNames : s # NewSpan => spans'[s] = spans[s]
  BY <1>1, <1>2 DEF TypedInv, ContextsTypeOK
<1> QED  BY <1>1, <1>2, <1>6, <1>7

LEMMA WithScopeTyped ==
  ASSUME TypedInv, NEW c \in Chains, WithScope(c)
  PROVE  /\ TypedInv' /\ c \in Living /\ Living' = Living /\ FreshBags # {}
         /\ tags'[NewBag] = {} /\ \A b \in Bags : b # NewBag => tags'[b] = tags[b]
         /\ UNCHANGED <<store, born, spans, astray>> /\ Enter(c, "bag", NewBag)
<1>1. /\ Acts(c) /\ FreshBags # {} /\ Enter(c, "bag", NewBag) /\ UNCHANGED <<store, born, spans, astray>>
      /\ tags' = [tags EXCEPT ![NewBag] = {}]
  BY DEF WithScope
<1>2. NewBag \in Bags
  BY <1>1, NewBagIsFresh
<1>3. tags' \in [Bags -> SUBSET Chains]
  BY <1>1 DEF TypedInv, ContextsTypeOK
<1>4. spans' \in [SpanNames -> [state : {"none", "open", "ended"}, by : Chains \cup {None},
                                parent : SpanNames \cup {None}]]
  BY <1>1 DEF TypedInv, ContextsTypeOK
<1>5. TypedInv' /\ c \in Living /\ Living' = Living
  BY <1>1, <1>2, <1>3, <1>4, EnterTyped
<1>6. tags'[NewBag] = {} /\ \A b \in Bags : b # NewBag => tags'[b] = tags[b]
  BY <1>1, <1>2 DEF TypedInv, ContextsTypeOK
<1> QED  BY <1>1, <1>5, <1>6

\* Where a block that is left leads, and what is active there afterwards.
Leaver(c, d) == IF store = "contextvar" THEN d ELSE ContextOf(c)

Back(c, d, b) == IF store = "contextvar" /\ d # c THEN None ELSE b.was

LEMMA LeaveTyped ==
  ASSUME TypedInv, NEW c \in Chains, NEW d \in Chains, NEW i \in DOMAIN blocks[c], Leave(c, i, d)
  PROVE  LET b == blocks[c][i]
             x == Leaver(c, d)
             inner == {j \in i + 1 .. Len(blocks[c]) : blocks[c][j].kind = b.kind} IN
         /\ TypedInv' /\ c \in Living /\ d \in Living /\ Living' = Living
         /\ (i = Len(blocks[c]) /\ d = c) \/ store = "contextvar"
         /\ astray' = astray \cup (IF d # c \/ inner # {} THEN {c, d} ELSE {})
         /\ UNCHANGED <<store, born, tags>>
         /\ blocks'[c] = RemoveAt(blocks[c], i) /\ \A e \in Chains : e # c => blocks'[e] = blocks[e]
         /\ \A e \in Chains : e # x => view'[e] = view[e]
         /\ store # "variable" =>
              /\ b.kind = "span" => view'[x].span = Back(c, d, b) /\ view'[x].bag = view[x].bag
              /\ b.kind = "bag" => view'[x].bag = Back(c, d, b) /\ view'[x].span = view[x].span
         /\ \A s \in SpanNames : /\ spans'[s].by = spans[s].by /\ spans'[s].parent = spans[s].parent
                                 /\ spans[s].state # "none" => spans'[s].state # "none"
         /\ spans' # spans => b.kind = "span"
<1> USE DEF TypedInv
<1> DEFINE b == blocks[c][i]
           x == Leaver(c, d)
           v == Back(c, d, b)
           inner == {j \in i + 1 .. Len(blocks[c]) : blocks[c][j].kind = b.kind}
<1>1. /\ Acts(d) /\ c \in Living
      /\ (i = Len(blocks[c]) /\ d = c) \/ store = "contextvar"
      /\ view' = IF store = "contextvar" THEN Reset(c, d, b) ELSE Restored(c, b)
      /\ spans' = IF b.kind = "span" THEN [spans EXCEPT ![b.own].state = "ended"] ELSE spans
      /\ astray' = astray \cup (IF d # c \/ inner # {} THEN {c, d} ELSE {})
      /\ blocks' = [blocks EXCEPT ![c] = RemoveAt(@, i)]
      /\ UNCHANGED <<store, born, tags>>
  BY DEF Leave
<1>2. d \in Living /\ running' \in Chains \cup {None}
  BY <1>1, ActsEffect
<1>3. b \in Block /\ blocks[c] \in Seq(Block) /\ blocks \in [Chains -> Seq(Block)]
  <2>1. blocks[c] \in Seq(Block) /\ blocks \in [Chains -> Seq(Block)]
    BY DEF BlocksTyped
  <2> QED  BY <2>1, ElementOfSeq, LenProperties
<1>4. /\ b.kind = "span" => v \in SpanNames \cup {None}
      /\ b.kind = "bag" => v \in Bags \cup {None} /\ (store # "contextvar" => v # None)
      /\ b.kind \in {"span", "bag"} /\ (b.unwound => store = "variable")
      /\ b.kind = "span" => b.own \in SpanNames
  BY <1>3 DEF Back, Block, SpanBlock, BagBlock, BlocksTyped
<1>5. x \in Chains
  BY ContextIsAChain DEF Leaver
<1>6. \/ view' = [view EXCEPT ![x][b.kind] = v]
      \/ view' = view /\ store = "variable"
  BY <1>1, <1>4 DEF Reset, Restored, Leaver, Back
<1> HIDE DEF x, v
<1>7. /\ view' \in [Chains -> View] /\ \A e \in Chains : e # x => view'[e] = view[e]
      /\ view' = [view EXCEPT ![x][b.kind] = v] =>
           /\ b.kind = "span" => view'[x].span = v /\ view'[x].bag = view[x].bag
           /\ b.kind = "bag" => view'[x].bag = v /\ view'[x].span = view[x].span
  <2>1. view \in [Chains -> View]
    BY DEF ContextsTypeOK
  <2>2. CASE view' = [view EXCEPT ![x][b.kind] = v]
    <3> DEFINE k == b.kind
    <3>1. k \in {"span", "bag"}
      BY <1>4
    <3>3. k = "span" => v \in SpanNames \cup {None}
      BY <1>4
    <3>4. k = "bag" => v \in Bags \cup {None}
      BY <1>4
    <3>5. view' = [view EXCEPT ![x][k] = v]
      BY <2>2
    <3> HIDE DEF k, b
    <3>2. LET to == [view EXCEPT ![x][k] = v] IN
         /\ to \in [Chains -> View]
         /\ \A e \in Chains : e # x => to[e] = view[e]
         /\ k = "span" => to[x].span = v /\ to[x].bag = view[x].bag
         /\ k = "bag" => to[x].bag = v /\ to[x].span = view[x].span
      BY <1>5, <2>1, <3>1, <3>3, <3>4, ViewChanges
    <3> QED  BY <3>2, <3>5 DEF k
  <2>3. CASE view' = view /\ store = "variable" /\ view' # [view EXCEPT ![x][b.kind] = v]
    BY <2>1, <2>3
  <2> QED  BY <1>6, <2>2, <2>3
<1>8. store # "contextvar" => \A e \in Chains : view'[e].bag # None
  <2> SUFFICES ASSUME store # "contextvar", NEW e \in Chains PROVE view'[e].bag # None
    OBVIOUS
  <2>1. view[e].bag # None /\ view[x].bag # None
    BY <1>5 DEF ContextsTypeOK
  <2>2. CASE view' = view
    BY <2>1, <2>2
  <2>3. CASE view' = [view EXCEPT ![x][b.kind] = v]
    BY <1>4, <1>7, <2>1, <2>3
  <2> QED  BY <1>6, <2>2, <2>3
<1>9. /\ RemoveAt(blocks[c], i) \in Seq(Block) /\ Len(RemoveAt(blocks[c], i)) = Len(blocks[c]) - 1
      /\ \A n \in DOMAIN RemoveAt(blocks[c], i) :
            RemoveAt(blocks[c], i)[n] = blocks[c][IF n < i THEN n ELSE n + 1]
  BY <1>3, RemovedIsThere
<1>10. blocks'[c] = RemoveAt(blocks[c], i) /\ \A e \in Chains : e # c => blocks'[e] = blocks[e]
  BY <1>1, <1>3
<1>11. blocks' \in [Chains -> Seq(Block)]
  BY <1>1, <1>3, <1>9
<1>12. \A n \in DOMAIN blocks'[c] : (IF n < i THEN n ELSE n + 1) \in DOMAIN blocks[c]
  <2>1. Len(blocks[c]) \in Nat /\ DOMAIN blocks[c] = 1..Len(blocks[c])
    BY <1>3, LenProperties
  <2>2. DOMAIN blocks'[c] = 1..Len(blocks[c]) - 1
    BY <1>9, <1>10, LenProperties
  <2>3. i \in 1..Len(blocks[c])
    BY <2>1
  <2> QED  BY <2>1, <2>2, <2>3
<1>13. BlocksTyped'
  <2>1. ASSUME NEW e \in Chains, NEW n \in DOMAIN blocks'[e]
        PROVE  \E m \in DOMAIN blocks[e] : blocks'[e][n] = blocks[e][m]
    BY <1>9, <1>10, <1>12, <2>1
  <2> QED  BY <1>1, <1>11, <2>1 DEF BlocksTyped
<1>14. spans' \in [SpanNames -> [state : {"none", "open", "ended"}, by : Chains \cup {None},
                                 parent : SpanNames \cup {None}]]
       /\ (\A s \in SpanNames : /\ spans'[s].by = spans[s].by /\ spans'[s].parent = spans[s].parent
                                /\ spans[s].state # "none" => spans'[s].state # "none")
       /\ (spans' # spans => b.kind = "span")
  <2>1. spans \in [SpanNames -> [state : {"none", "open", "ended"}, by : Chains \cup {None},
                                 parent : SpanNames \cup {None}]]
    BY DEF ContextsTypeOK
  <2>2. CASE b.kind # "span"
    BY <1>1, <2>1, <2>2
  <2>3. CASE b.kind = "span"
    <3>1. b.own \in SpanNames /\ spans' = [spans EXCEPT ![b.own].state = "ended"]
      BY <1>1, <1>4, <2>3
    <3> HIDE DEF b
    <3> QED  BY <2>1, <2>3, <3>1
  <2> QED  BY <2>2, <2>3
<1>15. ContextsTypeOK'
  <2>1. \A e \in Chains : Len(blocks'[e]) <= MaxBlocks
    <3>1. Len(blocks[c]) \in Nat /\ Len(blocks[c]) <= MaxBlocks /\ MaxBlocks \in Nat
      BY <1>3, LenProperties, ContextsAssumption DEF ContextsTypeOK, ContextsAssumption
    <3>2. Len(blocks'[c]) <= MaxBlocks
      BY <1>9, <1>10, <3>1
    <3> QED  BY <1>10, <3>2 DEF ContextsTypeOK
  <2>2. \A e \in Chains : \A n \in DOMAIN blocks'[e] : blocks'[e][n] \in Block
    <3>1. \A e \in Chains : blocks'[e] \in Seq(Block)
      BY <1>11
    <3> QED  BY <3>1, ElementOfSeq, LenProperties
  <2>3. \A e \in Chains : \A n \in DOMAIN blocks'[e] :
           blocks'[e][n] \in [kind : {"span", "bag"}, own : SpanNames \cup Bags,
                              was : SpanNames \cup Bags \cup {None}, unwound : BOOLEAN]
    BY <2>2 DEF Block, SpanBlock, BagBlock
  <2>4. astray' \subseteq Chains
    BY <1>1 DEF ContextsTypeOK
  <2> QED  BY <1>1, <1>2, <1>7, <1>8, <1>14, <2>1, <2>3, <2>4 DEF ContextsTypeOK
<1>16. LinesInv' /\ Living' = Living
  <2>1. \A e \in Chains \ Living : blocks'[e] = blocks[e]
    BY <1>1, <1>10
  <2> QED  BY <1>1, <2>1, LinesStay
<1>17. store # "variable" =>
         /\ b.kind = "span" => view'[x].span = v /\ view'[x].bag = view[x].bag
         /\ b.kind = "bag" => view'[x].bag = v /\ view'[x].span = view[x].span
  BY <1>6, <1>7
<1> QED  BY <1>1, <1>2, <1>7, <1>10, <1>13, <1>14, <1>15, <1>16, <1>17 DEF x, v

LEMMA AwaitTyped == ASSUME TypedInv, NEW c \in Chains, Await(c) PROVE TypedInv' /\ store' = store /\ store = "variable"
<1> USE DEF TypedInv
<1> DEFINE held(k) == {i \in DOMAIN blocks[c] : blocks[c][i].kind = k /\ ~blocks[c][i].unwound}
           back(k) == IF held(k) = {} THEN view[Main][k] ELSE blocks[c][Min(held(k))].was
           unwind(q) == [i \in DOMAIN q |-> [q[i] EXCEPT !.unwound = TRUE]]
<1>1. /\ store = "variable" /\ running' = None
      /\ view' = [view EXCEPT ![Main] = [span |-> back("span"), bag |-> back("bag")]]
      /\ blocks' = [blocks EXCEPT ![c] = unwind(blocks[c])]
      /\ UNCHANGED <<store, born, spans, tags, astray>>
  BY DEF Await
<1>2. blocks \in [Chains -> Seq(Block)] /\ blocks[c] \in Seq(Block)
  BY DEF BlocksTyped
<1>3. DOMAIN blocks[c] = 1..Len(blocks[c]) /\ Len(blocks[c]) \in Nat
  BY <1>2, LenProperties
<1>4. \A i \in DOMAIN blocks[c] : blocks[c][i] \in Block
  BY <1>2, <1>3, ElementOfSeq
<1>5. \A k \in {"span", "bag"} : held(k) # {} => Min(held(k)) \in held(k)
  <2>1. \A k \in {"span", "bag"} : held(k) \in SUBSET Nat
    BY <1>3
  <2> HIDE DEF held
  <2> QED  BY <2>1, MinIsThere
<1>6. Main \in Chains /\ view[Main] \in View
  BY ContextsAssumption DEF ContextsAssumption, ContextsTypeOK
<1>7. back("span") \in SpanNames \cup {None}
  <2>1. CASE held("span") = {}
    BY <1>6, <2>1, ViewFields
  <2>2. CASE held("span") # {}
    BY <1>4, <1>5, <2>2 DEF Block, SpanBlock, BagBlock
  <2> QED  BY <2>1, <2>2
<1>8. back("bag") \in Bags /\ back("bag") # None
  <2>1. CASE held("bag") = {}
    BY <1>1, <1>6, <2>1, ViewFields DEF ContextsTypeOK
  <2>2. CASE held("bag") # {}
    BY <1>1, <1>4, <1>5, <2>2 DEF Block, SpanBlock, BagBlock, BlocksTyped
  <2> QED  BY <2>1, <2>2
<1> HIDE DEF back
<1>9. view' \in [Chains -> View] /\ \A e \in Chains : view'[e].bag # None
  <2>1. [span |-> back("span"), bag |-> back("bag")] \in View
    BY <1>7, <1>8 DEF View
  <2> QED  BY <1>1, <1>6, <1>8, <2>1 DEF ContextsTypeOK
<1>10. unwind(blocks[c]) \in Seq(Block) /\ Len(unwind(blocks[c])) = Len(blocks[c])
       /\ \A i \in DOMAIN blocks[c] : unwind(blocks[c])[i].was = blocks[c][i].was
  <2>1. \A i \in 1..Len(blocks[c]) : [blocks[c][i] EXCEPT !.unwound = TRUE] \in Block
    BY <1>3, <1>4 DEF Block, SpanBlock, BagBlock
  <2>2. \A i \in 1..Len(blocks[c]) : [blocks[c][i] EXCEPT !.unwound = TRUE].was = blocks[c][i].was
    BY <1>3, <1>4 DEF Block, SpanBlock, BagBlock
  <2>3. unwind(blocks[c]) = [i \in 1..Len(blocks[c]) |-> [blocks[c][i] EXCEPT !.unwound = TRUE]]
    BY <1>3
  <2>4. unwind(blocks[c]) \in [1..Len(blocks[c]) -> Block]
    BY <2>1, <2>3
  <2> HIDE DEF unwind
  <2>5. unwind(blocks[c]) \in Seq(Block)
    BY <1>3, <2>4, IsASeq
  <2>6. Len(unwind(blocks[c])) = Len(blocks[c])
    BY <1>3, <2>4, <2>5, LenProperties
  <2> QED  BY <1>3, <2>2, <2>3, <2>5, <2>6
<1>12. \A i \in DOMAIN blocks[c] : unwind(blocks[c])[i].kind = blocks[c][i].kind
  BY <1>3, <1>4 DEF Block, SpanBlock, BagBlock
<1> HIDE DEF unwind
<1>11. blocks'[c] = unwind(blocks[c]) /\ \A e \in Chains : e # c => blocks'[e] = blocks[e]
  BY <1>1, <1>2
<1>13. blocks' \in [Chains -> Seq(Block)] /\ DOMAIN blocks'[c] = DOMAIN blocks[c]
  BY <1>1, <1>2, <1>3, <1>10, <1>11, LenProperties
<1>14. BlocksTyped'
  <2>1. \A i \in DOMAIN blocks'[c] : blocks'[c][i].kind = "bag" => blocks'[c][i].was # None
    BY <1>1, <1>10, <1>11, <1>12, <1>13 DEF BlocksTyped
  <2> QED  BY <1>1, <1>11, <1>13, <2>1 DEF BlocksTyped
<1>15. ContextsTypeOK'
  <2>1. \A e \in Chains : Len(blocks'[e]) <= MaxBlocks
    BY <1>10, <1>11 DEF ContextsTypeOK
  <2>2. \A e \in Chains : \A n \in DOMAIN blocks'[e] : blocks'[e][n] \in Block
    <3>1. \A e \in Chains : blocks'[e] \in Seq(Block)
      BY <1>13
    <3> QED  BY <3>1, ElementOfSeq, LenProperties
  <2>3. \A e \in Chains : \A n \in DOMAIN blocks'[e] :
           blocks'[e][n] \in [kind : {"span", "bag"}, own : SpanNames \cup Bags,
                              was : SpanNames \cup Bags \cup {None}, unwound : BOOLEAN]
    BY <2>2 DEF Block, SpanBlock, BagBlock
  <2> QED  BY <1>1, <1>9, <2>1, <2>3 DEF ContextsTypeOK
<1>16. LinesInv'
  <2>1. \A e \in Chains \ Living : blocks'[e] = blocks[e]
    <3>1. ASSUME c \notin Living PROVE blocks'[c] = blocks[c]
      <4>1. blocks[c] = <<>>
        BY <3>1 DEF LinesInv
      <4>2. blocks'[c] \in Seq(Block) /\ DOMAIN blocks'[c] = {}
        BY <1>13, <4>1
      <4>3. Len(blocks'[c]) = 0
        BY <1>10, <1>11, <4>1
      <4> QED  BY <4>1, <4>2, <4>3, EmptySeq
    <3> QED  BY <1>11, <3>1
  <2> QED  BY <1>1, <2>1, LinesStay
<1> QED  BY <1>1, <1>14, <1>15, <1>16

LEMMA TouchTyped ==
  ASSUME TypedInv, NEW c \in Chains, NEW sets \in BOOLEAN, Touch(c, sets)
  PROVE  LET b == ScopeOf(c) IN
         /\ TypedInv' /\ c \in Living /\ Living' = Living
         /\ b \in Bags /\ (ActiveBag(c) # None => b = ActiveBag(c))
         /\ ActiveBag(c) = None => b = NewBag /\ FreshBags # {}
         /\ UNCHANGED <<store, blocks, born, spans, astray>>
         /\ \A e \in Chains : e # ContextOf(c) => view'[e] = view[e]
         /\ view'[ContextOf(c)].bag = b /\ view'[ContextOf(c)].span = view[ContextOf(c)].span
         /\ tags'[b] = Tagged(b, c, sets) /\ \A a \in Bags : a # b => tags'[a] = tags[a]
<1> USE DEF TypedInv
<1> DEFINE b == ScopeOf(c)
           x == ContextOf(c)
<1>1. /\ Acts(c) /\ (ActiveBag(c) = None => FreshBags # {})
      /\ view' = [view EXCEPT ![x].bag = b]
      /\ tags' = [tags EXCEPT ![b] = Tagged(b, c, sets)]
      /\ UNCHANGED <<store, blocks, born, spans, astray>>
  BY DEF Touch
<1>2. c \in Living /\ running' \in Chains \cup {None}
  BY <1>1, ActsEffect
<1>3. x \in Chains /\ view[x] \in View /\ view[x].bag \in Bags \cup {None} /\ view \in [Chains -> View]
  BY ContextIsAChain, ViewFields DEF ContextsTypeOK
<1>4. /\ b \in Bags /\ b # None /\ (ActiveBag(c) # None => b = ActiveBag(c))
      /\ (ActiveBag(c) = None => b = NewBag)
  BY <1>1, <1>3, NewBagIsFresh, ContextsAssumption DEF ScopeOf, ActiveBag, ContextsAssumption
<1> HIDE DEF b, x
<1>5. Tagged(b, c, sets) \subseteq Chains
  BY <1>4 DEF Tagged, ContextsTypeOK
<1>6. /\ view' \in [Chains -> View] /\ \A e \in Chains : e # x => view'[e] = view[e]
      /\ view'[x].bag = b /\ view'[x].span = view[x].span
  BY <1>1, <1>3, <1>4 DEF View
<1>7. /\ tags' \in [Bags -> SUBSET Chains] /\ tags'[b] = Tagged(b, c, sets)
      /\ \A a \in Bags : a # b => tags'[a] = tags[a]
  BY <1>1, <1>4, <1>5 DEF ContextsTypeOK
<1>8. ContextsTypeOK'
  <2>1. store # "contextvar" => \A e \in Chains : view'[e].bag # None
    BY <1>4, <1>6 DEF ContextsTypeOK
  <2> QED  BY <1>1, <1>2, <1>6, <1>7, <2>1 DEF ContextsTypeOK
<1>9. BlocksTyped'
  BY <1>1 DEF BlocksTyped
<1>10. LinesInv' /\ Living' = Living
  BY <1>1, LinesStay
<1> QED  BY <1>1, <1>2, <1>4, <1>6, <1>7, <1>8, <1>9, <1>10 DEF b, x

-----------------------------------------------------------------------------
\* Spans and bags that a chain may still make active, and the bags it entered.
HoldsSpan(c, s) ==
  \/ s = view[c].span \/ s = born[c].view.span
  \/ \E i \in DOMAIN blocks[c] : blocks[c][i].kind = "span" /\ (s = blocks[c][i].own \/ s = blocks[c][i].was)

HoldsBag(c, b) ==
  \/ b = view[c].bag \/ b = born[c].view.bag
  \/ \E i \in DOMAIN blocks[c] : blocks[c][i].kind = "bag" /\ (b = blocks[c][i].own \/ b = blocks[c][i].was)

Entered(c, b) == \E i \in DOMAIN blocks[c] : blocks[c][i].kind = "bag" /\ b = blocks[c][i].own

Meet(c, d) == born[c].line \cap born[d].line # {}

\* A chain holds no span but one of its line, and no span has another parent.
SpansOfLine ==
  /\ \A c \in Living, s \in SpanNames :
       HoldsSpan(c, s) => spans[s].state # "none" /\ spans[s].by \in born[c].line
  /\ \A s \in SpanNames : spans[s].state # "none" => spans[s].by \in Living
  /\ \A s \in SpanNames : spans[s].parent # None =>
       /\ spans[s].state # "none" /\ spans[spans[s].parent].state # "none"
       /\ spans[spans[s].parent].by \in born[spans[s].by].line

\* Chains that hold the same bag, or their tags in one, have an ancestor in
\* common; a bag that was entered is held inside only.
BagsOfLine ==
  /\ \A c, e \in Living, b \in Bags : HoldsBag(c, b) /\ HoldsBag(e, b) => Meet(c, e)
  /\ \A c \in Living, b \in Bags : HoldsBag(c, b) => \A d \in tags[b] : Meet(d, c)
  /\ \A c, e \in Living, b \in Bags : Entered(c, b) /\ HoldsBag(e, b) => c \in born[e].line
  /\ \A c \in Living, b \in Bags : Entered(c, b) => \A d \in tags[b] : c \in born[d].line
  /\ \A b \in Bags : tags[b] \subseteq Living

LEMMA SpansInitOfLine == ContextsInit => SpansOfLine
<1> SUFFICES ASSUME ContextsInit PROVE SpansOfLine
  OBVIOUS
<1> USE ContextsAssumption DEF ContextsInit, ContextsAssumption
<1>1. \A c \in Chains : /\ view[c].span = None /\ born[c].view.span = None /\ DOMAIN blocks[c] = {}
  BY DEF Empty
<1>2. \A s \in SpanNames : spans[s].state = "none" /\ spans[s].parent = None
  OBVIOUS
<1>3. \A c \in Living, s \in SpanNames : ~HoldsSpan(c, s)
  BY <1>1 DEF HoldsSpan, Living
<1> QED  BY <1>2, <1>3 DEF SpansOfLine

LEMMA BagsInitOfLine == ContextsInit => BagsOfLine
<1> SUFFICES ASSUME ContextsInit PROVE BagsOfLine
  OBVIOUS
<1> USE DEF ContextsInit
<1>1. \A c \in Living : c = Main /\ born[c].line = {Main} /\ DOMAIN blocks[c] = {}
  BY DEF Living
<1>2. \A b \in Bags : tags[b] = {}
  OBVIOUS
<1> QED  BY <1>1, <1>2 DEF BagsOfLine, Meet, Entered

\* A chain that begins holds what its creator had active, if anything.
LEMMA SpawnKeepsLines ==
  ASSUME TypedInv, SpansOfLine, BagsOfLine, store # "variable",
         NEW c \in Chains, NEW d \in Chains, NEW copied \in BOOLEAN, Spawn(c, d, copied)
  PROVE  SpansOfLine' /\ BagsOfLine'
<1>1. /\ TypedInv' /\ c \in Living /\ d \notin Living /\ Living' = Living \cup {d}
      /\ born'[d].line = {d} \cup (IF copied THEN born[c].line ELSE {})
      /\ born'[d].view = BirthView(c, copied) /\ view'[d] = BirthView(c, copied)
      /\ \A e \in Chains : e # d => born'[e] = born[e] /\ view'[e] = view[e]
      /\ UNCHANGED <<store, blocks, spans, tags, astray>>
  BY SpawnTyped
<1>0. copied \/ store = "contextvar"
  BY DEF Spawn
<1>2. BirthView(c, copied) = IF copied THEN view[c] ELSE Empty
  BY DEF BirthView, ContextOf
<1>3. Living \subseteq Chains /\ blocks[d] = <<>>
  BY <1>1 DEF Living, TypedInv, LinesInv
<1>4. \A e \in Living, s \in SpanNames : HoldsSpan(e, s)' <=> HoldsSpan(e, s)
  BY <1>1, <1>3 DEF HoldsSpan
<1>5. \A e \in Living, b \in Bags : (HoldsBag(e, b)' <=> HoldsBag(e, b)) /\ (Entered(e, b)' <=> Entered(e, b))
  BY <1>1, <1>3 DEF HoldsBag, Entered
<1>6. \A s \in SpanNames : HoldsSpan(d, s)' => copied /\ HoldsSpan(c, s)
  <2>1. DOMAIN blocks'[d] = {}
    BY <1>1, <1>3
  <2>2. ~copied => BirthView(c, copied).span = None
    BY <1>2 DEF Empty
  <2> QED  BY <1>1, <1>2, <2>1, <2>2, ContextsAssumption DEF HoldsSpan, ContextsAssumption
<1>7. \A b \in Bags : (HoldsBag(d, b)' => copied /\ HoldsBag(c, b)) /\ ~Entered(d, b)'
  <2>1. DOMAIN blocks'[d] = {}
    BY <1>1, <1>3
  <2>2. ~copied => BirthView(c, copied).bag = None
    BY <1>0, <1>2 DEF Empty
  <2> QED  BY <1>1, <1>2, <2>1, <2>2, ContextsAssumption DEF HoldsBag, Entered, ContextsAssumption
<1>8. /\ \A e \in Living : born'[e].line = born[e].line
      /\ copied => born[c].line \subseteq born'[d].line
      /\ d \in born'[d].line
  BY <1>1, <1>3
<1>9. SpansOfLine'
  <2>1. \A e \in Living', s \in SpanNames :
          HoldsSpan(e, s)' => spans'[s].state # "none" /\ spans'[s].by \in born'[e].line
    BY <1>1, <1>4, <1>6, <1>8 DEF SpansOfLine
  <2>2. \A s \in SpanNames : spans'[s].state # "none" => spans'[s].by \in Living /\ spans'[s].by \in Living'
    BY <1>1 DEF SpansOfLine
  <2>3. \A s \in SpanNames : spans'[s].parent # None =>
          /\ spans'[s].state # "none" /\ spans'[spans'[s].parent].state # "none"
          /\ spans'[spans'[s].parent].by \in born'[spans'[s].by].line
    BY <1>1, <1>8, <2>2 DEF SpansOfLine
  <2> QED  BY <2>1, <2>2, <2>3 DEF SpansOfLine
<1>10. BagsOfLine'
  <2>1. \A e, f \in Living : Meet(e, f)' <=> Meet(e, f)
    BY <1>8 DEF Meet
  <2>2. \A e \in Living : copied /\ Meet(c, e) => Meet(d, e)' /\ Meet(e, d)'
    BY <1>8 DEF Meet
  <2>3. Meet(d, d)'
    BY <1>8 DEF Meet
  <2>4. \A e, f \in Living : Meet(e, f) => Meet(f, e)
    BY DEF Meet
  <2>5. \A e, f \in Living', b \in Bags : HoldsBag(e, b)' /\ HoldsBag(f, b)' => Meet(e, f)'
    BY <1>1, <1>5, <1>7, <2>1, <2>2, <2>3, <2>4 DEF BagsOfLine
  <2>6. \A b \in Bags : tags'[b] = tags[b] /\ tags[b] \subseteq Living
    BY <1>1 DEF BagsOfLine
  <2>7. \A e \in Living', b \in Bags : HoldsBag(e, b)' => \A f \in tags'[b] : Meet(f, e)'
    BY <1>1, <1>5, <1>7, <2>1, <2>2, <2>4, <2>6 DEF BagsOfLine
  <2>8. \A e, f \in Living', b \in Bags : Entered(e, b)' /\ HoldsBag(f, b)' => e \in born'[f].line
    BY <1>1, <1>5, <1>7, <1>8 DEF BagsOfLine
  <2>9. \A e \in Living', b \in Bags : Entered(e, b)' => \A f \in tags'[b] : e \in born'[f].line
    BY <1>1, <1>5, <1>7, <1>8, <2>6 DEF BagsOfLine
  <2> QED  BY <1>1, <2>5, <2>6, <2>7, <2>8, <2>9 DEF BagsOfLine
<1> QED  BY <1>9, <1>10

\* Of the chains that were there only c comes to hold a span, and it is its own.
LEMMA SpansKept ==
  ASSUME SpansOfLine, born' = born, Living' = Living, Living \subseteq Chains,
         \A e \in Living, s \in SpanNames :
            HoldsSpan(e, s)' => \/ HoldsSpan(e, s)
                                \/ /\ spans[s].state = "none" /\ spans'[s].state # "none"
                                   /\ spans'[s].by = e /\ e \in born[e].line,
         \A s \in SpanNames :
            \/ /\ spans'[s].by = spans[s].by /\ spans'[s].parent = spans[s].parent
               /\ spans[s].state # "none" => spans'[s].state # "none"
               /\ spans'[s].state # "none" => spans[s].state # "none"
            \/ /\ spans[s].state = "none" /\ spans'[s].state # "none" /\ spans'[s].by \in Living
               /\ spans'[s].parent # None => /\ spans'[s].parent \in SpanNames
                                             /\ HoldsSpan(spans'[s].by, spans'[s].parent),

         \A s \in SpanNames : spans[s].parent # None => spans[s].parent \in SpanNames
  PROVE  SpansOfLine'
<1>1. \A s \in SpanNames : spans[s].state # "none" =>
         spans'[s].by = spans[s].by /\ spans'[s].state # "none" /\ spans'[s].parent = spans[s].parent
  OBVIOUS
<1>2. \A e \in Living, s \in SpanNames :
        HoldsSpan(e, s)' => spans'[s].state # "none" /\ spans'[s].by \in born'[e].line
  <2> SUFFICES ASSUME NEW e \in Living, NEW s \in SpanNames, HoldsSpan(e, s)'
               PROVE  spans'[s].state # "none" /\ spans'[s].by \in born'[e].line
    OBVIOUS
  <2>1. CASE HoldsSpan(e, s)
    BY <1>1, <2>1 DEF SpansOfLine
  <2>2. CASE spans[s].state = "none" /\ spans'[s].by = e /\ e \in born[e].line /\ spans'[s].state # "none"
    BY <2>2
  <2> QED  BY <2>1, <2>2
<1> QED  BY <1>1, <1>2 DEF SpansOfLine

\* A block that is entered: what it holds is new or was active.
LEMMA EnterHolds ==
  ASSUME TypedInv, NEW c \in Chains, NEW kind \in {"span", "bag"}, NEW value,
         kind = "span" => value \in SpanNames, kind = "bag" => value \in Bags,
         Enter(c, kind, value), UNCHANGED <<store, born>>, store # "variable"
  PROVE  /\ \A e \in Chains, s \in SpanNames :
              HoldsSpan(e, s)' => HoldsSpan(e, s) \/ (e = c /\ kind = "span" /\ s = value)
         /\ \A e \in Chains, b \in Bags :
              /\ HoldsBag(e, b)' => HoldsBag(e, b) \/ (e = c /\ kind = "bag" /\ b = value)
              /\ Entered(e, b)' => Entered(e, b) \/ (e = c /\ kind = "bag" /\ b = value)
<1> DEFINE new == [kind |-> kind, own |-> value, was |-> view[c][kind], unwound |-> FALSE]
<1>1. ContextOf(c) = c /\ view[c] \in View
  BY DEF ContextOf, TypedInv, ContextsTypeOK
<1>2. /\ blocks'[c] = Append(blocks[c], new) /\ \A e \in Chains : e # c => blocks'[e] = blocks[e]
      /\ new \in Block
      /\ \A e \in Chains : e # c => view'[e] = view[e]
      /\ kind = "span" => view'[c].span = value /\ view'[c].bag = view[c].bag
      /\ kind = "bag" => view'[c].bag = value /\ view'[c].span = view[c].span
  <2>1. kind = "span" => value \in SpanNames
    OBVIOUS
  <2>2. kind = "bag" => value \in Bags
    OBVIOUS
  <2> QED  BY <1>1, <2>1, <2>2, EnterEffect DEF TypedInv
<1>3. blocks[c] \in Seq(Block)
  BY DEF TypedInv, BlocksTyped
<1>4. /\ new.kind = kind /\ new.own = value
      /\ kind = "span" => new.was = view[c].span
      /\ kind = "bag" => new.was = view[c].bag
  BY <1>1, ViewFields
<1> HIDE DEF new
<1>5. /\ DOMAIN blocks'[c] = 1..Len(blocks[c]) + 1 /\ DOMAIN blocks[c] = 1..Len(blocks[c]) /\ Len(blocks[c]) \in Nat
      /\ \A i \in 1..Len(blocks[c]) : blocks'[c][i] = blocks[c][i]
      /\ blocks'[c][Len(blocks[c]) + 1] = new
  BY <1>2, <1>3, AppendProperties, LenProperties
<1>6. \A i \in DOMAIN blocks'[c] : (i \in DOMAIN blocks[c] /\ blocks'[c][i] = blocks[c][i]) \/ blocks'[c][i] = new
  BY <1>5
<1>7. ASSUME NEW e \in Chains, NEW s \in SpanNames, HoldsSpan(e, s)'
      PROVE  HoldsSpan(e, s) \/ (e = c /\ kind = "span" /\ s = value)
  <2>1. CASE e # c
    BY <1>2, <1>7, <2>1 DEF HoldsSpan
  <2>2. CASE e = c
    <3>1. CASE s = view'[c].span \/ s = born[c].view.span
      BY <1>2, <2>2, <3>1 DEF HoldsSpan
    <3>2. CASE \E i \in DOMAIN blocks'[c] :
                 blocks'[c][i].kind = "span" /\ (s = blocks'[c][i].own \/ s = blocks'[c][i].was)
      BY <1>4, <1>6, <2>2, <3>2 DEF HoldsSpan
    <3> QED  BY <1>7, <2>2, <3>1, <3>2 DEF HoldsSpan
  <2> QED  BY <2>1, <2>2
<1>8. ASSUME NEW e \in Chains, NEW b \in Bags, HoldsBag(e, b)'
      PROVE  HoldsBag(e, b) \/ (e = c /\ kind = "bag" /\ b = value)
  <2>1. CASE e # c
    BY <1>2, <1>8, <2>1 DEF HoldsBag
  <2>2. CASE e = c
    <3>1. CASE b = view'[c].bag \/ b = born[c].view.bag
      BY <1>2, <2>2, <3>1 DEF HoldsBag
    <3>2. CASE \E i \in DOMAIN blocks'[c] :
                 blocks'[c][i].kind = "bag" /\ (b = blocks'[c][i].own \/ b = blocks'[c][i].was)
      BY <1>4, <1>6, <2>2, <3>2 DEF HoldsBag
    <3> QED  BY <1>8, <2>2, <3>1, <3>2 DEF HoldsBag
  <2> QED  BY <2>1, <2>2
<1>9. ASSUME NEW e \in Chains, NEW b \in Bags, Entered(e, b)'
      PROVE  Entered(e, b) \/ (e = c /\ kind = "bag" /\ b = value)
  <2>1. CASE e # c
    BY <1>2, <1>9, <2>1 DEF Entered
  <2>2. CASE e = c
    BY <1>4, <1>6, <1>9, <2>2 DEF Entered
  <2> QED  BY <2>1, <2>2
<1> QED  BY <1>7, <1>8, <1>9

\* A block that is left: nobody comes to hold anything.
LEMMA LeaveHolds ==
  ASSUME TypedInv, NEW c \in Chains, NEW d \in Chains, NEW i \in DOMAIN blocks[c], Leave(c, i, d), store # "variable"
  PROVE  /\ \A e \in Chains, s \in SpanNames : HoldsSpan(e, s)' => HoldsSpan(e, s)
         /\ \A e \in Chains, b \in Bags : /\ HoldsBag(e, b)' => HoldsBag(e, b)
                                          /\ Entered(e, b)' => Entered(e, b)
<1> DEFINE b == blocks[c][i]
           x == Leaver(c, d)
<1>1. /\ UNCHANGED <<store, born>>
      /\ (i = Len(blocks[c]) /\ d = c) \/ store = "contextvar"
      /\ blocks'[c] = RemoveAt(blocks[c], i) /\ \A e \in Chains : e # c => blocks'[e] = blocks[e]
      /\ \A e \in Chains : e # x => view'[e] = view[e]
      /\ b.kind = "span" => view'[x].span = Back(c, d, b) /\ view'[x].bag = view[x].bag
      /\ b.kind = "bag" => view'[x].bag = Back(c, d, b) /\ view'[x].span = view[x].span
  BY LeaveTyped
<1>2. x \in Chains /\ (x = c \/ (store = "contextvar" /\ d # c /\ Back(c, d, b) = None))
  BY <1>1 DEF Leaver, Back, ContextOf
<1>3. Back(c, d, b) = None \/ (x = c /\ Back(c, d, b) = b.was)
  BY <1>2 DEF Back
<1>4. blocks[c] \in Seq(Block)
  BY DEF TypedInv, BlocksTyped
<1>5. b.kind \in {"span", "bag"}
  <2>1. b \in Block
    BY <1>4, ElementOfSeq, LenProperties
  <2> QED  BY <2>1 DEF Block, SpanBlock, BagBlock
<1>6. \A n \in DOMAIN blocks'[c] : \E m \in DOMAIN blocks[c] : blocks'[c][n] = blocks[c][m]
  <2>1. /\ RemoveAt(blocks[c], i) \in Seq(Block) /\ Len(RemoveAt(blocks[c], i)) = Len(blocks[c]) - 1
        /\ \A n \in DOMAIN RemoveAt(blocks[c], i) :
              RemoveAt(blocks[c], i)[n] = blocks[c][IF n < i THEN n ELSE n + 1]
    BY <1>4, RemovedIsThere
  <2>2. Len(blocks[c]) \in Nat /\ DOMAIN blocks[c] = 1..Len(blocks[c])
    BY <1>4, LenProperties
  <2>3. DOMAIN blocks'[c] = 1..Len(blocks[c]) - 1
    BY <1>1, <2>1, LenProperties
  <2>4. i \in 1..Len(blocks[c])
    BY <2>2
  <2>5. \A n \in DOMAIN blocks'[c] : (IF n < i THEN n ELSE n + 1) \in DOMAIN blocks[c]
    BY <2>2, <2>3, <2>4
  <2> QED  BY <1>1, <2>1, <2>5
<1>7. \A e \in Chains : \A n \in DOMAIN blocks'[e] : \E m \in DOMAIN blocks[e] : blocks'[e][n] = blocks[e][m]
  BY <1>1, <1>6
<1> HIDE DEF x
<1>8. ASSUME NEW e \in Chains, NEW s \in SpanNames, HoldsSpan(e, s)' PROVE HoldsSpan(e, s)
  <2>1. s # None
    BY ContextsAssumption DEF ContextsAssumption
  <2>2. CASE s = view'[e].span
    <3>1. CASE e = x /\ b.kind = "span"
      BY <1>1, <1>3, <2>1, <2>2, <3>1 DEF HoldsSpan
    <3>2. CASE e # x \/ b.kind # "span"
      BY <1>1, <1>5, <2>2, <3>2 DEF HoldsSpan
    <3> QED  BY <3>1, <3>2
  <2>3. CASE s = born'[e].view.span
    BY <1>1, <2>3 DEF HoldsSpan
  <2>4. CASE \E n \in DOMAIN blocks'[e] :
               blocks'[e][n].kind = "span" /\ (s = blocks'[e][n].own \/ s = blocks'[e][n].was)
    BY <1>7, <2>4 DEF HoldsSpan
  <2> QED  BY <1>8, <2>2, <2>3, <2>4 DEF HoldsSpan
<1>9. ASSUME NEW e \in Chains, NEW g \in Bags, HoldsBag(e, g)' PROVE HoldsBag(e, g)
  <2>1. g # None
    BY ContextsAssumption DEF ContextsAssumption
  <2>2. CASE g = view'[e].bag
    <3>1. CASE e = x /\ b.kind = "bag"
      BY <1>1, <1>3, <2>1, <2>2, <3>1 DEF HoldsBag
    <3>2. CASE e # x \/ b.kind # "bag"
      BY <1>1, <1>5, <2>2, <3>2 DEF HoldsBag
    <3> QED  BY <3>1, <3>2
  <2>3. CASE g = born'[e].view.bag
    BY <1>1, <2>3 DEF HoldsBag
  <2>4. CASE \E n \in DOMAIN blocks'[e] :
               blocks'[e][n].kind = "bag" /\ (g = blocks'[e][n].own \/ g = blocks'[e][n].was)
    BY <1>7, <2>4 DEF HoldsBag
  <2> QED  BY <1>9, <2>2, <2>3, <2>4 DEF HoldsBag
<1>10. ASSUME NEW e \in Chains, NEW g \in Bags, Entered(e, g)' PROVE Entered(e, g)
  BY <1>7, <1>10 DEF Entered
<1> QED  BY <1>8, <1>9, <1>10

LEMMA FreshIsUnheld ==
  ASSUME FreshBags # {} PROVE \A e \in Chains : ~HoldsBag(e, NewBag) /\ ~Entered(e, NewBag)
<1>1. \A e \in Chains : NewBag \notin Held(e)
  BY NewBagIsFresh
<1> QED  BY <1>1 DEF Held, HoldsBag, Entered

\* A tag that is set, or a capture: only a bag that is made comes to be held.
LEMMA TouchHolds ==
  ASSUME TypedInv, NEW c \in Chains, NEW sets \in BOOLEAN, Touch(c, sets), store # "variable"
  PROVE  LET b == ScopeOf(c) IN
         /\ \A e \in Chains, s \in SpanNames : HoldsSpan(e, s)' => HoldsSpan(e, s)
         /\ \A e \in Chains, g \in Bags : /\ HoldsBag(e, g)' => HoldsBag(e, g) \/ (e = c /\ g = b)
                                          /\ Entered(e, g)' => Entered(e, g)
         /\ \/ HoldsBag(c, b) /\ tags'[b] \subseteq tags[b] \cup {c}
            \/ (\A e \in Chains : ~HoldsBag(e, b)) /\ tags'[b] \subseteq {c}
<1> DEFINE b == ScopeOf(c)
<1>1. ContextOf(c) = c /\ ActiveBag(c) = view[c].bag
  BY DEF ContextOf, ActiveBag
<1>2. /\ b \in Bags /\ (view[c].bag # None => b = view[c].bag)
      /\ view[c].bag = None => b = NewBag /\ FreshBags # {}
      /\ UNCHANGED <<store, blocks, born, spans>>
      /\ \A e \in Chains : e # c => view'[e] = view[e]
      /\ view'[c].bag = b /\ view'[c].span = view[c].span
      /\ tags'[b] = Tagged(b, c, sets)
  BY <1>1, TouchTyped
<1> HIDE DEF b
<1>3. \A e \in Chains, s \in SpanNames : HoldsSpan(e, s)' => HoldsSpan(e, s)
  BY <1>2 DEF HoldsSpan
<1>4. \A e \in Chains, g \in Bags : /\ HoldsBag(e, g)' => HoldsBag(e, g) \/ (e = c /\ g = b)
                                    /\ Entered(e, g)' => Entered(e, g)
  BY <1>2 DEF HoldsBag, Entered
<1>5. CASE view[c].bag # None
  <2>1. HoldsBag(c, b)
    BY <1>2, <1>5 DEF HoldsBag
  <2>2. b \notin FreshBags
    BY <1>2, <1>5 DEF FreshBags, Held
  <2>3. tags'[b] \subseteq tags[b] \cup {c}
    BY <1>2, <2>2 DEF Tagged
  <2> QED  BY <1>3, <1>4, <2>1, <2>3 DEF b
<1>6. CASE view[c].bag = None
  <2>1. b \in FreshBags /\ \A e \in Chains : ~HoldsBag(e, b)
    BY <1>2, <1>6, NewBagIsFresh, FreshIsUnheld
  <2>2. tags'[b] \subseteq {c}
    BY <1>2, <2>1 DEF Tagged
  <2> QED  BY <1>3, <1>4, <2>1, <2>2 DEF b
<1> QED  BY <1>5, <1>6

\* Only c comes to hold a bag it did not hold, one that nobody did; tags are
\* added to a bag that c holds.
LEMMA BagsKept ==
  ASSUME BagsOfLine, LinesInv, born' = born, Living' = Living, Living \subseteq Chains,
         NEW c \in Living, NEW b \in Bags,
         \A e \in Chains, g \in Bags :
            /\ HoldsBag(e, g)' => HoldsBag(e, g) \/ (e = c /\ g = b)
            /\ Entered(e, g)' => Entered(e, g) \/ (e = c /\ g = b),
         \A g \in Bags : g # b => tags'[g] = tags[g],
         \/ /\ HoldsBag(c, b) /\ (Entered(c, b)' => Entered(c, b)) /\ tags'[b] \subseteq tags[b] \cup {c}
         \/ (\A e \in Chains : ~HoldsBag(e, b)) /\ tags'[b] \subseteq {c}
  PROVE  BagsOfLine'
<1>1. /\ \A e, f : Meet(e, f)' <=> Meet(e, f)
      /\ \A e, f : Meet(e, f) => Meet(f, e)
      /\ c \in born[c].line /\ Meet(c, c)
  BY DEF Meet, LinesInv
<1>2. \A e \in Chains, g \in Bags : Entered(e, g) => HoldsBag(e, g)
  BY DEF Entered, HoldsBag
<1>3. CASE HoldsBag(c, b) /\ (Entered(c, b)' => Entered(c, b)) /\ tags'[b] \subseteq tags[b] \cup {c}
  <2>1. \A e \in Living, g \in Bags : /\ HoldsBag(e, g)' => HoldsBag(e, g)
                                      /\ Entered(e, g)' => Entered(e, g)
                                      /\ tags'[g] \subseteq tags[g] \cup (IF g = b THEN {c} ELSE {})
    BY <1>3
  <2>2. \A e, f \in Living, g \in Bags : HoldsBag(e, g)' /\ HoldsBag(f, g)' => Meet(e, f)
    BY <2>1 DEF BagsOfLine
  <2>3. \A e \in Living, g \in Bags : HoldsBag(e, g)' => \A f \in tags'[g] : Meet(f, e)
    BY <1>3, <2>1 DEF BagsOfLine
  <2>4. \A e, f \in Living, g \in Bags : Entered(e, g)' /\ HoldsBag(f, g)' => e \in born[f].line
    BY <2>1 DEF BagsOfLine
  <2>5. \A e \in Living, g \in Bags : Entered(e, g)' => \A f \in tags'[g] : e \in born[f].line
    BY <1>3, <2>1 DEF BagsOfLine
  <2>6. \A g \in Bags : tags'[g] \subseteq Living
    BY <2>1 DEF BagsOfLine
  <2> QED  BY <1>1, <2>2, <2>3, <2>4, <2>5, <2>6 DEF BagsOfLine
<1>4. CASE (\A e \in Chains : ~HoldsBag(e, b)) /\ tags'[b] \subseteq {c}
  <2>1. \A e \in Living : /\ HoldsBag(e, b)' => e = c
                          /\ Entered(e, b)' => e = c
    BY <1>2, <1>4
  <2>2. \A e \in Living, g \in Bags : g # b => /\ HoldsBag(e, g)' => HoldsBag(e, g)
                                               /\ Entered(e, g)' => Entered(e, g)
    OBVIOUS
  <2>3. \A e, f \in Living, g \in Bags : HoldsBag(e, g)' /\ HoldsBag(f, g)' => Meet(e, f)
    BY <1>1, <2>1, <2>2 DEF BagsOfLine
  <2>4. \A e \in Living, g \in Bags : HoldsBag(e, g)' => \A f \in tags'[g] : Meet(f, e)
    BY <1>1, <1>4, <2>1, <2>2 DEF BagsOfLine
  <2>5. \A e, f \in Living, g \in Bags : Entered(e, g)' /\ HoldsBag(f, g)' => e \in born[f].line
    BY <1>1, <2>1, <2>2 DEF BagsOfLine
  <2>6. \A e \in Living, g \in Bags : Entered(e, g)' => \A f \in tags'[g] : e \in born[f].line
    BY <1>1, <1>4, <2>1, <2>2 DEF BagsOfLine
  <2>7. \A g \in Bags : tags'[g] \subseteq Living
    BY <1>4 DEF BagsOfLine
  <2> QED  BY <1>1, <2>3, <2>4, <2>5, <2>6, <2>7 DEF BagsOfLine
<1> QED  BY <1>3, <1>4

\* The same of a step by which nobody comes to hold anything.
LEMMA BagsShrink ==
  ASSUME BagsOfLine, UNCHANGED <<born, tags>>, Living' = Living, Living \subseteq Chains,
         \A e \in Chains, g \in Bags : (HoldsBag(e, g)' => HoldsBag(e, g)) /\ (Entered(e, g)' => Entered(e, g))
  PROVE  BagsOfLine'
<1>1. \A e, f : Meet(e, f)' <=> Meet(e, f)
  BY DEF Meet
<1>2. \A e, f \in Living, g \in Bags : HoldsBag(e, g)' /\ HoldsBag(f, g)' => Meet(e, f)
  BY DEF BagsOfLine
<1>3. \A e \in Living, g \in Bags : HoldsBag(e, g)' => \A f \in tags[g] : Meet(f, e)
  BY DEF BagsOfLine
<1>4. \A e, f \in Living, g \in Bags : Entered(e, g)' /\ HoldsBag(f, g)' => e \in born[f].line
  BY DEF BagsOfLine
<1>5. \A e \in Living, g \in Bags : Entered(e, g)' => \A f \in tags[g] : e \in born[f].line
  BY DEF BagsOfLine
<1>6. \A g \in Bags : tags[g] \subseteq Living
  BY DEF BagsOfLine
<1> QED  BY <1>1, <1>2, <1>3, <1>4, <1>5, <1>6 DEF BagsOfLine

LEMMA WithSpanKeepsLines ==
  ASSUME TypedInv, SpansOfLine, BagsOfLine, store # "variable",
         NEW c \in Chains, NEW detached \in BOOLEAN, WithSpan(c, detached)
  PROVE  SpansOfLine' /\ BagsOfLine'
<1>1. /\ c \in Living /\ Living' = Living /\ NewSpan \in SpanNames
      /\ spans[NewSpan].state = "none"
      /\ spans'[NewSpan] = [state |-> "open", by |-> c, parent |-> ParentOf(c, detached)]
      /\ \A s \in SpanNames : s # NewSpan => spans'[s] = spans[s]
      /\ UNCHANGED <<store, born, tags>> /\ Enter(c, "span", NewSpan)
  BY WithSpanTyped
<1>2. Living \subseteq Chains /\ LinesInv
  BY DEF Living, TypedInv
<1>3. /\ \A e \in Chains, s \in SpanNames : HoldsSpan(e, s)' => HoldsSpan(e, s) \/ (e = c /\ s = NewSpan)
      /\ \A e \in Chains, b \in Bags : /\ HoldsBag(e, b)' => HoldsBag(e, b)
                                       /\ Entered(e, b)' => Entered(e, b)
  <2> DEFINE k == "span"
             n == NewSpan
  <2>1. k \in {"span", "bag"} /\ (k = "span" => n \in SpanNames) /\ (k = "bag" => n \in Bags)
    BY <1>1
  <2>2. Enter(c, k, n) /\ UNCHANGED <<store, born>>
    BY <1>1
  <2>3. k = "span"
    OBVIOUS
  <2> HIDE DEF k, n
  <2>4. /\ \A e \in Chains, s \in SpanNames :
              HoldsSpan(e, s)' => HoldsSpan(e, s) \/ (e = c /\ k = "span" /\ s = n)
        /\ \A e \in Chains, b \in Bags :
              /\ HoldsBag(e, b)' => HoldsBag(e, b) \/ (e = c /\ k = "bag" /\ b = n)
              /\ Entered(e, b)' => Entered(e, b) \/ (e = c /\ k = "bag" /\ b = n)
    BY <2>1, <2>2, EnterHolds
  <2> QED  BY <2>3, <2>4 DEF n
<1>4. ParentOf(c, detached) # None =>
        ParentOf(c, detached) \in SpanNames /\ HoldsSpan(c, ParentOf(c, detached))
  <2>1. ContextOf(c) = c /\ view[c] \in View
    BY DEF ContextOf, TypedInv, ContextsTypeOK
  <2> QED  BY <2>1, ViewFields DEF ParentOf, ActiveSpan, HoldsSpan
<1>5. SpansOfLine'
  <2>1. \A e \in Living, s \in SpanNames :
            HoldsSpan(e, s)' => \/ HoldsSpan(e, s)
                                \/ /\ spans[s].state = "none" /\ spans'[s].state # "none"
                                   /\ spans'[s].by = e /\ e \in born[e].line
    BY <1>1, <1>2, <1>3 DEF LinesInv
  <2>2. \A s \in SpanNames :
            \/ /\ spans'[s].by = spans[s].by /\ spans'[s].parent = spans[s].parent
               /\ spans[s].state # "none" => spans'[s].state # "none"
               /\ spans'[s].state # "none" => spans[s].state # "none"
            \/ /\ spans[s].state = "none" /\ spans'[s].state # "none" /\ spans'[s].by \in Living
               /\ spans'[s].parent # None => /\ spans'[s].parent \in SpanNames
                                             /\ HoldsSpan(spans'[s].by, spans'[s].parent)
    BY <1>1, <1>4
  <2>3. \A s \in SpanNames : spans[s].parent # None => spans[s].parent \in SpanNames
    BY DEF TypedInv, ContextsTypeOK
  <2>4. born' = born /\ Living' = Living
    BY <1>1
  <2> QED  BY <1>2, <2>1, <2>2, <2>3, <2>4, SpansKept
<1>6. BagsOfLine'
  BY <1>1, <1>2, <1>3, BagsShrink
<1> QED  BY <1>5, <1>6

\* Spans that stay, or end, and that nobody comes to hold.
LEMMA SpansShrink ==
  ASSUME TypedInv, SpansOfLine, born' = born, Living' = Living,
         \A e \in Chains, s \in SpanNames : HoldsSpan(e, s)' => HoldsSpan(e, s),
         \A s \in SpanNames : /\ spans'[s].by = spans[s].by /\ spans'[s].parent = spans[s].parent
                              /\ spans[s].state # "none" <=> spans'[s].state # "none"
  PROVE  SpansOfLine'
<1>1. Living \subseteq Chains
  BY DEF Living
<1>2. \A s \in SpanNames : spans[s].parent # None => spans[s].parent \in SpanNames
  BY DEF TypedInv, ContextsTypeOK
<1> QED  BY <1>1, <1>2 DEF SpansOfLine

LEMMA WithScopeKeepsLines ==
  ASSUME TypedInv, SpansOfLine, BagsOfLine, store # "variable", NEW c \in Chains, WithScope(c)
  PROVE  SpansOfLine' /\ BagsOfLine'
<1>1. /\ c \in Living /\ Living' = Living /\ FreshBags # {}
      /\ tags'[NewBag] = {} /\ \A b \in Bags : b # NewBag => tags'[b] = tags[b]
      /\ UNCHANGED <<store, born, spans>> /\ Enter(c, "bag", NewBag)
  BY WithScopeTyped
<1>2. Living \subseteq Chains /\ LinesInv /\ NewBag \in Bags /\ \A e \in Chains : ~HoldsBag(e, NewBag)
  BY <1>1, NewBagIsFresh, FreshIsUnheld DEF Living, TypedInv
<1>3. /\ \A e \in Chains, s \in SpanNames : HoldsSpan(e, s)' => HoldsSpan(e, s)
      /\ \A e \in Chains, b \in Bags : /\ HoldsBag(e, b)' => HoldsBag(e, b) \/ (e = c /\ b = NewBag)
                                       /\ Entered(e, b)' => Entered(e, b) \/ (e = c /\ b = NewBag)
  <2> DEFINE k == "bag"
             n == NewBag
  <2>1. k \in {"span", "bag"} /\ (k = "span" => n \in SpanNames) /\ (k = "bag" => n \in Bags)
    BY <1>2
  <2>2. Enter(c, k, n) /\ UNCHANGED <<store, born>>
    BY <1>1
  <2>3. k = "bag"
    OBVIOUS
  <2> HIDE DEF k, n
  <2>4. /\ \A e \in Chains, s \in SpanNames :
              HoldsSpan(e, s)' => HoldsSpan(e, s) \/ (e = c /\ k = "span" /\ s = n)
        /\ \A e \in Chains, b \in Bags :
              /\ HoldsBag(e, b)' => HoldsBag(e, b) \/ (e = c /\ k = "bag" /\ b = n)
              /\ Entered(e, b)' => Entered(e, b) \/ (e = c /\ k = "bag" /\ b = n)
    BY <2>1, <2>2, EnterHolds
  <2> QED  BY <2>3, <2>4 DEF n
<1>4. SpansOfLine'
  BY <1>1, <1>3, SpansShrink
<1>5. BagsOfLine'
  <2>1. tags'[NewBag] \subseteq {c} /\ born' = born
    BY <1>1
  <2> QED  BY <1>1, <1>2, <1>3, <2>1, BagsKept
<1> QED  BY <1>4, <1>5

LEMMA LeaveKeepsLines ==
  ASSUME TypedInv, SpansOfLine, BagsOfLine, store # "variable",
         NEW c \in Chains, NEW d \in Chains, NEW i \in DOMAIN blocks[c], Leave(c, i, d)
  PROVE  SpansOfLine' /\ BagsOfLine'
<1> DEFINE b == blocks[c][i]
<1>1. /\ Living' = Living /\ UNCHANGED <<store, born, tags>>
      /\ \A s \in SpanNames : /\ spans'[s].by = spans[s].by /\ spans'[s].parent = spans[s].parent
                              /\ spans[s].state # "none" => spans'[s].state # "none"
      /\ spans' = IF b.kind = "span" THEN [spans EXCEPT ![b.own].state = "ended"] ELSE spans
  BY LeaveTyped DEF Leave
<1>2. /\ \A e \in Chains, s \in SpanNames : HoldsSpan(e, s)' => HoldsSpan(e, s)
      /\ \A e \in Chains, g \in Bags : /\ HoldsBag(e, g)' => HoldsBag(e, g)
                                       /\ Entered(e, g)' => Entered(e, g)
  BY LeaveHolds
<1>3. \A s \in SpanNames : spans'[s].state # "none" => spans[s].state # "none"
  <2>1. c \in Living
    BY LeaveTyped
  <2>2. b.kind = "span" => b.own \in SpanNames /\ spans[b.own].state # "none"
    <3>1. b \in Block
      BY ElementOfSeq, LenProperties DEF TypedInv, BlocksTyped
    <3>2. b.kind = "span" => b.own \in SpanNames
      BY <3>1 DEF Block, SpanBlock, BagBlock
    <3>3. b.kind = "span" => HoldsSpan(c, b.own)
      BY DEF HoldsSpan
    <3> QED  BY <2>1, <3>2, <3>3 DEF SpansOfLine
  <2>3. \A s \in SpanNames : s # b.own \/ b.kind # "span" => spans'[s] = spans[s]
    <3>1. spans \in [SpanNames -> [state : {"none", "open", "ended"}, by : Chains \cup {None},
                                   parent : SpanNames \cup {None}]]
      BY DEF TypedInv, ContextsTypeOK
    <3> HIDE DEF b
    <3> QED  BY <1>1, <3>1
  <2> QED  BY <2>2, <2>3
<1>4. SpansOfLine'
  BY <1>1, <1>2, <1>3, SpansShrink
<1>5. BagsOfLine'
  <2>1. Living \subseteq Chains
    BY DEF Living
  <2> QED  BY <1>1, <1>2, <2>1, BagsShrink
<1> QED  BY <1>4, <1>5

LEMMA TouchKeepsLines ==
  ASSUME TypedInv, SpansOfLine, BagsOfLine, store # "variable",
         NEW c \in Chains, NEW sets \in BOOLEAN, Touch(c, sets)
  PROVE  SpansOfLine' /\ BagsOfLine'
<1>0. PICK b \in Bags : b = ScopeOf(c)
  BY TouchTyped
<1>1. /\ c \in Living /\ Living' = Living
      /\ born' = born /\ spans' = spans
      /\ \A a \in Bags : a # b => tags'[a] = tags[a]
  BY <1>0, TouchTyped
<1>2. /\ \A e \in Chains, s \in SpanNames : HoldsSpan(e, s)' => HoldsSpan(e, s)
      /\ \A e \in Chains, g \in Bags : /\ HoldsBag(e, g)' => HoldsBag(e, g) \/ (e = c /\ g = b)
                                       /\ Entered(e, g)' => Entered(e, g)
      /\ \/ HoldsBag(c, b) /\ tags'[b] \subseteq tags[b] \cup {c}
         \/ (\A e \in Chains : ~HoldsBag(e, b)) /\ tags'[b] \subseteq {c}
  BY <1>0, TouchHolds
<1>3. SpansOfLine'
  BY <1>1, <1>2, SpansShrink
<1>4. BagsOfLine'
  <2>1. Living \subseteq Chains /\ LinesInv /\ c \in Chains
    BY DEF Living, TypedInv
  <2>2. \A e \in Chains, g \in Bags :
            /\ HoldsBag(e, g)' => HoldsBag(e, g) \/ (e = c /\ g = b)
            /\ Entered(e, g)' => Entered(e, g) \/ (e = c /\ g = b)
    BY <1>2
  <2>5. Entered(c, b)' => Entered(c, b)
    BY <1>1, <1>2
  <2>3. \/ /\ HoldsBag(c, b) /\ (Entered(c, b)' => Entered(c, b)) /\ tags'[b] \subseteq tags[b] \cup {c}
        \/ (\A e \in Chains : ~HoldsBag(e, b)) /\ tags'[b] \subseteq {c}
    BY <1>2, <2>5
  <2>4. born' = born
    BY <1>1
  <2> QED  BY <1>1, <2>1, <2>2, <2>3, <2>4, BagsKept
<1> QED  BY <1>3, <1>4

LEMMA LinesStepped ==
  ASSUME TypedInv, SpansOfLine, BagsOfLine, store # "variable", ContextsNext
  PROVE  SpansOfLine' /\ BagsOfLine'
<1>1. ASSUME NEW c \in Chains, NEW d \in Chains, NEW copied \in BOOLEAN, Spawn(c, d, copied)
      PROVE  SpansOfLine' /\ BagsOfLine'
  BY <1>1, SpawnKeepsLines
<1>2. ASSUME NEW c \in Chains, NEW detached \in BOOLEAN, WithSpan(c, detached) PROVE SpansOfLine' /\ BagsOfLine'
  BY <1>2, WithSpanKeepsLines
<1>3. ASSUME NEW c \in Chains, WithScope(c) PROVE SpansOfLine' /\ BagsOfLine'
  BY <1>3, WithScopeKeepsLines
<1>4. ASSUME NEW c \in Chains, NEW i \in DOMAIN blocks[c], NEW d \in Chains, Leave(c, i, d)
      PROVE  SpansOfLine' /\ BagsOfLine'
  BY <1>4, LeaveKeepsLines
<1>5. ASSUME NEW c \in Chains, NEW sets \in BOOLEAN, Touch(c, sets) PROVE SpansOfLine' /\ BagsOfLine'
  BY <1>5, TouchKeepsLines
<1>6. ASSUME NEW c \in Chains, Await(c) PROVE FALSE
  BY <1>6, AwaitTyped
<1> QED  BY <1>1, <1>2, <1>3, <1>4, <1>5, <1>6 DEF ContextsNext

-----------------------------------------------------------------------------
\* The blocks of a kind, in a sequence of blocks: the last made active what is
\* active, and each found what the one before it made active.
Nested(q, kind, a) ==
  \A i \in DOMAIN q : q[i].kind = kind =>
    /\ (\A j \in DOMAIN q : q[j].kind = kind => j <= i) => q[i].own = a
    /\ \A j \in DOMAIN q :
         j < i /\ q[j].kind = kind /\ (\A m \in DOMAIN q : q[m].kind = kind => m <= j \/ i <= m)
            => q[i].was = q[j].own

\* Outside of the spans there is what the chain began with.
Grounded(q, a, w) ==
  /\ (\A i \in DOMAIN q : q[i].kind # "span") => a = w
  /\ \A i \in DOMAIN q :
       q[i].kind = "span" /\ (\A j \in DOMAIN q : q[j].kind = "span" => i <= j) => q[i].was = w

LEMMA NestedEnter ==
  ASSUME NEW n \in Nat, NEW q, NEW r, NEW a, NEW w,
         DOMAIN q = 1..n, DOMAIN r = 1..n + 1, \A i \in 1..n : r[i] = q[i]
  PROVE  LET b == r[n + 1] IN
         /\ \A k : k # b.kind /\ Nested(q, k, a) => Nested(r, k, a)
         /\ Nested(q, b.kind, b.was) => Nested(r, b.kind, b.own)
         /\ b.kind # "span" /\ Grounded(q, a, w) => Grounded(r, a, w)
         /\ b.kind = "span" /\ Grounded(q, b.was, w) => Grounded(r, b.own, w)
<1>0. PICK kind, own, was : kind = r[n + 1].kind /\ own = r[n + 1].own /\ was = r[n + 1].was
  OBVIOUS
<1>1. n + 1 \in 1..n + 1 /\ \A i \in 1..n + 1 : i = n + 1 \/ (i \in 1..n /\ i < n + 1)
  OBVIOUS
<1>2. ASSUME NEW k, k # kind, Nested(q, k, a) PROVE Nested(r, k, a)
  <2>1. \A i \in 1..n + 1 : r[i].kind = k => i \in 1..n
    BY <1>0, <1>1, <1>2
  <2> QED  BY <1>1, <1>2, <2>1 DEF Nested
<1>3. ASSUME Nested(q, kind, was) PROVE Nested(r, kind, own)
  <2> SUFFICES ASSUME NEW i \in 1..n + 1, r[i].kind = kind
               PROVE  /\ (\A j \in 1..n + 1 : r[j].kind = kind => j <= i) => r[i].own = own
                      /\ \A j \in 1..n + 1 :
                           j < i /\ r[j].kind = kind /\ (\A m \in 1..n + 1 : r[m].kind = kind => m <= j \/ i <= m)
                              => r[i].was = r[j].own
    BY DEF Nested
  <2>1. CASE i = n + 1
    <3>1. ASSUME NEW j \in 1..n + 1, j < i, r[j].kind = kind,
                 \A m \in 1..n + 1 : r[m].kind = kind => m <= j \/ i <= m
          PROVE  r[i].was = r[j].own
      <4>1. j \in 1..n /\ q[j].kind = kind /\ r[j].own = q[j].own
        BY <1>0, <1>1, <2>1, <3>1
      <4>2. \A m \in 1..n : q[m].kind = kind => m <= j
        BY <1>0, <1>1, <2>1, <3>1
      <4>3. q[j].own = was
        BY <1>3, <4>1, <4>2 DEF Nested
      <4> QED  BY <1>0, <2>1, <4>1, <4>3
    <3> QED  BY <1>0, <2>1, <3>1
  <2>2. CASE i \in 1..n
    <3>1. ~(\A j \in 1..n + 1 : r[j].kind = kind => j <= i)
      BY <1>0, <1>1, <2>2
    <3>2. ASSUME NEW j \in 1..n + 1, j < i, r[j].kind = kind,
                 \A m \in 1..n + 1 : r[m].kind = kind => m <= j \/ i <= m
          PROVE  r[i].was = r[j].own
      <4>1. j \in 1..n /\ q[j].kind = kind /\ q[i].kind = kind
        BY <2>2, <3>2
      <4>2. \A m \in 1..n : q[m].kind = kind => m <= j \/ i <= m
        BY <1>1, <3>2
      <4>3. q[i].was = q[j].own
        BY <1>3, <2>2, <3>2, <4>1, <4>2 DEF Nested
      <4> QED  BY <2>2, <4>1, <4>3
    <3> QED  BY <3>1, <3>2
  <2> QED  BY <1>1, <2>1, <2>2
<1>4. ASSUME kind # "span", Grounded(q, a, w) PROVE Grounded(r, a, w)
  <2>1. \A i \in 1..n + 1 : r[i].kind = "span" => i \in 1..n
    BY <1>0, <1>1, <1>4
  <2> QED  BY <1>1, <1>4, <2>1 DEF Grounded
<1>5. ASSUME kind = "span", Grounded(q, was, w) PROVE Grounded(r, own, w)
  <2>1. ~(\A i \in 1..n + 1 : r[i].kind # "span")
    BY <1>0, <1>1, <1>5
  <2>2. ASSUME NEW i \in 1..n + 1, r[i].kind = "span", \A j \in 1..n + 1 : r[j].kind = "span" => i <= j
        PROVE  r[i].was = w
    <3>1. CASE i = n + 1
      <4>1. \A j \in 1..n : q[j].kind # "span"
        BY <1>1, <2>2, <3>1
      <4> QED  BY <1>0, <1>5, <3>1, <4>1 DEF Grounded
    <3>2. CASE i \in 1..n
      <4>1. q[i].kind = "span" /\ r[i].was = q[i].was
        BY <2>2, <3>2
      <4>2. \A j \in 1..n : q[j].kind = "span" => i <= j
        BY <1>1, <2>2
      <4> QED  BY <1>5, <3>2, <4>1, <4>2 DEF Grounded
    <3> QED  BY <1>1, <3>1, <3>2
  <2> QED  BY <2>1, <2>2 DEF Grounded
<1> QED  BY <1>0, <1>2, <1>3, <1>4, <1>5

LEMMA NestedLeave ==
  ASSUME NEW n \in Nat, NEW q, NEW r, NEW x \in 1..n, NEW a, NEW w,
         DOMAIN q = 1..n, DOMAIN r = 1..n - 1,
         \A i \in 1..n - 1 : r[i] = q[IF i < x THEN i ELSE i + 1],
         \A j \in 1..n : q[j].kind = q[x].kind => j <= x
  PROVE  /\ \A k : k # q[x].kind /\ Nested(q, k, a) => Nested(r, k, a)
         /\ Nested(q, q[x].kind, a) => Nested(r, q[x].kind, q[x].was)
         /\ q[x].kind # "span" /\ Grounded(q, a, w) => Grounded(r, a, w)
         /\ q[x].kind = "span" /\ Grounded(q, a, w) => Grounded(r, q[x].was, w)
<1> DEFINE f(i) == IF i < x THEN i ELSE i + 1
<1>1. \A i \in 1..n - 1 : f(i) \in 1..n /\ f(i) # x /\ r[i] = q[f(i)]
  OBVIOUS
<1>2. \A i, j \in 1..n - 1 : (i <= j <=> f(i) <= f(j)) /\ (i < j <=> f(i) < f(j))
  OBVIOUS
<1>3. \A m \in 1..n : m # x => \E l \in 1..n - 1 : m = f(l)
  <2> SUFFICES ASSUME NEW m \in 1..n, m # x PROVE \E l \in 1..n - 1 : m = f(l)
    OBVIOUS
  <2>1. CASE m < x
    <3>1. m \in 1..n - 1 /\ m = f(m)
      BY <2>1
    <3> QED  BY <3>1
  <2>2. CASE m > x
    <3>1. m - 1 \in 1..n - 1 /\ m = f(m - 1)
      BY <2>2
    <3> QED  BY <3>1
  <2> QED  BY <2>1, <2>2
<1>4. \A i \in 1..n - 1 : q[f(i)].kind = q[x].kind => f(i) < x
  BY <1>1
<1> HIDE DEF f
<1>5. ASSUME NEW k, NEW i \in 1..n - 1, NEW j \in 1..n - 1,
             \A m \in 1..n - 1 : r[m].kind = k => m <= j \/ i <= m
      PROVE  \A m \in 1..n : q[m].kind = k /\ m # x => m <= f(j) \/ f(i) <= m
  BY <1>1, <1>2, <1>3, <1>5
<1>6. ASSUME NEW k, Nested(q, k, a), NEW i \in 1..n - 1, r[i].kind = k, NEW j \in 1..n - 1,
             j < i, r[j].kind = k, \A m \in 1..n - 1 : r[m].kind = k => m <= j \/ i <= m
      PROVE  r[i].was = r[j].own
  <2>1. \A m \in 1..n : q[m].kind = k /\ m # x => m <= f(j) \/ f(i) <= m
    BY <1>5, <1>6
  <2>2. q[x].kind = k => f(i) <= x
    BY <1>1, <1>4, <1>6
  <2>3. /\ f(i) \in 1..n /\ f(j) \in 1..n /\ q[f(i)].kind = k /\ q[f(j)].kind = k /\ f(j) < f(i)
        /\ r[i] = q[f(i)] /\ r[j] = q[f(j)]
    BY <1>1, <1>2, <1>6
  <2>4. \A m \in 1..n : q[m].kind = k => m <= f(j) \/ f(i) <= m
    BY <2>1, <2>2
  <2>5. \A g, h \in 1..n :
          q[g].kind = k /\ h < g /\ q[h].kind = k /\ (\A m \in 1..n : q[m].kind = k => m <= h \/ g <= m)
             => q[g].was = q[h].own
    BY <1>6 DEF Nested
  <2>6. q[f(i)].was = q[f(j)].own
    BY <2>3, <2>4, <2>5
  <2> QED  BY <2>3, <2>6
<1>7. ASSUME NEW k, NEW i \in 1..n - 1, \A j \in 1..n - 1 : r[j].kind = k => j <= i
      PROVE  \A m \in 1..n : q[m].kind = k /\ m # x => m <= f(i)
  <2> SUFFICES ASSUME NEW m \in 1..n, q[m].kind = k, m # x PROVE m <= f(i)
    OBVIOUS
  <2>1. PICK l \in 1..n - 1 : m = f(l)
    BY <1>3
  <2>2. l <= i
    BY <1>1, <1>7, <2>1
  <2> QED  BY <1>2, <2>1, <2>2
<1>8. ASSUME NEW k, k # q[x].kind, Nested(q, k, a) PROVE Nested(r, k, a)
  <2>1. ASSUME NEW i \in 1..n - 1, r[i].kind = k, \A j \in 1..n - 1 : r[j].kind = k => j <= i
        PROVE  r[i].own = a
    <3>1. \A m \in 1..n : q[m].kind = k => m <= f(i)
      BY <1>7, <1>8, <2>1
    <3>2. f(i) \in 1..n /\ r[i] = q[f(i)]
      BY <1>1
    <3> QED  BY <1>8, <2>1, <3>1, <3>2 DEF Nested
  <2>2. ASSUME NEW i \in 1..n - 1, r[i].kind = k, NEW j \in 1..n - 1, j < i, r[j].kind = k,
               \A m \in 1..n - 1 : r[m].kind = k => m <= j \/ i <= m
        PROVE  r[i].was = r[j].own
    BY <1>6, <1>8, <2>2
  <2> QED  BY <2>1, <2>2 DEF Nested
<1>9. ASSUME Nested(q, q[x].kind, a) PROVE Nested(r, q[x].kind, q[x].was)
  <2> DEFINE k == q[x].kind
  <2>1. ASSUME NEW i \in 1..n - 1, r[i].kind = k, \A j \in 1..n - 1 : r[j].kind = k => j <= i
        PROVE  r[i].own = q[x].was
    <3>1. \A m \in 1..n : q[m].kind = k => m <= f(i) \/ x <= m
      BY <1>7, <2>1
    <3>2. f(i) \in 1..n /\ r[i] = q[f(i)] /\ f(i) < x
      BY <1>1, <1>4, <2>1
    <3> QED  BY <1>9, <2>1, <3>1, <3>2 DEF Nested
  <2> HIDE DEF k
  <2>2. Nested(q, k, a)
    BY <1>9 DEF k
  <2>4. ASSUME NEW i \in 1..n - 1, r[i].kind = k, NEW j \in 1..n - 1, j < i, r[j].kind = k,
               \A m \in 1..n - 1 : r[m].kind = k => m <= j \/ i <= m
        PROVE  r[i].was = r[j].own
    BY <1>6, <2>2, <2>4
  <2>3. Nested(r, k, q[x].was)
    BY <2>1, <2>4 DEF Nested
  <2> QED  BY <2>3 DEF k
<1>10. ASSUME NEW i \in 1..n - 1, r[i].kind = "span", \A j \in 1..n - 1 : r[j].kind = "span" => i <= j,
              Grounded(q, a, w)
       PROVE  r[i].was = w
  <2>1. \A m \in 1..n : q[m].kind = "span" /\ m # x => f(i) <= m
    BY <1>1, <1>2, <1>3, <1>10
  <2>2. q[x].kind = "span" => f(i) <= x
    BY <1>1, <1>4, <1>10
  <2>3. f(i) \in 1..n /\ r[i] = q[f(i)]
    BY <1>1
  <2> QED  BY <1>10, <2>1, <2>2, <2>3 DEF Grounded
<1>11. ASSUME \A i \in 1..n - 1 : r[i].kind # "span" PROVE \A m \in 1..n : m # x => q[m].kind # "span"
  BY <1>1, <1>3, <1>11
<1>12. ASSUME q[x].kind # "span", Grounded(q, a, w) PROVE Grounded(r, a, w)
  <2>1. (\A i \in 1..n - 1 : r[i].kind # "span") => \A m \in 1..n : q[m].kind # "span"
    BY <1>11, <1>12
  <2> QED  BY <1>10, <1>12, <2>1 DEF Grounded
<1>13. ASSUME q[x].kind = "span", Grounded(q, a, w) PROVE Grounded(r, q[x].was, w)
  <2>1. ASSUME \A i \in 1..n - 1 : r[i].kind # "span" PROVE q[x].was = w
    <3>1. \A m \in 1..n : q[m].kind = "span" => x <= m
      BY <1>11, <2>1
    <3> QED  BY <1>13, <3>1 DEF Grounded
  <2> QED  BY <1>10, <1>13, <2>1 DEF Grounded
<1> QED  BY <1>8, <1>9, <1>12, <1>13

NestedOf(c) ==
  /\ Nested(blocks[c], "span", view[c].span) /\ Nested(blocks[c], "bag", view[c].bag)
  /\ Grounded(blocks[c], view[c].span, born[c].view.span)

\* What is active in a chain that has left its blocks in order.
ActiveInv == \A c \in Living \ astray : NestedOf(c)

LEMMA ActiveInit == ContextsInit => ActiveInv
<1> SUFFICES ASSUME ContextsInit, NEW c \in Living PROVE NestedOf(c)
  BY DEF ActiveInv
<1>1. c \in Chains
  BY DEF Living
<1>2. DOMAIN blocks[c] = {} /\ view[c].span = born[c].view.span
  BY <1>1 DEF ContextsInit
<1> QED  BY <1>2 DEF NestedOf, Nested, Grounded

LEMMA EnterNested ==
  ASSUME TypedInv, NEW c \in Chains, NEW kind \in {"span", "bag"}, NEW value,
         kind = "span" => value \in SpanNames, kind = "bag" => value \in Bags,
         Enter(c, kind, value), UNCHANGED <<store, born>>, store # "variable", NestedOf(c)
  PROVE  NestedOf(c)' /\ \A e \in Chains : e # c => blocks'[e] = blocks[e] /\ view'[e] = view[e]
<1> DEFINE new == [kind |-> kind, own |-> value, was |-> view[c][kind], unwound |-> FALSE]
<1>1. ContextOf(c) = c /\ view[c] \in View
  BY DEF ContextOf, TypedInv, ContextsTypeOK
<1>2. /\ blocks'[c] = Append(blocks[c], new) /\ \A e \in Chains : e # c => blocks'[e] = blocks[e]
      /\ new \in Block
      /\ \A e \in Chains : e # c => view'[e] = view[e]
      /\ kind = "span" => view'[c].span = value /\ view'[c].bag = view[c].bag
      /\ kind = "bag" => view'[c].bag = value /\ view'[c].span = view[c].span
  <2>1. kind = "span" => value \in SpanNames
    OBVIOUS
  <2>2. kind = "bag" => value \in Bags
    OBVIOUS
  <2> QED  BY <1>1, <2>1, <2>2, EnterEffect DEF TypedInv
<1>3. blocks[c] \in Seq(Block)
  BY DEF TypedInv, BlocksTyped
<1>4. /\ new.kind = kind /\ new.own = value
      /\ kind = "span" => new.was = view[c].span
      /\ kind = "bag" => new.was = view[c].bag
  BY <1>1, ViewFields
<1> HIDE DEF new
<1> DEFINE n == Len(blocks[c])
<1>5. /\ DOMAIN blocks'[c] = 1..n + 1 /\ DOMAIN blocks[c] = 1..n /\ n \in Nat
      /\ \A i \in 1..n : blocks'[c][i] = blocks[c][i]
      /\ blocks'[c][n + 1] = new
  BY <1>2, <1>3, AppendProperties, LenProperties
<1> HIDE DEF n
<1>6. \A a, w :
        /\ \A k : k # kind /\ Nested(blocks[c], k, a) => Nested(blocks'[c], k, a)
        /\ Nested(blocks[c], kind, new.was) => Nested(blocks'[c], kind, new.own)
        /\ kind # "span" /\ Grounded(blocks[c], a, w) => Grounded(blocks'[c], a, w)
        /\ kind = "span" /\ Grounded(blocks[c], new.was, w) => Grounded(blocks'[c], new.own, w)
  <2> SUFFICES ASSUME NEW a, NEW w
               PROVE
        /\ \A k : k # kind /\ Nested(blocks[c], k, a) => Nested(blocks'[c], k, a)
        /\ Nested(blocks[c], kind, new.was) => Nested(blocks'[c], kind, new.own)
        /\ kind # "span" /\ Grounded(blocks[c], a, w) => Grounded(blocks'[c], a, w)
        /\ kind = "span" /\ Grounded(blocks[c], new.was, w) => Grounded(blocks'[c], new.own, w)
    OBVIOUS
  <2> QED  BY <1>4, <1>5, NestedEnter
<1>7. born' = born
  OBVIOUS
<1>8. CASE kind = "span"
  BY <1>2, <1>4, <1>6, <1>7, <1>8 DEF NestedOf
<1>9. CASE kind = "bag"
  BY <1>2, <1>4, <1>6, <1>7, <1>9 DEF NestedOf
<1> QED  BY <1>2, <1>8, <1>9

LEMMA WithSpanNested ==
  ASSUME TypedInv, ActiveInv, store # "variable",
         NEW c \in Chains, NEW detached \in BOOLEAN, WithSpan(c, detached)
  PROVE  ActiveInv'
<1>1. /\ c \in Living /\ Living' = Living /\ NewSpan \in SpanNames
      /\ UNCHANGED <<store, born, tags, astray>> /\ Enter(c, "span", NewSpan)
  BY WithSpanTyped
<1>2. NestedOf(c) => NestedOf(c)'
  BY <1>1, EnterNested
<1>3. \A e \in Chains : e # c => blocks'[e] = blocks[e] /\ view'[e] = view[e]
  <2>1. ContextOf(c) = c
    BY DEF ContextOf
  <2> QED  BY <1>1, <2>1 DEF Enter, TypedInv, ContextsTypeOK, BlocksTyped
<1>4. \A e \in Chains : e # c => (NestedOf(e) => NestedOf(e)')
  BY <1>1, <1>3 DEF NestedOf
<1> QED  BY <1>1, <1>2, <1>4 DEF ActiveInv, Living

LEMMA WithScopeNested ==
  ASSUME TypedInv, ActiveInv, store # "variable", NEW c \in Chains, WithScope(c)
  PROVE  ActiveInv'
<1>1. /\ c \in Living /\ Living' = Living /\ FreshBags # {}
      /\ UNCHANGED <<store, born, spans, astray>> /\ Enter(c, "bag", NewBag)
  BY WithScopeTyped
<1>2. NestedOf(c) => NestedOf(c)'
  <2>1. NewBag \in Bags
    BY <1>1, NewBagIsFresh
  <2> QED  BY <1>1, <2>1, EnterNested
<1>3. \A e \in Chains : e # c => blocks'[e] = blocks[e] /\ view'[e] = view[e]
  <2>1. ContextOf(c) = c
    BY DEF ContextOf
  <2> QED  BY <1>1, <2>1 DEF Enter, TypedInv, ContextsTypeOK, BlocksTyped
<1>4. \A e \in Chains : e # c => (NestedOf(e) => NestedOf(e)')
  BY <1>1, <1>3 DEF NestedOf
<1> QED  BY <1>1, <1>2, <1>4 DEF ActiveInv, Living

LEMMA SpawnNested ==
  ASSUME TypedInv, ActiveInv, store # "variable",
         NEW c \in Chains, NEW d \in Chains, NEW copied \in BOOLEAN, Spawn(c, d, copied)
  PROVE  ActiveInv'
<1>1. /\ d \notin Living /\ Living' = Living \cup {d}
      /\ born'[d].view = BirthView(c, copied) /\ view'[d] = BirthView(c, copied)
      /\ \A e \in Chains : e # d => born'[e] = born[e] /\ view'[e] = view[e]
      /\ blocks' = blocks /\ astray' = astray
  BY SpawnTyped
<1>2. DOMAIN blocks'[d] = {}
  BY <1>1 DEF TypedInv, LinesInv
<1>3. NestedOf(d)'
  BY <1>1, <1>2 DEF NestedOf, Nested, Grounded
<1>4. \A e \in Chains : e # d => (NestedOf(e) => NestedOf(e)')
  BY <1>1 DEF NestedOf
<1> QED  BY <1>1, <1>3, <1>4 DEF ActiveInv, Living

LEMMA LeaveNested ==
  ASSUME TypedInv, ActiveInv, store # "variable",
         NEW c \in Chains, NEW d \in Chains, NEW i \in DOMAIN blocks[c], Leave(c, i, d)
  PROVE  ActiveInv'
<1> DEFINE inner == {j \in i + 1 .. Len(blocks[c]) : blocks[c][j].kind = blocks[c][i].kind}
<1>0. PICK b : b = blocks[c][i]
  OBVIOUS
<1>1. /\ Living' = Living
      /\ astray' = astray \cup (IF d # c \/ inner # {} THEN {c, d} ELSE {})
      /\ born' = born
      /\ blocks'[c] = RemoveAt(blocks[c], i) /\ \A e \in Chains : e # c => blocks'[e] = blocks[e]
      /\ \A e \in Chains : e # Leaver(c, d) => view'[e] = view[e]
      /\ d = c =>
           /\ b.kind = "span" => view'[Leaver(c, d)].span = Back(c, d, b) /\ view'[Leaver(c, d)].bag = view[Leaver(c, d)].bag
           /\ b.kind = "bag" => view'[Leaver(c, d)].bag = Back(c, d, b) /\ view'[Leaver(c, d)].span = view[Leaver(c, d)].span
  BY <1>0, LeaveTyped
<1>2. Leaver(c, d) \in {c, d}
  BY DEF Leaver, ContextOf
<1>3. \A e \in Chains : e # c /\ e # d => (NestedOf(e) => NestedOf(e)')
  BY <1>1, <1>2 DEF NestedOf
<1>4. ASSUME d = c, inner = {}, NestedOf(c) PROVE NestedOf(c)'
  <2>1. /\ b.kind = "span" => view'[c].span = b.was /\ view'[c].bag = view[c].bag
        /\ b.kind = "bag" => view'[c].bag = b.was /\ view'[c].span = view[c].span
    BY <1>1, <1>2, <1>4 DEF Back
  <2>2. PICK n \in Nat : n = Len(blocks[c])
    BY LenProperties DEF TypedInv, BlocksTyped
  <2>3. /\ DOMAIN blocks[c] = 1..n /\ DOMAIN blocks'[c] = 1..n - 1
        /\ \A m \in 1..n - 1 : blocks'[c][m] = blocks[c][IF m < i THEN m ELSE m + 1]
        /\ i \in 1..n /\ b \in Block
    <3>1. blocks[c] \in Seq(Block)
      BY DEF TypedInv, BlocksTyped
    <3>2. /\ RemoveAt(blocks[c], i) \in Seq(Block) /\ Len(RemoveAt(blocks[c], i)) = Len(blocks[c]) - 1
          /\ \A m \in DOMAIN RemoveAt(blocks[c], i) :
                RemoveAt(blocks[c], i)[m] = blocks[c][IF m < i THEN m ELSE m + 1]
      BY <3>1, RemovedIsThere
    <3>3. DOMAIN blocks[c] = 1..n
      BY <2>2, <3>1, LenProperties
    <3>4. b \in Block
      BY <1>0, <2>2, <3>1, <3>3, ElementOfSeq
    <3> QED  BY <1>1, <2>2, <3>2, <3>3, <3>4, LenProperties
  <2>4. \A j \in 1..n : blocks[c][j].kind = blocks[c][i].kind => j <= i
    BY <1>4, <2>2, <2>3
  <2>5. \A a, w :
          /\ \A k : k # b.kind /\ Nested(blocks[c], k, a) => Nested(blocks'[c], k, a)
          /\ Nested(blocks[c], b.kind, a) => Nested(blocks'[c], b.kind, b.was)
          /\ b.kind # "span" /\ Grounded(blocks[c], a, w) => Grounded(blocks'[c], a, w)
          /\ b.kind = "span" /\ Grounded(blocks[c], a, w) => Grounded(blocks'[c], b.was, w)
    BY <1>0, <2>3, <2>4, NestedLeave
  <2>6. b.kind \in {"span", "bag"}
    BY <2>3 DEF Block, SpanBlock, BagBlock
  <2>7. CASE b.kind = "span"
    BY <1>1, <1>4, <2>1, <2>5, <2>7 DEF NestedOf
  <2>8. CASE b.kind = "bag"
    BY <1>1, <1>4, <2>1, <2>5, <2>8 DEF NestedOf
  <2> QED  BY <2>6, <2>7, <2>8
<1> HIDE DEF inner
<1>5. ASSUME NEW e \in Living', e \notin astray' PROVE NestedOf(e)'
  <2>1. e \in Chains /\ NestedOf(e)
    BY <1>1, <1>5 DEF ActiveInv, Living
  <2>2. CASE d # c \/ inner # {}
    BY <1>1, <1>3, <1>5, <2>1, <2>2
  <2>3. CASE d = c /\ inner = {}
    BY <1>3, <1>4, <2>1, <2>3
  <2> QED  BY <2>2, <2>3
<1> QED  BY <1>5 DEF ActiveInv

LEMMA TouchNested ==
  ASSUME TypedInv, ActiveInv, store # "variable", NEW c \in Chains, NEW sets \in BOOLEAN, Touch(c, sets)
  PROVE  ActiveInv'
<1>1. ContextOf(c) = c /\ ActiveBag(c) = view[c].bag
  BY DEF ContextOf, ActiveBag
<1>2. /\ Living' = Living /\ UNCHANGED <<blocks, born, astray>>
      /\ \A e \in Chains : e # c => view'[e] = view[e]
      /\ view[c].bag # None => view'[c].bag = view[c].bag
      /\ view'[c].span = view[c].span
  BY <1>1, TouchTyped
<1>3. \A e \in Chains : e # c => (NestedOf(e) => NestedOf(e)')
  BY <1>2 DEF NestedOf
<1>4. ASSUME NestedOf(c) PROVE NestedOf(c)'
  <2>1. CASE view[c].bag # None
    BY <1>2, <1>4, <2>1 DEF NestedOf
  <2>2. CASE view[c].bag = None
    <3>1. \A i \in DOMAIN blocks[c] : blocks[c][i].kind # "bag"
      <4>1. PICK n \in Nat : DOMAIN blocks[c] = 1..n
        BY LenProperties DEF TypedInv, BlocksTyped
      <4>2. PICK T \in SUBSET (1..n) : T = {i \in 1..n : blocks[c][i].kind = "bag"}
        OBVIOUS
      <4>3. ASSUME T # {} PROVE FALSE
        <5>1. PICK x \in T : \A y \in T : y <= x
          BY <4>3, GreatestThere
        <5>2. blocks[c][x].own = None
          BY <1>4, <2>2, <4>1, <4>2, <5>1 DEF NestedOf, Nested
        <5>3. blocks[c][x] \in Block /\ blocks[c][x].kind = "bag"
          <6>1. blocks[c] \in Seq(Block)
            BY DEF TypedInv, BlocksTyped
          <6> QED  BY <4>1, <4>2, <6>1, ElementOfSeq, LenProperties
        <5> QED  BY <5>2, <5>3, ContextsAssumption DEF Block, SpanBlock, BagBlock, ContextsAssumption
      <4> QED  BY <4>1, <4>2, <4>3
    <3> QED  BY <1>2, <1>4, <3>1 DEF NestedOf, Nested
  <2> QED  BY <2>1, <2>2
<1> QED  BY <1>2, <1>3, <1>4 DEF ActiveInv, Living

LEMMA ActiveStepped ==
  ASSUME TypedInv, ActiveInv, store # "variable", ContextsNext PROVE ActiveInv'
<1>1. ASSUME NEW c \in Chains, NEW d \in Chains, NEW copied \in BOOLEAN, Spawn(c, d, copied) PROVE ActiveInv'
  BY <1>1, SpawnNested
<1>2. ASSUME NEW c \in Chains, NEW detached \in BOOLEAN, WithSpan(c, detached) PROVE ActiveInv'
  BY <1>2, WithSpanNested
<1>3. ASSUME NEW c \in Chains, WithScope(c) PROVE ActiveInv'
  BY <1>3, WithScopeNested
<1>4. ASSUME NEW c \in Chains, NEW i \in DOMAIN blocks[c], NEW d \in Chains, Leave(c, i, d) PROVE ActiveInv'
  BY <1>4, LeaveNested
<1>5. ASSUME NEW c \in Chains, NEW sets \in BOOLEAN, Touch(c, sets) PROVE ActiveInv'
  BY <1>5, TouchNested
<1>6. ASSUME NEW c \in Chains, Await(c) PROVE FALSE
  BY <1>6, AwaitTyped
<1> QED  BY <1>1, <1>2, <1>3, <1>4, <1>5, <1>6 DEF ContextsNext

-----------------------------------------------------------------------------
\* The inductive invariant: where each chain has its own context, what it can
\* reach is of its line, and what is active is what it is innermost in.
ContextsIInv ==
  /\ TypedInv
  /\ store # "variable" => SpansOfLine /\ BagsOfLine /\ ActiveInv

LEMMA ContextsInitIInv == ContextsInit => ContextsIInv
  BY ContextsInitTyped, SpansInitOfLine, BagsInitOfLine, ActiveInit DEF ContextsIInv

LEMMA ContextsTyped == ASSUME TypedInv, ContextsNext PROVE TypedInv' /\ store' = store
<1>1. ASSUME NEW c \in Chains, NEW d \in Chains, NEW copied \in BOOLEAN, Spawn(c, d, copied)
      PROVE  TypedInv' /\ store' = store
  BY <1>1, SpawnTyped
<1>2. ASSUME NEW c \in Chains, NEW detached \in BOOLEAN, WithSpan(c, detached)
      PROVE  TypedInv' /\ store' = store
  BY <1>2, WithSpanTyped
<1>3. ASSUME NEW c \in Chains, WithScope(c) PROVE TypedInv' /\ store' = store
  BY <1>3, WithScopeTyped
<1>4. ASSUME NEW c \in Chains, NEW i \in DOMAIN blocks[c], NEW d \in Chains, Leave(c, i, d)
      PROVE  TypedInv' /\ store' = store
  BY <1>4, LeaveTyped
<1>5. ASSUME NEW c \in Chains, Await(c) PROVE TypedInv' /\ store' = store
  BY <1>5, AwaitTyped
<1>6. ASSUME NEW c \in Chains, NEW sets \in BOOLEAN, Touch(c, sets) PROVE TypedInv' /\ store' = store
  BY <1>6, TouchTyped
<1> QED  BY <1>1, <1>2, <1>3, <1>4, <1>5, <1>6 DEF ContextsNext

LEMMA ContextsStepped == ASSUME ContextsIInv, ContextsNext PROVE ContextsIInv'
<1>1. TypedInv' /\ store' = store
  BY ContextsTyped DEF ContextsIInv
<1>2. ASSUME store # "variable" PROVE SpansOfLine' /\ BagsOfLine' /\ ActiveInv'
  BY <1>2, LinesStepped, ActiveStepped DEF ContextsIInv
<1> QED  BY <1>1, <1>2 DEF ContextsIInv

LEMMA ContextsUntouched == ASSUME ContextsIInv, UNCHANGED contextVars PROVE ContextsIInv'
<1> USE DEF contextVars
<1>1. TypedInv'
  BY DEF ContextsIInv, TypedInv, ContextsTypeOK, BlocksTyped, LinesInv, Living
<1>2. SpansOfLine => SpansOfLine'
  BY DEF SpansOfLine, HoldsSpan, Living
<1>3. BagsOfLine => BagsOfLine'
  BY DEF BagsOfLine, HoldsBag, Entered, Meet, Living
<1>4. ActiveInv => ActiveInv'
  BY DEF ActiveInv, NestedOf, Living
<1> QED  BY <1>1, <1>2, <1>3, <1>4 DEF ContextsIInv

LEMMA ContextsHold == ContextsIInv => ContextsInv
<1> SUFFICES ASSUME ContextsIInv PROVE ContextsInv
  OBVIOUS
<1>1. ContextsTypeOK /\ TypedInv /\ Living \subseteq Chains
  BY DEF ContextsIInv, TypedInv, Living
<1> SUFFICES ASSUME store # "variable"
             PROVE  ActiveIsInnermost /\ ParentIsOfItsLine /\ TagsStayInLine /\ TagsStayInside
  BY <1>1 DEF ContextsInv, ActiveIsInnermost, ParentIsOfItsLine, TagsStayInLine, TagsStayInside
<1>2. SpansOfLine /\ BagsOfLine /\ ActiveInv
  BY DEF ContextsIInv
<1>3. \A c \in Chains : /\ ActiveSpan(c) = view[c].span /\ ActiveBag(c) = view[c].bag
                        /\ view[c].span \in SpanNames \cup {None} /\ view[c].bag \in Bags \cup {None}
  BY <1>1, ViewFields DEF ActiveSpan, ActiveBag, ContextOf, ContextsTypeOK
<1>4. ActiveIsInnermost
  <2> SUFFICES ASSUME NEW c \in Living, c \notin astray
               PROVE  /\ ActiveSpan(c) = InnermostOf(c, "span")
                      /\ (\E i \in DOMAIN blocks[c] : blocks[c][i].kind = "bag")
                             => ActiveBag(c) = InnermostOf(c, "bag")
    BY DEF ActiveIsInnermost
  <2>1. NestedOf(c)
    BY <1>2 DEF ActiveInv
  <2>2. born[c].view["span"] = born[c].view.span
    BY <1>1, ViewFields DEF ContextsTypeOK
  <2>3. PICK n \in Nat : DOMAIN blocks[c] = 1..n
    BY <1>1, LenProperties DEF TypedInv, BlocksTyped
  <2>4. ASSUME NEW kind, NEW i \in DOMAIN blocks[c], blocks[c][i].kind = kind
        PROVE  \E x \in DOMAIN blocks[c] : /\ blocks[c][x].kind = kind /\ InnermostOf(c, kind) = blocks[c][x].own
                                           /\ \A j \in DOMAIN blocks[c] : blocks[c][j].kind = kind => j <= x
    <3> DEFINE inside == {j \in DOMAIN blocks[c] : blocks[c][j].kind = kind}
    <3>1. inside \in SUBSET (1..n) /\ inside # {}
      BY <2>3, <2>4
    <3>2. InnermostOf(c, kind) = blocks[c][Max(inside)].own
      BY <3>1 DEF InnermostOf
    <3>3. \A j : j \in inside <=> j \in DOMAIN blocks[c] /\ blocks[c][j].kind = kind
      OBVIOUS
    <3> HIDE DEF inside
    <3>4. Max(inside) \in inside /\ \A y \in inside : y <= Max(inside)
      BY <3>1, MaxIsThere
    <3> QED  BY <3>2, <3>3, <3>4
  <2>5. ActiveSpan(c) = InnermostOf(c, "span")
    <3>1. CASE \E i \in DOMAIN blocks[c] : blocks[c][i].kind = "span"
      BY <1>1, <1>3, <2>1, <2>4, <3>1 DEF NestedOf, Nested
    <3>2. CASE \A i \in DOMAIN blocks[c] : blocks[c][i].kind # "span"
      <4>1. {i \in DOMAIN blocks[c] : blocks[c][i].kind = "span"} = {}
        BY <3>2
      <4>2. InnermostOf(c, "span") = born[c].view["span"]
        BY <4>1 DEF InnermostOf
      <4> QED  BY <1>1, <1>3, <2>1, <2>2, <3>2, <4>2 DEF NestedOf, Grounded
    <3> QED  BY <3>1, <3>2
  <2>6. (\E i \in DOMAIN blocks[c] : blocks[c][i].kind = "bag") => ActiveBag(c) = InnermostOf(c, "bag")
    BY <1>1, <1>3, <2>1, <2>4 DEF NestedOf, Nested
  <2> QED  BY <2>5, <2>6
<1>5. ParentIsOfItsLine
  <2>1. ASSUME NEW c \in Living, ActiveSpan(c) # None PROVE spans[ActiveSpan(c)].by \in born[c].line
    <3>1. HoldsSpan(c, ActiveSpan(c)) /\ ActiveSpan(c) \in SpanNames
      BY <1>1, <1>3, <2>1 DEF HoldsSpan
    <3> QED  BY <1>2, <3>1 DEF SpansOfLine
  <2> QED  BY <1>2, <2>1 DEF ParentIsOfItsLine, SpansOfLine
<1>6. TagsStayInLine
  <2> SUFFICES ASSUME NEW c \in Living, ActiveBag(c) # None, NEW d \in tags[ActiveBag(c)]
               PROVE  born[d].line \cap born[c].line # {}
    BY DEF TagsStayInLine
  <2>1. HoldsBag(c, ActiveBag(c)) /\ ActiveBag(c) \in Bags
    BY <1>1, <1>3 DEF HoldsBag
  <2> QED  BY <1>2, <2>1 DEF BagsOfLine, Meet
<1>7. TagsStayInside
  <2> SUFFICES ASSUME NEW c \in Living, NEW i \in DOMAIN blocks[c], blocks[c][i].kind = "bag",
                      NEW d \in tags[blocks[c][i].own]
               PROVE  c \in born[d].line
    BY DEF TagsStayInside
  <2>1. blocks[c][i].own \in Bags
    <3>1. blocks[c] \in Seq(Block)
      BY <1>1 DEF TypedInv, BlocksTyped
    <3>2. blocks[c][i] \in Block
      BY <3>1, ElementOfSeq, LenProperties
    <3> QED  BY <3>2 DEF Block, SpanBlock, BagBlock
  <2>2. Entered(c, blocks[c][i].own)
    BY DEF Entered
  <2> QED  BY <1>2, <2>1, <2>2 DEF BagsOfLine
<1> QED  BY <1>4, <1>5, <1>6, <1>7

\* Where each chain is (dolshoe/scope.py, scope.ts and span-scope.ts): for any
\* number of threads and tasks, however their blocks are entered and left, what
\* is active is what the chain is innermost in unless it left a block out of
\* order, a parent is a span of the chain's own line, and tags stay in theirs.
THEOREM ContextsInvariant == Spec => []ContextsInv
<1>1. Init => ContextsIInv
  BY ContextsInitIInv DEF Init
<1>2. ContextsIInv /\ [Next]_runtimesVars => ContextsIInv'
  <2> SUFFICES ASSUME ContextsIInv, [Next]_runtimesVars PROVE ContextsIInv'
    OBVIOUS
  <2>1. ContextsNext \/ UNCHANGED contextVars
    BY DEF Next, runtimesVars
  <2> QED  BY <2>1, ContextsStepped, ContextsUntouched
<1>3. ContextsIInv => ContextsInv
  BY ContextsHold
<1> QED  BY <1>1, <1>2, <1>3, PTL DEF Spec

=============================================================================
