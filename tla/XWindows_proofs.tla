--------------------------- MODULE XWindows_proofs ---------------------------
(***************************************************************************)
(* Proofs about XWindows, for any numbers of windows, pixmaps, clients and   *)
(* buttons.  The first part is about trees given by their parents: Subtree    *)
(* is the least set closed under children, and what each request does to it  *)
(* is proved from that alone.                                               *)
(***************************************************************************)
EXTENDS XWindows, FiniteSetTheorems, SequenceTheorems, TLAPS

-----------------------------------------------------------------------------
(* Facts about Subtree.                                                     *)

(* S holds w and the children of its members.                               *)
Closed(w, S) == w \in S /\ \A y \in windows : parent[y] \in S => y \in S

LEMMA SubtreeWindows ==
  ASSUME NEW w
  PROVE  Subtree(w) \subseteq windows
  BY DEF Subtree

LEMMA SubtreeSelf ==
  ASSUME NEW w \in windows
  PROVE  w \in Subtree(w)
  BY DEF Subtree

LEMMA SubtreeChild ==
  ASSUME NEW w, NEW y \in windows, parent[y] \in Subtree(w)
  PROVE  y \in Subtree(w)
  BY DEF Subtree

LEMMA SubtreeLeast ==
  ASSUME NEW w, NEW S \in SUBSET windows, Closed(w, S)
  PROVE  Subtree(w) \subseteq S
  BY DEF Subtree, Closed

(* A member other than the root of a subtree has its parent in it.          *)
LEMMA SubtreeParent ==
  ASSUME NEW w \in windows, NEW x \in Subtree(w), x # w
  PROVE  parent[x] \in Subtree(w)
<1> SUFFICES ASSUME parent[x] \notin Subtree(w) PROVE FALSE
  OBVIOUS
<1> DEFINE S == Subtree(w) \ {x}
<1>1. S \in SUBSET windows
  BY SubtreeWindows
<1>2. Closed(w, S)
  BY SubtreeSelf, SubtreeChild DEF Closed
<1> HIDE DEF S
<1>3. Subtree(w) \subseteq S
  BY <1>1, <1>2, SubtreeLeast
<1> QED
  BY <1>3 DEF S

LEMMA SubtreeTransitive ==
  ASSUME NEW a, NEW b \in Subtree(a)
  PROVE  Subtree(b) \subseteq Subtree(a)
<1>1. Subtree(a) \in SUBSET windows
  BY SubtreeWindows
<1>2. Closed(b, Subtree(a))
  BY SubtreeChild DEF Closed
<1> QED
  BY <1>1, <1>2, SubtreeLeast

Tree ==
  /\ windows \subseteq AllWindows
  /\ parent \in [AllWindows -> AllWindows \cup {None}]
  /\ Rooted

LEMMA RootIsNotNone == Root # None /\ None \notin AllWindows
  BY WindowsAssumption DEF WindowsAssumption, AllWindows

(* In a tree, the root is in no other window's subtree, every other window    *)
(* has a parent, and no window is below itself.                             *)
LEMMA RootOutside ==
  ASSUME Tree, NEW w \in windows, w # Root
  PROVE  Root \notin Subtree(w)
<1> DEFINE S == windows \ {Root}
<1>1. S \in SUBSET windows
  OBVIOUS
<1>2. Closed(w, S)
  BY RootIsNotNone DEF Closed, Tree, Rooted
<1> HIDE DEF S
<1>3. Subtree(w) \subseteq S
  BY <1>1, <1>2, SubtreeLeast
<1> QED
  BY <1>3 DEF S

LEMMA ParentIsWindow ==
  ASSUME Tree, NEW w \in windows, w # Root
  PROVE  parent[w] \in windows
<1>1. Root \in windows /\ w \in Subtree(Root)
  BY DEF Tree, Rooted
<1>2. parent[w] \in Subtree(Root)
  BY <1>1, SubtreeParent
<1> QED
  BY <1>2, SubtreeWindows

(* What is closed and holds the root holds every window.                    *)
LEMMA RootReaches ==
  ASSUME Tree, NEW S \in SUBSET windows, Closed(Root, S)
  PROVE  S = windows
<1>1. Subtree(Root) \subseteq S
  BY SubtreeLeast
<1> QED
  BY <1>1 DEF Tree, Rooted

LEMMA ParentOutside ==
  ASSUME Tree, NEW w \in windows, w # Root
  PROVE  parent[w] \in windows \ Subtree(w)
<1>1. parent[w] \in windows
  BY ParentIsWindow
<1>2. ASSUME parent[w] \in Subtree(w) PROVE FALSE
  <2> DEFINE S == windows \ Subtree(w)
  <2>1. Closed(Root, S)
    <3>1. Root \in S
      BY RootOutside DEF Tree, Rooted
    <3>2. ASSUME NEW y \in windows, parent[y] \in S PROVE y \in S
      <4>1. y \in Subtree(w) => y = w
        BY <3>2, SubtreeParent
      <4> QED
        BY <4>1, <3>2, <1>2
    <3> QED
      BY <3>1, <3>2 DEF Closed
  <2>2. S \in SUBSET windows
    OBVIOUS
  <2>3. S = windows
    <3> HIDE DEF S
    <3> QED
      BY <2>1, <2>2, RootReaches
  <2> QED
    BY <2>3, SubtreeSelf
<1> QED
  BY <1>1, <1>2

-----------------------------------------------------------------------------
(* What the requests do to the tree.                                        *)

(* A new leaf.                                                              *)
Grows(w, p) ==
  /\ p \in windows
  /\ w \in AllWindows \ windows
  /\ windows' = windows \cup {w}
  /\ parent' = [parent EXCEPT ![w] = p]

(* A subtree moved elsewhere.                                               *)
Moves(w, p) ==
  /\ w \in windows
  /\ p \in windows \ Subtree(w)
  /\ windows' = windows
  /\ parent' = [parent EXCEPT ![w] = p]

(* A subtree removed.                                                       *)
Shrinks(w) ==
  /\ w \in windows \ {Root}
  /\ windows' = windows \ Subtree(w)
  /\ parent' = [x \in AllWindows |-> IF x \in Subtree(w) THEN None ELSE parent[x]]

LEMMA GrowsTree ==
  ASSUME Tree, NEW w, NEW p, Grows(w, p)
  PROVE  Tree'
<1>1. windows' \subseteq AllWindows /\ parent' \in [AllWindows -> AllWindows \cup {None}]
  BY DEF Tree, Grows
<1>2. Root \in windows' /\ parent'[Root] = None
  BY DEF Tree, Rooted, Grows
<1>3. ASSUME NEW x \in windows', NEW S \in SUBSET windows', Root \in S,
             \A y \in windows' : parent'[y] \in S => y \in S
      PROVE  x \in S
  <2> DEFINE T == S \cap windows
  <2>1. Closed(Root, T)
    BY <1>3 DEF Closed, Tree, Rooted, Grows
  <2>2. T \in SUBSET windows
    OBVIOUS
  <2>3. T = windows
    <3> HIDE DEF T
    <3> QED
      BY <2>1, <2>2, RootReaches
  <2>4. p \in S
    BY <2>3 DEF Grows
  <2>5. w \in S
    BY <2>4, <1>3 DEF Grows, Tree
  <2> QED
    BY <2>3, <2>5 DEF Grows
<1> QED
  BY <1>1, <1>2, <1>3 DEF Tree, Rooted, Subtree

LEMMA MovesTree ==
  ASSUME Tree, NEW w, NEW p, Moves(w, p)
  PROVE  Tree'
<1> DEFINE D == Subtree(w)
<1>1. w # Root
  BY DEF Moves, Tree, Rooted
<1>2. windows' \subseteq AllWindows /\ parent' \in [AllWindows -> AllWindows \cup {None}]
  BY DEF Tree, Moves
<1>3. Root \in windows' /\ parent'[Root] = None
  BY <1>1 DEF Tree, Rooted, Moves
<1>4. ASSUME NEW x \in windows', NEW S \in SUBSET windows', Root \in S,
             \A y \in windows' : parent'[y] \in S => y \in S
      PROVE  x \in S
  <2> DEFINE T == S \cup D
  <2>1. T \in SUBSET windows
    BY <1>4, SubtreeWindows DEF Moves
  <2>2. Closed(Root, T)
    <3>1. ASSUME NEW y \in windows, parent[y] \in T PROVE y \in T
      <4>1. CASE parent[y] \in D
        BY <4>1, SubtreeChild
      <4>2. CASE y = w
        BY <4>2, SubtreeSelf DEF Moves
      <4>3. CASE parent[y] \in S /\ y # w
        BY <4>3, <1>4 DEF Moves, Tree
      <4> QED
        BY <3>1, <4>1, <4>2, <4>3
    <3> QED
      BY <3>1, <1>4 DEF Closed
  <2>3. T = windows
    <3> HIDE DEF T
    <3> QED
      BY <2>1, <2>2, RootReaches
  <2>4. w \in S
    BY <2>3, <1>4 DEF Moves, Tree
  <2>5. Closed(Root, S)
    BY <2>4, <1>4 DEF Closed, Moves, Tree
  <2>6. S = windows
    BY <2>5, <1>4, RootReaches DEF Moves
  <2> QED
    BY <2>6 DEF Moves
<1> QED
  BY <1>2, <1>3, <1>4 DEF Tree, Rooted, Subtree

LEMMA ShrinksTree ==
  ASSUME Tree, NEW w, Shrinks(w)
  PROVE  Tree'
<1> DEFINE D == Subtree(w)
<1>1. Root \notin D
  BY RootOutside DEF Shrinks
<1>2. windows' \subseteq AllWindows /\ parent' \in [AllWindows -> AllWindows \cup {None}]
  BY DEF Tree, Shrinks
<1>3. Root \in windows' /\ parent'[Root] = None
  BY <1>1 DEF Tree, Rooted, Shrinks
<1>4. ASSUME NEW x \in windows', NEW S \in SUBSET windows', Root \in S,
             \A y \in windows' : parent'[y] \in S => y \in S
      PROVE  x \in S
  <2> DEFINE T == S \cup D
  <2>1. T \in SUBSET windows
    BY <1>4, SubtreeWindows DEF Shrinks
  <2>2. Closed(Root, T)
    <3>1. ASSUME NEW y \in windows, parent[y] \in T PROVE y \in T
      <4>1. CASE parent[y] \in D
        BY <4>1, SubtreeChild
      <4>2. CASE parent[y] \in S /\ y \notin D
        BY <4>2, <1>4 DEF Shrinks, Tree
      <4> QED
        BY <3>1, <4>1, <4>2
    <3> QED
      BY <3>1, <1>4 DEF Closed
  <2>3. T = windows
    <3> HIDE DEF T
    <3> QED
      BY <2>1, <2>2, RootReaches
  <2> QED
    BY <2>3 DEF Shrinks
<1> QED
  BY <1>2, <1>3, <1>4 DEF Tree, Rooted, Subtree

-----------------------------------------------------------------------------
(* The invariant.  The types of the sequences of children and of the buttons  *)
(* come last, in TypeCorrect: nothing before it needs them.                 *)
Types ==
  /\ mapped \subseteq windows
  /\ inputOutput \subseteq windows
  /\ pixmaps \subseteq Ids
  /\ focus \in [window : AllWindows \cup {None}, revertTo : {"NONE", "POINTER_ROOT", "PARENT"}]
  /\ grab \in [window : AllWindows \cup {None}, client : Clients \cup {None}, withButtons : BOOLEAN]
  /\ relativeMouse \in BOOLEAN
  /\ selection \in [owner : AllWindows \cup {None}, client : Clients \cup {None}]
  /\ selected \in [AllWindows -> [Clients -> SUBSET EventNames]]
  /\ remembered \in [Clients -> [AllWindows -> SUBSET EventNames]]
  /\ client \in [Clients -> {"new", "connected", "gone"}]
  /\ ownedWindows \in [Clients -> SUBSET Ids]
  /\ ownedPixmaps \in [Clients -> SUBSET Ids]
  /\ freeing \in Clients \cup {None}

(* The part on which everything else rests: the tree, and that what a client *)
(* owns is in it, so that a disconnect destroys windows that exist.         *)
Core == Types /\ Tree /\ ResourcesOwned

(* A client frees windows that exist, and not the root.                     *)
LEMMA OwnedIsWindow ==
  ASSUME Core, NEW c \in Clients, NEW w \in ownedWindows[c]
  PROVE  w \in windows \ {Root}
  BY WindowsAssumption DEF WindowsAssumption, Core, ResourcesOwned

(* Every step leaves the tree alone, adds a leaf, moves or removes a subtree. *)
LEMMA TreeStep ==
  ASSUME Core, Next
  PROVE  \/ UNCHANGED <<windows, parent>>
         \/ \E w, p \in AllWindows : Grows(w, p) \/ Moves(w, p)
         \/ \E w \in AllWindows : Shrinks(w)
<1> USE DEF AllWindows
<1>1. ASSUME NEW c \in Clients, ClientStep(c)
      PROVE  \/ UNCHANGED <<windows, parent>>
             \/ \E w, p \in AllWindows : Grows(w, p) \/ Moves(w, p)
             \/ \E w \in AllWindows : Shrinks(w)
  <2>0. windows \subseteq AllWindows
    BY DEF Core, Tree
  <2>1. ASSUME NEW w \in Ids, NEW p \in windows, NEW o, NEW m, NEW k, CreateWindow(c, w, p, k, o, m)
        PROVE  Grows(w, p)
    BY <2>1 DEF CreateWindow, Grows
  <2>2. ASSUME NEW w \in windows, NEW p \in windows, ReparentWindow(c, w, p)
        PROVE  Moves(w, p)
    BY <2>2 DEF ReparentWindow, Moves
  <2>3. ASSUME NEW w \in windows, DestroyWindow(c, w)
        PROVE  Shrinks(w)
    BY <2>3 DEF DestroyWindow, Destroy, Shrinks
  <2> QED
    BY <1>1, <2>0, <2>1, <2>2, <2>3
    DEF ClientStep, Connect, ChangeEventMask, ChangeOverrideRedirect, MapWindow, UnmapWindow,
        ConfigureWindow, CrashOnTree, CreatePixmap, PixmapFromBuffer, FreePixmap,
        SetInputFocus, GrabPointer, SetSelectionOwner, UngrabPointer, WarpPointer, treeVars
<1>2. ASSUME NEW c \in Clients, FreeStep(c)
      PROVE  \/ UNCHANGED <<windows, parent>>
             \/ \E w \in AllWindows : Shrinks(w)
  <2>1. ASSUME NEW w \in ownedWindows[c], FreeWindow(c, w)
        PROVE  Shrinks(w) /\ w \in AllWindows
    BY <2>1, OwnedIsWindow DEF FreeWindow, Destroy, Shrinks, Core, Tree
  <2> QED
    BY <1>2, <2>1 DEF FreeStep, Disconnect, FreeOwnedPixmap, FreeListeners, treeVars
<1>3. ASSUME InputStep PROVE UNCHANGED <<windows, parent>>
  BY <1>3 DEF InputStep, PointerMove, KeyEvent, SetRelativeMouse, ButtonPress, ButtonRelease, treeVars
<1> QED
  BY <1>1, <1>2, <1>3 DEF Next

LEMMA TreePreserved ==
  ASSUME Core, Next
  PROVE  Tree'
<1>1. CASE UNCHANGED <<windows, parent>>
  BY <1>1 DEF Core, Tree, Rooted, Subtree
<1> QED
  BY <1>1, TreeStep, GrowsTree, MovesTree, ShrinksTree DEF Core

(* A window that loses the focus passes it to a window.                     *)
LEMMA RevertIsWindow ==
  ASSUME Core, NEW w \in windows
  PROVE  Revert(w) \in windows \cup {None}
  BY ParentIsWindow DEF Revert, Core, Types, Tree, Rooted

LEMMA FindPointWindowIsWindow == Tree => FindPointWindow \in windows
<1> SUFFICES ASSUME Tree PROVE FindPointWindow \in windows
  OBVIOUS
<1> DEFINE R(w) == /\ ChildByCoords(w) = None
                  /\ \A a \in windows \ {Root} : w \in Subtree(a) => ChildByCoords(parent[a]) = a
<1>1. FindPointWindow = IF \E w \in windows : R(w) THEN CHOOSE w \in windows : R(w) ELSE Root
  BY DEF FindPointWindow
<1>2. Root \in windows
  BY DEF Tree, Rooted
<1> HIDE DEF R
<1> QED
  BY <1>1, <1>2

LEMMA FindPointWindowNext == Tree' => (FindPointWindow \in windows)'
  BY FindPointWindowIsWindow, PTL

(* What the destruction of a window's subtree does to the types.            *)
LEMMA DestroyTypes ==
  ASSUME Core, NEW w \in windows, w # Root, Destroy(w),
         UNCHANGED <<pixmaps, relativeMouse, client, ownedPixmaps, freeing>>
  PROVE  Types'
<1>1. Revert(w) \in AllWindows \cup {None}
  BY RevertIsWindow DEF Core, Tree
<1>2. /\ mapped' \subseteq windows' /\ inputOutput' \subseteq windows'
      /\ ownedWindows' \in [Clients -> SUBSET Ids]
      /\ selected' \in [AllWindows -> [Clients -> SUBSET EventNames]]
      /\ remembered' \in [Clients -> [AllWindows -> SUBSET EventNames]]
  BY DEF Core, Types, Destroy, OwnedWithout, SelectedWithout, RememberedWithout
<1>3. /\ focus' \in [window : AllWindows \cup {None}, revertTo : {"NONE", "POINTER_ROOT", "PARENT"}]
      /\ grab' \in [window : AllWindows \cup {None}, client : Clients \cup {None}, withButtons : BOOLEAN]
      /\ selection' \in [owner : AllWindows \cup {None}, client : Clients \cup {None}]
  BY <1>1 DEF Core, Types, Destroy, FocusWithout, GrabWithout, NoGrab, SelectionWithout
<1> QED
  BY <1>2, <1>3 DEF Core, Types

LEMMA TypesPreserved ==
  ASSUME Core, Next
  PROVE  Types'
<1> USE WindowsAssumption DEF AllWindows, Core, Types
<1>0. windows \subseteq AllWindows
  BY DEF Tree
<1>1. ASSUME NEW c \in Clients, ClientStep(c) PROVE Types'
  <2>1. CASE Connect(c)
    BY <2>1 DEF Connect, treeVars, drawVars, inputVars, buttonVars, listenVars, ownerVars
  <2>2. ASSUME NEW w \in Ids, NEW p \in windows, NEW o, NEW mask \in Masks \cup {{}}, NEW k,
               CreateWindow(c, w, p, k, o, mask)
        PROVE  Types'
    <3>1. mask \in SUBSET EventNames
      BY DEF WindowsAssumption
    <3>2. /\ selected' \in [AllWindows -> [Clients -> SUBSET EventNames]]
          /\ remembered' \in [Clients -> [AllWindows -> SUBSET EventNames]]
      BY <2>2, <3>1 DEF CreateWindow, SelectEvents
    <3>3. /\ inputOutput' \subseteq windows'
          /\ mapped' \subseteq windows'
          /\ ownedWindows' \in [Clients -> SUBSET Ids]
      BY <2>2 DEF CreateWindow
    <3> QED
      BY <2>2, <3>2, <3>3 DEF CreateWindow, buttonVars
  <2>3. ASSUME NEW w \in windows, NEW mask \in Masks, ChangeEventMask(c, w, mask) PROVE Types'
    <3>1. mask \in SUBSET EventNames
      BY DEF WindowsAssumption
    <3>2. /\ selected' \in [AllWindows -> [Clients -> SUBSET EventNames]]
          /\ remembered' \in [Clients -> [AllWindows -> SUBSET EventNames]]
      BY <1>0, <2>3, <3>1 DEF ChangeEventMask, SelectEvents
    <3> QED
      BY <2>3, <3>2 DEF ChangeEventMask, treeVars, drawVars, inputVars, buttonVars, ownerVars
  <2>4. ASSUME NEW w \in windows, NEW o, ChangeOverrideRedirect(c, w, o) PROVE Types'
    BY <2>4 DEF ChangeOverrideRedirect, drawVars, inputVars, buttonVars, listenVars, ownerVars
  <2>5. ASSUME NEW w \in windows, MapWindow(c, w) PROVE Types'
    BY <1>0, <2>5 DEF MapWindow, FocusApplication, drawVars, buttonVars, listenVars, ownerVars
  <2>6. ASSUME NEW w \in windows, UnmapWindow(c, w) PROVE Types'
    <3>1. Revert(w) \in AllWindows \cup {None}
      BY <1>0, RevertIsWindow
    <3> QED
      BY <2>6, <3>1 DEF UnmapWindow, Unmap, NoGrab, drawVars, buttonVars, listenVars, ownerVars
  <2>7. ASSUME NEW w \in windows, ConfigureWindow(c, w) PROVE Types'
    BY <2>7 DEF ConfigureWindow, drawVars, buttonVars, listenVars, ownerVars
  <2>8. ASSUME NEW w \in windows, NEW p \in windows, ReparentWindow(c, w, p) PROVE Types'
    BY <2>8 DEF ReparentWindow, drawVars, inputVars, buttonVars, listenVars, ownerVars
  <2>9. ASSUME NEW w \in windows, NEW p \in windows, CrashOnTree(c, w, p) PROVE Types'
    BY <2>9 DEF CrashOnTree, treeVars, drawVars, inputVars, buttonVars, listenVars, ownerVars
  <2>10. ASSUME NEW w \in windows, DestroyWindow(c, w) PROVE Types'
    BY <2>10, DestroyTypes DEF DestroyWindow, buttonVars
  <2>11. ASSUME NEW p \in Ids, CreatePixmap(c, p) PROVE Types'
    BY <2>11 DEF CreatePixmap, treeVars, inputVars, buttonVars, listenVars
  <2>12. ASSUME NEW p \in Ids, PixmapFromBuffer(c, p) PROVE Types'
    BY <2>12 DEF PixmapFromBuffer, treeVars, inputVars, buttonVars, listenVars, ownerVars
  <2>13. ASSUME NEW p \in Ids, FreePixmap(c, p) PROVE Types'
    BY <2>13 DEF FreePixmap, RemovePixmap, treeVars, inputVars, buttonVars, listenVars
  <2>14. ASSUME NEW w \in windows, NEW r \in {"NONE", "POINTER_ROOT", "PARENT"},
                SetInputFocus(c, w, r)
         PROVE  Types'
    BY <1>0, <2>14 DEF SetInputFocus, treeVars, drawVars, buttonVars, listenVars, ownerVars
  <2>15. ASSUME NEW w \in windows, GrabPointer(c, w) PROVE Types'
    BY <1>0, <2>15 DEF GrabPointer, treeVars, drawVars, buttonVars, listenVars, ownerVars
  <2>16. ASSUME NEW w \in windows, SetSelectionOwner(c, w) PROVE Types'
    BY <1>0, <2>16 DEF SetSelectionOwner, treeVars, drawVars, inputVars, buttonVars, listenVars, ownerVars
  <2>17. CASE UngrabPointer(c)
    BY <2>17 DEF UngrabPointer, NoGrab, treeVars, drawVars, buttonVars, listenVars, ownerVars
  <2>18. CASE WarpPointer(c)
    BY <2>18 DEF WarpPointer, drawVars, inputVars, buttonVars, listenVars, ownerVars
  <2> HIDE DEF Types, Core, AllWindows
  <2> QED
    BY <1>1, <2>1, <2>2, <2>3, <2>4, <2>5, <2>6, <2>7, <2>8, <2>9, <2>10, <2>11, <2>12,
       <2>13, <2>14, <2>15, <2>16, <2>17, <2>18
    DEF ClientStep
<1>2. ASSUME NEW c \in Clients, FreeStep(c) PROVE Types'
  <2>1. CASE Disconnect(c)
    BY <2>1 DEF Disconnect, treeVars, drawVars, inputVars, buttonVars, listenVars
  <2>2. ASSUME NEW w \in ownedWindows[c], FreeWindow(c, w) PROVE Types'
    BY <2>2, OwnedIsWindow, DestroyTypes DEF FreeWindow, buttonVars
  <2>3. ASSUME NEW p \in ownedPixmaps[c], FreeOwnedPixmap(c, p) PROVE Types'
    BY <2>3 DEF FreeOwnedPixmap, RemovePixmap, treeVars, inputVars, buttonVars, listenVars
  <2>4. CASE FreeListeners(c)
    <3>1. /\ selected' \in [AllWindows -> [Clients -> SUBSET EventNames]]
          /\ remembered' \in [Clients -> [AllWindows -> SUBSET EventNames]]
      BY <2>4 DEF FreeListeners
    <3> QED
      BY <2>4, <3>1 DEF FreeListeners, treeVars, drawVars, inputVars, buttonVars
  <2> QED
    BY <1>2, <2>1, <2>2, <2>3, <2>4 DEF FreeStep
<1>3. ASSUME InputStep PROVE Types'
  <2>1. FindPointWindow \in AllWindows
    BY <1>0, FindPointWindowIsWindow
  <2>2. CASE PointerMove
    BY <2>2 DEF PointerMove, drawVars, buttonVars, listenVars, ownerVars
  <2>3. CASE KeyEvent
    BY <2>3 DEF KeyEvent, treeVars, drawVars, buttonVars, listenVars, ownerVars
  <2>4. CASE SetRelativeMouse
    BY <2>4 DEF SetRelativeMouse, treeVars, drawVars, inputVars, listenVars, ownerVars
  <2>5. ASSUME NEW b \in Buttons, ButtonPress(b) PROVE Types'
    <3>1. grab' \in [window : AllWindows \cup {None}, client : Clients \cup {None}, withButtons : BOOLEAN]
      <4>1. CASE grab' = grab
        BY <4>1
      <4>2. CASE ImplicitGrab
        <5>1. PICK g \in Nearest(pointWindow, "press"), d \in Clients :
                grab' = [window |-> g, client |-> d, withButtons |-> TRUE]
          BY <4>2 DEF ImplicitGrab
        <5>2. g \in AllWindows
          BY <1>0 DEF Nearest
        <5> QED
          BY <5>1, <5>2
      <4> QED
        BY <2>5, <4>1, <4>2 DEF ButtonPress
    <3>2. focus' \in [window : AllWindows \cup {None}, revertTo : {"NONE", "POINTER_ROOT", "PARENT"}]
      BY <2>1, <2>5 DEF ButtonPress, FocusApplication
    <3> QED
      BY <2>5, <3>1, <3>2 DEF ButtonPress, treeVars, drawVars, listenVars, ownerVars
  <2>6. ASSUME NEW b \in Buttons, ButtonRelease(b) PROVE Types'
    BY <2>6 DEF ButtonRelease, NoGrab, treeVars, drawVars, listenVars, ownerVars
  <2> QED
    BY <1>3, <2>2, <2>3, <2>4, <2>5, <2>6 DEF InputStep
<1> QED
  BY <1>1, <1>2, <1>3 DEF Next

(* Destroying a subtree takes exactly its windows from their owners.        *)
LEMMA DestroyOwned ==
  ASSUME Core, NEW w \in windows, w # Root, Destroy(w),
         UNCHANGED <<pixmaps, client, ownedPixmaps>>
  PROVE  ResourcesOwned'
<1>1. ASSUME NEW c \in Clients
      PROVE  ownedWindows'[c] = {x \in windows' \cap Ids : ClientOf[x] = c}
  BY DEF Destroy, OwnedWithout, Core, ResourcesOwned
<1>2. \A c \in Clients : ownedWindows'[c] \subseteq ownedWindows[c]
  BY DEF Destroy, OwnedWithout
<1> QED
  BY <1>1, <1>2 DEF Core, ResourcesOwned

LEMMA RemovePixmapOwned ==
  ASSUME Core, NEW p, RemovePixmap(p),
         UNCHANGED <<windows, client, ownedWindows>>
  PROVE  ResourcesOwned'
<1>1. pixmaps' = pixmaps \ {p} /\ \A c \in Clients : ownedPixmaps'[c] = ownedPixmaps[c] \ {p}
  BY DEF RemovePixmap
<1>2. \A q \in Ids : ClientOf[q] \in Clients
  BY WindowsAssumption DEF WindowsAssumption
<1>3. "PixmapFromBuffer" \notin Requests => \A q \in pixmaps' : q \in ownedPixmaps'[ClientOf[q]]
  <2> SUFFICES ASSUME "PixmapFromBuffer" \notin Requests, NEW q \in pixmaps'
               PROVE  q \in ownedPixmaps'[ClientOf[q]]
    OBVIOUS
  <2>1. q \in pixmaps /\ q # p /\ q \in Ids
    BY <1>1 DEF Core, Types
  <2>2. q \in ownedPixmaps[ClientOf[q]]
    BY <2>1 DEF Core, ResourcesOwned
  <2> QED
    BY <1>1, <1>2, <2>1, <2>2
<1> QED
  BY <1>1, <1>3 DEF Core, ResourcesOwned

LEMMA OwnedPreserved ==
  ASSUME Core, Next
  PROVE  ResourcesOwned'
<1> USE DEF ResourcesOwned
<1>1. CASE UNCHANGED <<windows, pixmaps, client, ownedWindows, ownedPixmaps>>
  BY <1>1 DEF Core
<1>2. ASSUME NEW c \in Clients, Connect(c) PROVE ResourcesOwned'
  BY <1>2 DEF Connect, treeVars, drawVars, Core, Types
<1>3. ASSUME NEW c \in Clients, NEW w \in Ids, NEW p \in windows, NEW o, NEW mask, NEW k,
             CreateWindow(c, w, p, k, o, mask)
      PROVE  ResourcesOwned'
  <2>1. ASSUME NEW d \in Clients
        PROVE  ownedWindows'[d] = {x \in windows' \cap Ids : ClientOf[x] = d}
    BY <1>3 DEF CreateWindow, Core, Types
  <2>2. \A d \in Clients : d # c => ownedWindows'[d] = ownedWindows[d]
    BY <1>3 DEF CreateWindow, Core, Types
  <2>3. UNCHANGED <<client, pixmaps, ownedPixmaps>> /\ client[c] = "connected"
    BY <1>3 DEF CreateWindow, Handles
  <2> QED
    BY <2>1, <2>2, <2>3 DEF Core
<1>4. ASSUME NEW c \in Clients, NEW w \in windows, DestroyWindow(c, w) PROVE ResourcesOwned'
  BY <1>4, DestroyOwned DEF DestroyWindow
<1>5. ASSUME NEW c \in Clients, NEW p \in Ids, CreatePixmap(c, p) PROVE ResourcesOwned'
  <2>1. UNCHANGED <<windows, client, ownedWindows>> /\ client[c] = "connected" /\ ClientOf[p] = c
    BY <1>5 DEF CreatePixmap, Handles, treeVars
  <2>2. pixmaps' = pixmaps \cup {p} /\ ownedPixmaps' = [ownedPixmaps EXCEPT ![c] = @ \cup {p}]
    BY <1>5 DEF CreatePixmap
  <2>3. \A d \in Clients : ownedPixmaps'[d] = IF d = c THEN ownedPixmaps[d] \cup {p} ELSE ownedPixmaps[d]
    <3>1. ownedPixmaps \in [Clients -> SUBSET Ids]
      BY DEF Core, Types
    <3> HIDE DEF ResourcesOwned
    <3> QED
      BY <2>2, <3>1
  <2>4. \A d \in Clients : ownedPixmaps'[d] \subseteq {q \in pixmaps' : ClientOf[q] = d}
    BY <2>1, <2>2, <2>3 DEF Core
  <2>5. "PixmapFromBuffer" \notin Requests => \A q \in pixmaps' : q \in ownedPixmaps'[ClientOf[q]]
    <3>1. \A q \in Ids : ClientOf[q] \in Clients
      BY WindowsAssumption DEF WindowsAssumption
    <3>2. "PixmapFromBuffer" \notin Requests => \A q \in pixmaps : q \in ownedPixmaps[ClientOf[q]]
      BY DEF Core
    <3>3. \A q \in pixmaps' : q \in Ids /\ (q = p \/ q \in pixmaps)
      BY <2>2 DEF Core, Types
    <3>4. p \in ownedPixmaps'[ClientOf[p]]
      BY <2>1, <2>3
    <3> HIDE DEF ResourcesOwned
    <3> QED
      BY <2>3, <3>1, <3>2, <3>3, <3>4
  <2>6. \A d \in Clients : client'[d] # "connected" => ownedWindows'[d] = {} /\ ownedPixmaps'[d] = {}
    BY <2>1, <2>3 DEF Core
  <2> QED
    BY <2>1, <2>4, <2>5, <2>6 DEF Core
<1>6. ASSUME NEW c \in Clients, NEW p \in Ids, PixmapFromBuffer(c, p) PROVE ResourcesOwned'
  <2>1. "PixmapFromBuffer" \in Requests /\ pixmaps \subseteq pixmaps'
    BY <1>6 DEF PixmapFromBuffer, Handles
  <2>2. UNCHANGED <<windows, client, ownedWindows, ownedPixmaps>>
    BY <1>6 DEF PixmapFromBuffer, treeVars, ownerVars
  <2> QED
    BY <2>1, <2>2 DEF Core
<1>7. ASSUME NEW c \in Clients, NEW p \in Ids, FreePixmap(c, p) PROVE ResourcesOwned'
  BY <1>7, RemovePixmapOwned DEF FreePixmap, treeVars
<1>8. ASSUME NEW c \in Clients, NEW w \in ownedWindows[c], FreeWindow(c, w) PROVE ResourcesOwned'
  BY <1>8, OwnedIsWindow, DestroyOwned DEF FreeWindow
<1>9. ASSUME NEW c \in Clients, NEW p \in ownedPixmaps[c], FreeOwnedPixmap(c, p)
      PROVE  ResourcesOwned'
  BY <1>9, RemovePixmapOwned DEF FreeOwnedPixmap, treeVars
<1>10. ASSUME NEW c \in Clients, FreeListeners(c) PROVE ResourcesOwned'
  BY <1>10 DEF FreeListeners, treeVars, drawVars, Core, Types
<1> HIDE DEF ResourcesOwned
<1>11. ASSUME NEW c \in Clients, ClientStep(c) PROVE ResourcesOwned'
  BY <1>11, <1>1, <1>2, <1>3, <1>4, <1>5, <1>6, <1>7
  DEF ClientStep, ChangeEventMask, ChangeOverrideRedirect, MapWindow, UnmapWindow, ConfigureWindow,
      ReparentWindow, CrashOnTree, SetInputFocus, GrabPointer, SetSelectionOwner, UngrabPointer,
      WarpPointer, treeVars, drawVars, ownerVars
<1>12. ASSUME NEW c \in Clients, FreeStep(c) PROVE ResourcesOwned'
  BY <1>12, <1>1, <1>8, <1>9, <1>10 DEF FreeStep, Disconnect, treeVars, drawVars
<1>13. ASSUME InputStep PROVE ResourcesOwned'
  BY <1>13, <1>1
  DEF InputStep, PointerMove, KeyEvent, SetRelativeMouse, ButtonPress, ButtonRelease, treeVars,
      drawVars, ownerVars
<1> QED
  BY <1>11, <1>12, <1>13 DEF Next

LEMMA CoreInit == Init => Core
<1> SUFFICES ASSUME Init PROVE Core
  OBVIOUS
<1>1. Types
  BY WindowsAssumption DEF Init, Types, NoGrab, Unowned, AllWindows
<1>2. Tree
  BY DEF Init, Tree, Rooted, Subtree, AllWindows
<1>3. ResourcesOwned
  BY WindowsAssumption DEF Init, WindowsAssumption, ResourcesOwned
<1> QED
  BY <1>1, <1>2, <1>3 DEF Core

LEMMA CoreStutter == Core /\ UNCHANGED vars => Core'
<1> SUFFICES ASSUME Core, UNCHANGED vars PROVE Core'
  OBVIOUS
<1> USE DEF vars, treeVars, drawVars, inputVars, buttonVars, listenVars, ownerVars
<1>1. Types'
  BY DEF Core, Types
<1>2. Tree'
  BY DEF Core, Tree, Rooted, Subtree
<1>3. ResourcesOwned'
  BY DEF Core, ResourcesOwned
<1> QED
  BY <1>1, <1>2, <1>3 DEF Core

LEMMA CoreStep == Core /\ [Next]_vars => Core'
  BY TypesPreserved, TreePreserved, OwnedPreserved, CoreStutter DEF Core

(* The tree stays a tree, and each client owns exactly its windows, whatever *)
(* the requests, disconnects and input events and their order               *)
(* (WindowManager, XClient.freeResources).                                  *)
THEOREM CoreCorrect == Spec => [](Rooted /\ ResourcesOwned)
<1>1. Core => Rooted /\ ResourcesOwned
  BY DEF Core, Tree
<1> QED
  BY CoreInit, CoreStep, <1>1, PTL DEF Spec

-----------------------------------------------------------------------------
(* The children of windows.  A list of children has no window twice, so the  *)
(* operations on lists behave as those on sets.                             *)

LEMMA AppendChild ==
  ASSUME NEW s \in Seq(Ids), IsInjective(s), NEW e \in Ids, e \notin ToSet(s)
  PROVE  /\ Append(s, e) \in Seq(Ids)
         /\ IsInjective(Append(s, e))
         /\ ToSet(Append(s, e)) = ToSet(s) \cup {e}
  BY DEF IsInjective, ToSet

LEMMA RemoveChild ==
  ASSUME NEW s \in Seq(Ids), IsInjective(s), NEW e
  PROVE  /\ RemoveFirst(s, e) \in Seq(Ids)
         /\ IsInjective(RemoveFirst(s, e))
         /\ ToSet(RemoveFirst(s, e)) = ToSet(s) \ {e}
<1>1. CASE e \notin ToSet(s)
  <2>1. RemoveFirst(s, e) = s
    BY <1>1 DEF RemoveFirst, ToSet
  <2> QED
    BY <1>1, <2>1
<1>2. CASE e \in ToSet(s)
  <2>1. PICK k \in 1 .. Len(s) : s[k] = e
    BY <1>2 DEF ToSet
  <2>2. {i \in 1 .. Len(s) : s[i] = e} = {k}
    BY <2>1 DEF IsInjective
  <2>3. SelectInSeq(s, LAMBDA v : v = e) = k
    BY <2>2 DEF SelectInSeq, Min
  <2>4. RemoveFirst(s, e) = RemoveAt(s, k)
    BY <2>1, <2>3 DEF RemoveFirst
  <2> DEFINE r == RemoveAt(s, k)
  <2>5. /\ r \in Seq(Ids)
        /\ Len(r) = Len(s) - 1
        /\ \A i \in 1 .. Len(r) : r[i] = IF i < k THEN s[i] ELSE s[i + 1]
    <3> DEFINE a == SubSeq(s, 1, k - 1)
               b == SubSeq(s, k + 1, Len(s))
    <3>1. a \in Seq(Ids) /\ Len(a) = k - 1 /\ \A i \in 1 .. k - 1 : a[i] = s[i]
      BY <2>1, SubSeqProperties
    <3>2. b \in Seq(Ids) /\ Len(b) = Len(s) - k /\ \A i \in 1 .. Len(s) - k : b[i] = s[k + i]
      BY <2>1, SubSeqProperties
    <3>3. r = a \o b
      BY DEF RemoveAt
    <3> HIDE DEF a, b, r
    <3>4. /\ r \in Seq(Ids) /\ Len(r) = Len(a) + Len(b)
          /\ \A i \in 1 .. Len(a) + Len(b) : r[i] = IF i <= Len(a) THEN a[i] ELSE b[i - Len(a)]
      BY <3>1, <3>2, <3>3, ConcatProperties
    <3>5. ASSUME NEW i \in 1 .. Len(r) PROVE r[i] = IF i < k THEN s[i] ELSE s[i + 1]
      <4>1. CASE i < k
        BY <2>1, <3>1, <3>2, <3>4, <4>1
      <4>2. CASE i >= k
        <5>1. r[i] = b[i - (k - 1)] /\ i - (k - 1) \in 1 .. Len(s) - k
          BY <2>1, <3>1, <3>2, <3>4, <4>2
        <5>2. k + (i - (k - 1)) = i + 1
          BY <2>1
        <5> QED
          BY <3>2, <4>2, <5>1, <5>2
      <4> QED
        BY <2>1, <4>1, <4>2
    <3> QED
      BY <2>1, <3>1, <3>2, <3>4, <3>5
  <2> HIDE DEF r
  <2>6. IsInjective(r)
    BY <2>5 DEF IsInjective
  <2>7. ASSUME NEW x \in ToSet(r) PROVE x \in ToSet(s) \ {e}
    BY <2>1, <2>5 DEF ToSet, IsInjective
  <2>8. ASSUME NEW x \in ToSet(s), x # e PROVE x \in ToSet(r)
    <3>1. PICK i \in 1 .. Len(s) : s[i] = x
      BY DEF ToSet
    <3>2. CASE i < k
      BY <2>1, <2>5, <3>1, <3>2 DEF ToSet
    <3>3. CASE i > k
      <4>1. i - 1 \in 1 .. Len(r) /\ r[i - 1] = x
        BY <2>1, <2>5, <3>1, <3>3
      <4> QED
        BY <2>5, <4>1 DEF ToSet
    <3> QED
      BY <2>1, <2>8, <3>1, <3>2, <3>3
  <2> QED
    BY <2>4, <2>5, <2>6, <2>7, <2>8 DEF r
<1> QED
  BY <1>1, <1>2

LEMMA InsertChild ==
  ASSUME NEW s \in Seq(Ids), IsInjective(s), NEW e \in Ids, e \notin ToSet(s),
         NEW k \in 1 .. Len(s) + 1
  PROVE  /\ InsertAt(s, k, e) \in Seq(Ids)
         /\ IsInjective(InsertAt(s, k, e))
         /\ ToSet(InsertAt(s, k, e)) = ToSet(s) \cup {e}
<1> DEFINE r == InsertAt(s, k, e)
<1>1. /\ r \in Seq(Ids)
      /\ Len(r) = Len(s) + 1
      /\ \A i \in 1 .. Len(r) : r[i] = IF i < k THEN s[i] ELSE IF i = k THEN e ELSE s[i - 1]
  <2> DEFINE a == SubSeq(s, 1, k - 1)
             b == SubSeq(s, k, Len(s))
             c == a \o <<e>>
  <2>1. a \in Seq(Ids) /\ Len(a) = k - 1 /\ \A i \in 1 .. k - 1 : a[i] = s[i]
    BY SubSeqProperties
  <2>2. /\ b \in Seq(Ids)
        /\ Len(b) = Len(s) + 1 - k
        /\ \A i \in 1 .. Len(s) + 1 - k : b[i] = s[k + i - 1]
    BY SubSeqProperties
  <2>3. r = c \o b
    BY DEF InsertAt
  <2>4. <<e>> \in Seq(Ids) /\ Len(<<e>>) = 1 /\ <<e>>[1] = e
    OBVIOUS
  <2> HIDE DEF a, b, r
  <2>5. c \in Seq(Ids) /\ Len(c) = k /\ \A i \in 1 .. k : c[i] = IF i < k THEN s[i] ELSE e
    BY <2>1, <2>4, ConcatProperties
  <2> HIDE DEF c
  <2>6. /\ r \in Seq(Ids) /\ Len(r) = Len(c) + Len(b)
        /\ \A i \in 1 .. Len(c) + Len(b) : r[i] = IF i <= Len(c) THEN c[i] ELSE b[i - Len(c)]
    BY <2>2, <2>3, <2>5, ConcatProperties
  <2>7. ASSUME NEW i \in 1 .. Len(r), i > k PROVE r[i] = s[i - 1]
    <3>1. r[i] = b[i - k] /\ i - k \in 1 .. Len(s) + 1 - k
      BY <2>2, <2>5, <2>6, <2>7
    <3>2. k + (i - k) - 1 = i - 1
      OBVIOUS
    <3> QED
      BY <2>2, <3>1, <3>2
  <2>8. ASSUME NEW i \in 1 .. Len(r), i <= k PROVE r[i] = IF i < k THEN s[i] ELSE e
    BY <2>2, <2>5, <2>6, <2>8
  <2> QED
    BY <2>2, <2>5, <2>6, <2>7, <2>8
<1> HIDE DEF r
<1>2. IsInjective(r)
  <2>1. \A i, j \in 1 .. Len(s) : s[i] = s[j] => i = j
    BY DEF IsInjective
  <2>2. \A i \in 1 .. Len(s) : s[i] # e
    BY DEF ToSet
  <2>3. \A i \in 1 .. Len(r) : r[i] = e => i = k
    BY <1>1, <2>2
  <2>4. ASSUME NEW i \in 1 .. Len(r), NEW j \in 1 .. Len(r), i < j PROVE r[i] # r[j]
    <3>1. CASE i = k \/ j = k
      BY <1>1, <2>3, <2>4, <3>1
    <3>2. CASE j < k
      BY <1>1, <2>1, <2>4, <3>2
    <3>3. CASE k < i
      <4>1. r[i] = s[i - 1] /\ r[j] = s[j - 1] /\ i - 1 \in 1 .. Len(s) /\ j - 1 \in 1 .. Len(s)
        BY <1>1, <2>4, <3>3
      <4> QED
        BY <2>1, <2>4, <4>1
    <3>4. CASE i < k /\ k < j
      BY <1>1, <2>1, <2>4, <3>4
    <3> QED
      BY <2>4, <3>1, <3>2, <3>3, <3>4
  <2>5. DOMAIN r = 1 .. Len(r)
    BY <1>1
  <2> QED
    BY <2>4, <2>5 DEF IsInjective
<1>3. ASSUME NEW x \in ToSet(r) PROVE x \in ToSet(s) \cup {e}
  <2>1. PICK i \in 1 .. Len(r) : r[i] = x
    BY <1>1 DEF ToSet
  <2> QED
    BY <1>1, <2>1 DEF ToSet
<1>4. ASSUME NEW x \in ToSet(s) \cup {e} PROVE x \in ToSet(r)
  <2>1. CASE x = e
    BY <1>1, <2>1 DEF ToSet
  <2>2. CASE x \in ToSet(s)
    <3>1. PICK i \in 1 .. Len(s) : s[i] = x
      BY <2>2 DEF ToSet
    <3>2. CASE i < k
      BY <1>1, <3>1, <3>2 DEF ToSet
    <3>3. CASE i >= k
      <4>1. i + 1 \in 1 .. Len(r) /\ r[i + 1] = x
        BY <1>1, <3>1, <3>3
      <4> QED
        BY <1>1, <4>1 DEF ToSet
    <3> QED
      BY <3>1, <3>2, <3>3
  <2> QED
    BY <1>4, <2>1, <2>2
<1> QED
  BY <1>1, <1>2, <1>3, <1>4 DEF r

(* A window is counted once in a list of children that holds it.            *)
LEMMA CountChild ==
  ASSUME NEW s \in Seq(Ids), IsInjective(s), NEW w
  PROVE  Cardinality({i \in 1 .. Len(s) : s[i] = w}) = IF w \in ToSet(s) THEN 1 ELSE 0
<1>1. CASE w \in ToSet(s)
  <2>1. PICK k \in 1 .. Len(s) : s[k] = w
    BY <1>1 DEF ToSet
  <2>2. {i \in 1 .. Len(s) : s[i] = w} = {k}
    BY <2>1 DEF IsInjective
  <2> QED
    BY <1>1, <2>2, FS_Singleton
<1>2. CASE w \notin ToSet(s)
  <2>1. {i \in 1 .. Len(s) : s[i] = w} = {}
    BY <1>2 DEF ToSet
  <2> QED
    BY <1>2, <2>1, FS_EmptySet
<1> QED
  BY <1>1, <1>2

ChildrenOf(p) == {w \in windows : parent[w] = p}

Listed ==
  /\ children \in [AllWindows -> Seq(Ids)]
  /\ \A p \in AllWindows : IsInjective(children[p]) /\ ToSet(children[p]) = ChildrenOf(p)

LEMMA ListedMatch ==
  ASSUME Tree, Listed
  PROVE  ChildrenMatch
<1> SUFFICES ASSUME NEW w \in AllWindows, NEW p \in AllWindows
             PROVE  Cardinality({i \in 1 .. Len(children[p]) : children[p][i] = w}) =
                      IF w \in windows /\ parent[w] = p THEN 1 ELSE 0
  BY DEF ChildrenMatch
<1>1. children[p] \in Seq(Ids) /\ IsInjective(children[p]) /\ ToSet(children[p]) = ChildrenOf(p)
  BY DEF Listed
<1>2. w \in ChildrenOf(p) <=> w \in windows /\ parent[w] = p
  BY DEF ChildrenOf
<1> QED
  BY <1>1, <1>2, CountChild

LEMMA ListedFrame ==
  ASSUME Listed, UNCHANGED <<windows, parent, children>>
  PROVE  Listed'
  BY DEF Listed, ChildrenOf, IsInjective, ToSet

(* A list from which a child is removed.                                    *)
LEMMA DetachedList ==
  ASSUME Core, Listed, NEW w \in windows, w # Root, NEW p \in AllWindows
  PROVE  /\ Detached(w)[p] \in Seq(Ids)
         /\ IsInjective(Detached(w)[p])
         /\ ToSet(Detached(w)[p]) = ChildrenOf(p) \ {w}
<1>1. children[p] \in Seq(Ids) /\ IsInjective(children[p]) /\ ToSet(children[p]) = ChildrenOf(p)
  BY DEF Listed
<1>2. CASE p = parent[w]
  <2>1. Detached(w)[p] = RemoveFirst(children[p], w)
    BY <1>2 DEF Detached, Listed
  <2> QED
    BY <1>1, <2>1, RemoveChild
<1>3. CASE p # parent[w]
  <2>1. Detached(w)[p] = children[p]
    BY <1>3 DEF Detached, Listed
  <2>2. w \notin ChildrenOf(p)
    BY <1>3 DEF ChildrenOf
  <2> QED
    BY <1>1, <2>1, <2>2
<1> QED
  BY <1>2, <1>3

LEMMA CreateListed ==
  ASSUME Core, Listed, NEW w \in Ids, NEW p \in windows, Grows(w, p),
         children' = [children EXCEPT ![p] = Append(@, w)]
  PROVE  Listed'
<1>1. p \in AllWindows /\ w \notin windows /\ w # p
  BY DEF Core, Tree, Grows
<1>2. ASSUME NEW q \in AllWindows
      PROVE  /\ children'[q] \in Seq(Ids)
             /\ IsInjective(children'[q])
             /\ ToSet(children'[q]) = ChildrenOf(q)'
  <2>1. children[q] \in Seq(Ids) /\ IsInjective(children[q]) /\ ToSet(children[q]) = ChildrenOf(q)
    BY DEF Listed
  <2>2. w \notin ChildrenOf(q)
    BY <1>1 DEF ChildrenOf
  <2>3. ChildrenOf(q)' = IF q = p THEN ChildrenOf(q) \cup {w} ELSE ChildrenOf(q)
    BY <1>1 DEF ChildrenOf, Grows, Core, Tree
  <2>4. CASE q = p
    <3>1. children'[q] = Append(children[q], w)
      BY <2>4 DEF Listed
    <3> QED
      BY <2>1, <2>2, <2>3, <2>4, <3>1, AppendChild
  <2>5. CASE q # p
    <3>1. children'[q] = children[q]
      BY <2>5 DEF Listed
    <3> QED
      BY <2>1, <2>3, <2>5, <3>1
  <2> QED
    BY <2>4, <2>5
<1>3. children' \in [AllWindows -> Seq(Ids)]
  <2>1. children'[p] \in Seq(Ids)
    BY <1>1, <1>2
  <2> QED
    BY <1>1, <2>1 DEF Listed
<1> QED
  BY <1>2, <1>3 DEF Listed

LEMMA ConfigureListed ==
  ASSUME Core, Listed, NEW w \in windows, w # Root, UNCHANGED <<windows, parent>>,
         NEW i \in 1 .. Len(RemoveFirst(children[parent[w]], w)) + 1,
         children' = [children EXCEPT ![parent[w]] =
                        InsertAt(RemoveFirst(children[parent[w]], w), i, w)]
  PROVE  Listed'
<1> DEFINE p == parent[w]
           rest == RemoveFirst(children[p], w)
<1>1. p \in AllWindows /\ w \in Ids
  BY ParentIsWindow DEF Core, Tree, AllWindows
<1>2. rest = Detached(w)[p]
  BY <1>1 DEF Detached, Listed
<1>3. rest \in Seq(Ids) /\ IsInjective(rest) /\ ToSet(rest) = ChildrenOf(p) \ {w}
  BY <1>1, <1>2, DetachedList
<1>4. w \in ChildrenOf(p)
  BY DEF ChildrenOf
<1>5. /\ InsertAt(rest, i, w) \in Seq(Ids)
      /\ IsInjective(InsertAt(rest, i, w))
      /\ ToSet(InsertAt(rest, i, w)) = ChildrenOf(p)
  <2> HIDE DEF rest
  <2>1. w \notin ToSet(rest)
    BY <1>3
  <2>2. i \in 1 .. Len(rest) + 1
    BY DEF rest
  <2>3. ChildrenOf(p) = ToSet(rest) \cup {w}
    BY <1>3, <1>4
  <2> HIDE DEF p
  <2> QED
    BY <1>1, <1>3, <2>1, <2>2, <2>3, InsertChild
<1>6. children' = [children EXCEPT ![p] = InsertAt(rest, i, w)]
  OBVIOUS
<1> HIDE DEF p, rest
<1>7. \A q \in AllWindows : children'[q] = IF q = p THEN InsertAt(rest, i, w) ELSE children[q]
  BY <1>6 DEF Listed
<1>8. children' \in [AllWindows -> Seq(Ids)]
  BY <1>1, <1>5, <1>6 DEF Listed
<1>9. \A q : ChildrenOf(q)' = ChildrenOf(q)
  BY DEF ChildrenOf
<1>10. ASSUME NEW q \in AllWindows
       PROVE  IsInjective(children'[q]) /\ ToSet(children'[q]) = ChildrenOf(q)'
  <2>1. CASE q = p
    BY <2>1, <1>5, <1>7, <1>9
  <2>2. CASE q # p
    BY <2>2, <1>7, <1>9 DEF Listed
  <2> QED
    BY <2>1, <2>2
<1> QED
  BY <1>8, <1>10 DEF Listed

LEMMA ReparentListed ==
  ASSUME Core, Listed, NEW w \in windows, NEW p \in windows, Moves(w, p),
         children' = [Detached(w) EXCEPT ![p] = Append(@, w)]
  PROVE  Listed'
<1>1. w # Root
  BY DEF Moves, Core, Tree, Rooted
<1>2. p \in AllWindows /\ w \in Ids
  BY <1>1 DEF Core, Tree, AllWindows
<1>3. DOMAIN Detached(w) = AllWindows
  BY DEF Detached, Listed
<1>4. ASSUME NEW q \in AllWindows
      PROVE  /\ children'[q] \in Seq(Ids)
             /\ IsInjective(children'[q])
             /\ ToSet(children'[q]) = ChildrenOf(q)'
  <2>1. /\ Detached(w)[q] \in Seq(Ids)
        /\ IsInjective(Detached(w)[q])
        /\ ToSet(Detached(w)[q]) = ChildrenOf(q) \ {w}
    BY <1>1, DetachedList
  <2>2. ChildrenOf(q)' = IF q = p THEN (ChildrenOf(q) \ {w}) \cup {w} ELSE ChildrenOf(q) \ {w}
    BY <1>2 DEF ChildrenOf, Moves, Core, Tree
  <2>3. CASE q = p
    <3>1. children'[q] = Append(Detached(w)[q], w)
      BY <1>3, <2>3
    <3>2. w \notin ToSet(Detached(w)[q])
      BY <2>1
    <3> QED
      BY <1>2, <2>1, <2>2, <2>3, <3>1, <3>2, AppendChild
  <2>4. CASE q # p
    <3>1. children'[q] = Detached(w)[q]
      BY <1>3, <2>4
    <3> QED
      BY <2>1, <2>2, <2>4, <3>1
  <2> QED
    BY <2>3, <2>4
<1>5. children' \in [AllWindows -> Seq(Ids)]
  <2>1. DOMAIN children' = AllWindows /\ children' = [q \in AllWindows |-> children'[q]]
    BY <1>3
  <2> QED
    BY <1>4, <2>1
<1> QED
  BY <1>4, <1>5 DEF Listed

LEMMA DestroyListed ==
  ASSUME Core, Listed, NEW w \in windows, w # Root, Destroy(w)
  PROVE  Listed'
<1> DEFINE D == Subtree(w)
<1>1. children' = [q \in AllWindows |-> IF q \in D THEN <<>> ELSE Detached(w)[q]]
  BY DEF Destroy
<1>2. w \in D
  BY SubtreeSelf
<1>3. ASSUME NEW x \in D, x # w PROVE parent[x] \in D
  BY <1>3, SubtreeParent
<1>4. ASSUME NEW x \in windows, parent[x] \in D PROVE x \in D
  BY <1>4, SubtreeChild
<1>5. \A q \in AllWindows : ChildrenOf(q)' = {x \in windows \ D : parent[x] = q}
  BY DEF Destroy, ChildrenOf, Core, Tree
<1> HIDE DEF D
<1>6. ASSUME NEW q \in AllWindows
      PROVE  /\ children'[q] \in Seq(Ids)
             /\ IsInjective(children'[q])
             /\ ToSet(children'[q]) = ChildrenOf(q)'
  <2>1. CASE q \in D
    <3>1. children'[q] = <<>>
      BY <1>1, <2>1
    <3>2. ChildrenOf(q)' = {}
      BY <1>4, <1>5, <2>1
    <3>3. IsInjective(<<>>) /\ ToSet(<<>>) = {} /\ <<>> \in Seq(Ids)
      BY DEF IsInjective, ToSet
    <3> QED
      BY <3>1, <3>2, <3>3
  <2>2. CASE q \notin D
    <3>1. children'[q] = Detached(w)[q]
      BY <1>1, <2>2
    <3>2. ChildrenOf(q)' = ChildrenOf(q) \ {w}
      BY <1>2, <1>3, <1>5, <2>2 DEF ChildrenOf
    <3> QED
      BY <3>1, <3>2, DetachedList
  <2> QED
    BY <2>1, <2>2
<1>7. children' \in [AllWindows -> Seq(Ids)]
  <2>1. children' = [q \in AllWindows |-> children'[q]]
    BY <1>1
  <2> QED
    BY <1>6, <2>1
<1> QED
  BY <1>6, <1>7 DEF Listed

LEMMA ListedPreserved ==
  ASSUME Core, Listed, Next
  PROVE  Listed'
<1>0. windows \subseteq AllWindows
  BY DEF Core, Tree
<1>1. CASE UNCHANGED <<windows, parent, children>>
  BY <1>1, ListedFrame
<1>2. ASSUME NEW c \in Clients, NEW w \in Ids, NEW p \in windows, NEW o, NEW mask, NEW k,
             CreateWindow(c, w, p, k, o, mask)
      PROVE  Listed'
  <2>1. Grows(w, p)
    BY <1>2 DEF CreateWindow, Grows, AllWindows
  <2> QED
    BY <1>2, <2>1, CreateListed DEF CreateWindow
<1>3. ASSUME NEW c \in Clients, NEW w \in windows, ConfigureWindow(c, w) PROVE Listed'
  BY <1>3, ConfigureListed DEF ConfigureWindow
<1>4. ASSUME NEW c \in Clients, NEW w \in windows, NEW p \in windows, ReparentWindow(c, w, p)
      PROVE  Listed'
  <2>1. Moves(w, p)
    BY <1>4 DEF ReparentWindow, Moves
  <2> QED
    BY <1>4, <2>1, ReparentListed DEF ReparentWindow
<1>5. ASSUME NEW c \in Clients, NEW w \in windows, DestroyWindow(c, w) PROVE Listed'
  BY <1>5, DestroyListed DEF DestroyWindow
<1>6. ASSUME NEW c \in Clients, NEW w \in ownedWindows[c], FreeWindow(c, w) PROVE Listed'
  BY <1>6, OwnedIsWindow, DestroyListed DEF FreeWindow
<1>7. ASSUME NEW c \in Clients, ClientStep(c) PROVE Listed'
  BY <1>7, <1>1, <1>2, <1>3, <1>4, <1>5
  DEF ClientStep, Connect, ChangeEventMask, ChangeOverrideRedirect, MapWindow, UnmapWindow,
      CrashOnTree, CreatePixmap, PixmapFromBuffer, FreePixmap, SetInputFocus, GrabPointer,
      SetSelectionOwner, UngrabPointer, WarpPointer, treeVars
<1>8. ASSUME NEW c \in Clients, FreeStep(c) PROVE Listed'
  BY <1>8, <1>1, <1>6 DEF FreeStep, Disconnect, FreeOwnedPixmap, FreeListeners, treeVars
<1>9. ASSUME InputStep PROVE Listed'
  BY <1>9, <1>1
  DEF InputStep, PointerMove, KeyEvent, SetRelativeMouse, ButtonPress, ButtonRelease, treeVars
<1> QED
  BY <1>7, <1>8, <1>9 DEF Next

LEMMA ListedInit == Init => Listed
<1> SUFFICES ASSUME Init PROVE Listed
  OBVIOUS
<1>1. IsInjective(<<>>) /\ ToSet(<<>>) = {} /\ <<>> \in Seq(Ids)
  BY DEF IsInjective, ToSet
<1>2. \A p \in AllWindows : ChildrenOf(p) = {}
  <2>1. windows = {Root} /\ parent[Root] = None
    BY DEF Init, AllWindows
  <2> QED
    BY <2>1, RootIsNotNone DEF ChildrenOf
<1>3. children \in [AllWindows -> Seq(Ids)] /\ \A p \in AllWindows : children[p] = <<>>
  BY <1>1 DEF Init
<1> QED
  BY <1>1, <1>2, <1>3 DEF Listed

LEMMA ListedStep == Core /\ Listed /\ [Next]_vars => Listed'
  BY ListedPreserved, ListedFrame DEF vars, treeVars

(* Creating, restacking, reparenting and destroying windows, in any order,   *)
(* leaves every window once in the children of its parent and nowhere else   *)
(* (Window.addChild, removeChild, moveChildAbove, moveChildBelow).           *)
THEOREM TreeCorrect == Spec => []TreeWellFormed
<1>1. Core /\ Listed => TreeWellFormed
  BY ListedMatch DEF TreeWellFormed, Core, Tree
<1> QED
  BY CoreInit, CoreStep, ListedInit, ListedStep, <1>1, PTL DEF Spec

-----------------------------------------------------------------------------
(* Drawables.                                                               *)

LEMMA DestroyDrawables ==
  ASSUME DrawablesMatch, NEW w, Destroy(w), UNCHANGED pixmaps
  PROVE  DrawablesMatch'
  BY DEF DrawablesMatch, Destroy, DrawablesWithout

LEMMA RemovePixmapDrawables ==
  ASSUME DrawablesMatch, NEW p \in pixmaps, RemovePixmap(p), UNCHANGED inputOutput
  PROVE  DrawablesMatch'
  BY DEF DrawablesMatch, RemovePixmap

LEMMA DrawablesPreserved ==
  ASSUME Core, DrawablesMatch, Next
  PROVE  DrawablesMatch'
<1>1. CASE UNCHANGED drawVars
  BY <1>1 DEF DrawablesMatch, drawVars
<1>2. ASSUME NEW c \in Clients, NEW w \in Ids, NEW p \in windows, NEW o, NEW mask, NEW k,
             CreateWindow(c, w, p, k, o, mask)
      PROVE  DrawablesMatch'
  BY <1>2 DEF CreateWindow, DrawablesMatch
<1>3. ASSUME NEW c \in Clients, NEW p \in Ids,
             CreatePixmap(c, p) \/ PixmapFromBuffer(c, p) \/ FreePixmap(c, p)
      PROVE  DrawablesMatch'
  BY <1>3, RemovePixmapDrawables DEF CreatePixmap, PixmapFromBuffer, FreePixmap, DrawablesMatch
<1>4. ASSUME NEW c \in Clients, NEW w \in windows, DestroyWindow(c, w) PROVE DrawablesMatch'
  BY <1>4, DestroyDrawables DEF DestroyWindow
<1>5. ASSUME NEW c \in Clients, NEW w, FreeWindow(c, w) PROVE DrawablesMatch'
  BY <1>5, DestroyDrawables DEF FreeWindow
<1>6. ASSUME NEW c \in Clients, NEW p, FreeOwnedPixmap(c, p) PROVE DrawablesMatch'
  <2>1. p \in pixmaps
    BY <1>6 DEF FreeOwnedPixmap, Core, ResourcesOwned
  <2> QED
    BY <1>6, <2>1, RemovePixmapDrawables DEF FreeOwnedPixmap
<1>7. ASSUME NEW c \in Clients, ClientStep(c) PROVE DrawablesMatch'
  BY <1>7, <1>1, <1>2, <1>3, <1>4
  DEF ClientStep, Connect, ChangeEventMask, ChangeOverrideRedirect, MapWindow, UnmapWindow,
      ConfigureWindow, ReparentWindow, CrashOnTree, SetInputFocus, GrabPointer,
      SetSelectionOwner, UngrabPointer, WarpPointer
<1>8. ASSUME NEW c \in Clients, FreeStep(c) PROVE DrawablesMatch'
  BY <1>8, <1>1, <1>5, <1>6 DEF FreeStep, Disconnect, FreeListeners
<1>9. ASSUME InputStep PROVE DrawablesMatch'
  BY <1>9, <1>1
  DEF InputStep, PointerMove, KeyEvent, SetRelativeMouse, ButtonPress, ButtonRelease
<1> QED
  BY <1>7, <1>8, <1>9 DEF Next

(* Every drawable is that of a window or of a pixmap and of one only: none   *)
(* leaks and none is removed twice (DrawableManager).                       *)
THEOREM DrawablesCorrect == Spec => []DrawablesMatch
<1>1. Init => DrawablesMatch
  BY DEF Init, DrawablesMatch
<1>2. DrawablesMatch /\ UNCHANGED vars => DrawablesMatch'
  BY DEF DrawablesMatch, vars, drawVars
<1>3. Core /\ DrawablesMatch /\ [Next]_vars => Core' /\ DrawablesMatch'
  BY <1>2, CoreStep, DrawablesPreserved
<1> QED
  BY CoreInit, <1>1, <1>3, PTL DEF Spec

-----------------------------------------------------------------------------
(* What points into the tree.                                               *)

Pointers == FocusLive /\ PointWindowLive /\ SelectionLive

LEMMA DestroyPointers ==
  ASSUME Core, Tree', Pointers, NEW w \in windows, w # Root, Destroy(w)
  PROVE  Pointers'
<1>1. parent[w] \in windows' /\ Root \in windows'
  BY ParentOutside DEF Core, Destroy, Tree, Rooted
<1>2. None \notin Subtree(w)
  BY SubtreeWindows, RootIsNotNone DEF Core, Tree
<1>3. FocusLive'
  <2>1. focus.window \in Subtree(w) => Revert(w) \in windows' /\ focus.revertTo # "NONE"
    <3>1. focus.window \in Subtree(w) => focus.revertTo \in {"POINTER_ROOT", "PARENT"}
      BY <1>2 DEF Core, Types, Pointers, FocusLive
    <3>2. parent[w] # None
      BY ParentOutside, RootIsNotNone DEF Core, Tree
    <3> QED
      BY <1>1, <3>1, <3>2 DEF Revert
  <2>2. CASE focus.window \in Subtree(w)
    BY <2>1, <2>2 DEF Core, Types, FocusLive, Destroy, FocusWithout
  <2>3. CASE focus.window \notin Subtree(w)
    BY <2>3 DEF Pointers, FocusLive, Destroy, FocusWithout
  <2> QED
    BY <2>2, <2>3
<1>4. PointWindowLive'
  BY FindPointWindowNext DEF PointWindowLive, Destroy, UpdatePointWindow
<1>5. SelectionLive'
  BY DEF Pointers, SelectionLive, Destroy, SelectionWithout
<1> QED
  BY <1>3, <1>4, <1>5 DEF Pointers

LEMMA PointersPreserved ==
  ASSUME Core, Tree', Pointers, Next
  PROVE  Pointers'
<1> USE DEF Pointers
<1>1. CASE UNCHANGED <<windows, focus, pointWindow, selection>>
  BY <1>1 DEF FocusLive, PointWindowLive, SelectionLive
(* Steps that change the tree or what is mapped without removing a window.   *)
<1>2. ASSUME windows \subseteq windows', UNCHANGED selection,
             UNCHANGED pointWindow \/ UpdatePointWindow,
             \/ UNCHANGED focus
             \/ focus'.window \in windows /\ focus'.revertTo # "NONE"
      PROVE  Pointers'
  <2>1. FocusLive'
    BY <1>2 DEF FocusLive
  <2>2. PointWindowLive'
    BY <1>2, FindPointWindowNext DEF PointWindowLive, UpdatePointWindow
  <2>3. SelectionLive'
    BY <1>2 DEF SelectionLive
  <2> QED
    BY <2>1, <2>2, <2>3
<1>3. ASSUME NEW c \in Clients, NEW w \in windows, UnmapWindow(c, w) PROVE Pointers'
  <2>1. windows' = windows /\ selection' = selection /\ UpdatePointWindow /\ Unmap(w)
    BY <1>3 DEF UnmapWindow
  <2>2. FocusLive'
    <3>1. Revert(w) \in windows \cup {None}
      BY RevertIsWindow
    <3>2. focus.revertTo = "NONE" => focus'.window = None
      BY <2>1 DEF Unmap, FocusLive, Revert, Core, Types
    <3> QED
      BY <2>1, <3>1, <3>2 DEF Unmap, FocusLive, Core, Types
  <2>3. PointWindowLive'
    BY <2>1, FindPointWindowNext DEF PointWindowLive, UpdatePointWindow
  <2> QED
    BY <2>1, <2>2, <2>3 DEF SelectionLive
<1>4. ASSUME NEW c \in Clients, NEW w \in windows, DestroyWindow(c, w) PROVE Pointers'
  BY <1>4, DestroyPointers DEF DestroyWindow
<1>5. ASSUME NEW c \in Clients, NEW w \in ownedWindows[c], FreeWindow(c, w) PROVE Pointers'
  BY <1>5, OwnedIsWindow, DestroyPointers DEF FreeWindow
<1>6. ASSUME NEW c \in Clients, NEW w \in windows, NEW r \in {"NONE", "POINTER_ROOT", "PARENT"},
             SetInputFocus(c, w, r)
      PROVE  Pointers'
  <2>1. Root \in windows
    BY DEF Core, Tree, Rooted
  <2>2. FocusLive'
    BY <1>6, <2>1 DEF SetInputFocus, FocusLive, treeVars
  <2> QED
    BY <1>6, <2>2 DEF SetInputFocus, PointWindowLive, SelectionLive, treeVars
<1>7. ASSUME NEW c \in Clients, NEW w \in windows, SetSelectionOwner(c, w) PROVE Pointers'
  BY <1>7 DEF SetSelectionOwner, FocusLive, PointWindowLive, SelectionLive, treeVars, inputVars
<1>8. ASSUME NEW c \in Clients, NEW w \in windows, MapWindow(c, w) PROVE Pointers'
  BY <1>2, <1>8 DEF MapWindow, FocusApplication
<1>9. ASSUME NEW b \in Buttons, ButtonPress(b) PROVE Pointers'
  <2>1. FindPointWindow \in windows
    BY FindPointWindowIsWindow DEF Core
  <2> QED
    BY <1>2, <1>9, <2>1 DEF ButtonPress, FocusApplication, treeVars
<1>10. CASE KeyEvent
  <2>1. FindPointWindow \in windows
    BY FindPointWindowIsWindow DEF Core
  <2> QED
    BY <1>10, <2>1 DEF KeyEvent, FocusLive, PointWindowLive, SelectionLive, treeVars
<1>11. ASSUME NEW c \in Clients, ClientStep(c) PROVE Pointers'
  <2> HIDE DEF Pointers
  <2>1. ASSUME NEW w \in Ids, NEW p \in windows, NEW o, NEW mask, NEW k,
               CreateWindow(c, w, p, k, o, mask)
        PROVE  Pointers'
    BY <1>2, <2>1 DEF CreateWindow
  <2>2. ASSUME NEW w \in windows, ConfigureWindow(c, w) PROVE Pointers'
    BY <1>2, <2>2 DEF ConfigureWindow
  <2> QED
    BY <1>1, <1>3, <1>4, <1>6, <1>7, <1>8, <1>11, <2>1, <2>2
    DEF ClientStep, Connect, ChangeEventMask, ChangeOverrideRedirect, ReparentWindow, CrashOnTree,
        CreatePixmap, PixmapFromBuffer, FreePixmap, GrabPointer, UngrabPointer, WarpPointer,
        treeVars, inputVars
<1>12. ASSUME NEW c \in Clients, FreeStep(c) PROVE Pointers'
  <2> HIDE DEF Pointers
  <2> QED
    BY <1>1, <1>5, <1>12 DEF FreeStep, Disconnect, FreeOwnedPixmap, FreeListeners, treeVars, inputVars
<1>13. ASSUME InputStep PROVE Pointers'
  <2> HIDE DEF Pointers
  <2>1. CASE PointerMove
    BY <1>2, <2>1 DEF PointerMove
  <2> QED
    BY <1>1, <1>9, <1>10, <1>13, <2>1 DEF InputStep, SetRelativeMouse, ButtonRelease, treeVars, inputVars
<1> QED
  BY <1>11, <1>12, <1>13 DEF Next

(* The focused window, the window that receives pointer events and the owner *)
(* of the selection always exist, however windows are destroyed             *)
(* (WindowManager.removeAllSubwindowsAndWindow and its listeners).          *)
THEOREM PointersCorrect == Spec => []ReferencesLive
<1>1. Init => Pointers
  BY DEF Init, Pointers, FocusLive, PointWindowLive, SelectionLive, Unowned
<1>2. Pointers /\ UNCHANGED vars => Pointers'
  BY DEF Pointers, FocusLive, PointWindowLive, SelectionLive, vars, treeVars, inputVars
<1>3. Core /\ Pointers /\ [Next]_vars => Core' /\ Pointers'
  BY <1>2, CoreStep, PointersPreserved DEF Core
<1> QED
  BY CoreInit, <1>1, <1>3, PTL DEF Spec, Pointers, ReferencesLive

-----------------------------------------------------------------------------
(* The types that no property above needs.                                  *)
Marks ==
  /\ override \subseteq windows
  /\ under \subseteq windows
  /\ drawables \subseteq AllWindows
  /\ pressed \subseteq Buttons
  /\ crashed \in BOOLEAN

LEMMA MarksPreserved ==
  ASSUME Core, Marks, Next
  PROVE  Marks'
<1> USE DEF Marks
<1>0. windows \subseteq AllWindows /\ Ids \subseteq AllWindows
  BY DEF Core, Tree, AllWindows
<1>1. CASE UNCHANGED <<windows, override, under, drawables, pressed, crashed>>
  BY <1>1
<1>2. ASSUME NEW c \in Clients, NEW w \in Ids, NEW p \in windows, NEW o, NEW mask, NEW k,
             CreateWindow(c, w, p, k, o, mask)
      PROVE  Marks'
  BY <1>0, <1>2 DEF CreateWindow, buttonVars
<1>3. ASSUME NEW c \in Clients, NEW w \in windows, NEW o, ChangeOverrideRedirect(c, w, o)
      PROVE  Marks'
  BY <1>3 DEF ChangeOverrideRedirect, drawVars, buttonVars
<1>4. ASSUME NEW c \in Clients, NEW w \in windows, ConfigureWindow(c, w) PROVE Marks'
  BY <1>4, SubtreeWindows DEF ConfigureWindow, drawVars, buttonVars
<1>5. ASSUME NEW c \in Clients, NEW w \in windows, NEW p \in windows, ReparentWindow(c, w, p)
      PROVE  Marks'
  BY <1>5, SubtreeWindows DEF ReparentWindow, drawVars, buttonVars
<1>6. ASSUME NEW w, Destroy(w), UNCHANGED <<buttonVars, crashed>> PROVE Marks'
  BY <1>6 DEF Destroy, DrawablesWithout, buttonVars
<1>7. ASSUME NEW c \in Clients, NEW p \in Ids,
             CreatePixmap(c, p) \/ PixmapFromBuffer(c, p) \/ FreePixmap(c, p)
      PROVE  Marks'
  <2>1. UNCHANGED <<windows, override, under, pressed>>
    BY <1>7 DEF CreatePixmap, PixmapFromBuffer, FreePixmap, treeVars, buttonVars
  <2>2. drawables' \subseteq AllWindows
    BY <1>0, <1>7 DEF CreatePixmap, PixmapFromBuffer, FreePixmap, RemovePixmap
  <2>3. crashed' = crashed \/ crashed' = (p \in drawables)
    BY <1>7 DEF CreatePixmap, PixmapFromBuffer, FreePixmap
  <2>4. (p \in drawables) \in BOOLEAN
    OBVIOUS
  <2>5. crashed' \in BOOLEAN
    BY <2>3, <2>4
  <2> QED
    BY <2>1, <2>2, <2>5
<1>8. ASSUME NEW c \in Clients, NEW p, FreeOwnedPixmap(c, p) PROVE Marks'
  BY <1>8 DEF FreeOwnedPixmap, RemovePixmap, treeVars, buttonVars
<1>9. ASSUME NEW c \in Clients, WarpPointer(c) PROVE Marks'
  BY <1>9 DEF WarpPointer, drawVars, buttonVars
<1>10. ASSUME NEW c \in Clients, NEW w, NEW p, CrashOnTree(c, w, p) PROVE Marks'
  BY <1>10 DEF CrashOnTree, treeVars, drawVars, buttonVars
<1>11. ASSUME NEW c \in Clients, ClientStep(c) PROVE Marks'
  BY <1>11, <1>1, <1>2, <1>3, <1>4, <1>5, <1>6, <1>7, <1>9, <1>10
  DEF ClientStep, Connect, ChangeEventMask, MapWindow, UnmapWindow, DestroyWindow, SetInputFocus,
      GrabPointer, SetSelectionOwner, UngrabPointer, treeVars, drawVars, buttonVars
<1>12. ASSUME NEW c \in Clients, FreeStep(c) PROVE Marks'
  BY <1>12, <1>1, <1>6, <1>8
  DEF FreeStep, Disconnect, FreeWindow, FreeListeners, treeVars, drawVars, buttonVars
<1>13. ASSUME InputStep PROVE Marks'
  <2>1. CASE PointerMove
    BY <2>1 DEF PointerMove, drawVars, buttonVars
  <2>2. CASE KeyEvent
    BY <2>2 DEF KeyEvent, treeVars, drawVars, buttonVars
  <2>3. CASE SetRelativeMouse
    BY <2>3 DEF SetRelativeMouse, treeVars, drawVars
  <2>4. ASSUME NEW b \in Buttons, ButtonPress(b) \/ ButtonRelease(b) PROVE Marks'
    BY <2>4 DEF ButtonPress, ButtonRelease, treeVars, drawVars
  <2> QED
    BY <1>13, <2>1, <2>2, <2>3, <2>4 DEF InputStep
<1> QED
  BY <1>11, <1>12, <1>13 DEF Next

(* Every variable keeps its type: in particular what is mapped, drawn or     *)
(* under the pointer is a window that exists, after any destruction.        *)
THEOREM TypeCorrect == Spec => []TypeOK
<1>1. Init => Marks
  BY DEF Init, Marks, AllWindows
<1>2. Marks /\ UNCHANGED vars => Marks'
  BY DEF Marks, vars, treeVars, drawVars, buttonVars
<1>3. Core /\ Marks /\ [Next]_vars => Marks'
  BY <1>2, MarksPreserved
<1>4. Core /\ Marks /\ Listed /\ ReferencesLive => TypeOK
  <2> SUFFICES ASSUME Core, Marks, Listed, ReferencesLive PROVE TypeOK
    OBVIOUS
  <2>1. pointWindow \in AllWindows
    BY DEF ReferencesLive, PointWindowLive, Core, Tree
  <2> QED
    BY <2>1 DEF TypeOK, Core, Types, Tree, Marks, Listed
<1> QED
  BY CoreInit, CoreStep, ListedInit, ListedStep, PointersCorrect, <1>1, <1>3, <1>4, PTL
  DEF Spec

-----------------------------------------------------------------------------
(* Listeners.                                                               *)

(* Unless clients select empty masks, XClient.eventListeners is exact.      *)
RememberedExact ==
  {} \notin Masks =>
    \A w \in AllWindows, c \in Clients : remembered[c][w] = selected[w][c]

Listening == ListenersMatch /\ RememberedExact /\ OneExclusiveListener

LEMMA SelectListening ==
  ASSUME Core, Listening, NEW c \in Clients, NEW w \in AllWindows, NEW mask \in SUBSET EventNames,
         SelectEvents(c, w, mask), client' = client, client[c] = "connected",
         windows' = windows \cup {w},
         mask = {} => w \notin windows \/ {} \in Masks,
         w \in windows => \A e \in Exclusive : ClientCanSelectFor(c, w, mask, e)
  PROVE  Listening'
<1>1. \A x \in AllWindows, d \in Clients :
        selected'[x][d] = IF x = w /\ d = c THEN mask ELSE selected[x][d]
  BY DEF SelectEvents, Core, Types
<1>2. \A x \in AllWindows, d \in Clients :
        remembered'[d][x] = IF x = w /\ d = c /\ mask # {} THEN mask ELSE remembered[d][x]
  BY DEF SelectEvents, Core, Types
<1>3. ListenersMatch'
  BY <1>1, <1>2 DEF Listening, ListenersMatch
<1>4. RememberedExact'
  <2>1. mask = {} /\ {} \notin Masks => selected[w][c] = {}
    BY DEF Listening, ListenersMatch
  <2> SUFFICES ASSUME {} \notin Masks, NEW x \in AllWindows, NEW d \in Clients
               PROVE  remembered'[d][x] = selected'[x][d]
    BY DEF RememberedExact
  <2>2. remembered[d][x] = selected[x][d]
    BY DEF Listening, RememberedExact
  <2>3. CASE x = w /\ d = c /\ mask = {}
    BY <1>1, <1>2, <2>1, <2>2, <2>3
  <2>4. CASE ~(x = w /\ d = c /\ mask = {})
    BY <1>1, <1>2, <2>2, <2>4
  <2> QED
    BY <2>3, <2>4
<1>5. OneExclusiveListener'
  <2> SUFFICES ASSUME {} \notin Masks, NEW x \in windows', NEW e \in Exclusive,
                      NEW a \in Clients, NEW b \in Clients,
                      e \in selected'[x][a], e \in selected'[x][b]
               PROVE  a = b
    BY DEF OneExclusiveListener
  <2>1. x \in AllWindows
    BY DEF Core, Tree
  <2>2. CASE x # w
    BY <1>1, <2>1, <2>2 DEF Listening, OneExclusiveListener
  <2>3. CASE x = w /\ w \notin windows
    BY <1>1, <2>1, <2>3 DEF Listening, ListenersMatch
  <2>4. CASE x = w /\ w \in windows
    <3>1. \A d \in Clients : e \in mask /\ e \in selected[w][d] => e \in selected[w][c]
      BY <2>1, <2>4 DEF ClientCanSelectFor, HasListener, Listening, RememberedExact
    <3> QED
      BY <1>1, <2>1, <2>4, <3>1 DEF Listening, OneExclusiveListener
  <2> QED
    BY <2>2, <2>3, <2>4
<1> QED
  BY <1>3, <1>4, <1>5 DEF Listening

LEMMA DestroyListening ==
  ASSUME Core, Listening, NEW w, Destroy(w), client' = client
  PROVE  Listening'
<1> DEFINE D == Subtree(w)
<1>1. windows' = windows \ D
  BY DEF Destroy
<1>2. \A x \in AllWindows, d \in Clients :
        /\ selected'[x][d] = IF x \in D THEN {} ELSE selected[x][d]
        /\ remembered'[d][x] = IF x \in D THEN {} ELSE remembered[d][x]
  BY DEF Destroy, SelectedWithout, RememberedWithout
<1>3. windows \subseteq AllWindows
  BY DEF Core, Tree
<1> HIDE DEF D
<1>4. ListenersMatch'
  BY <1>1, <1>2 DEF Listening, ListenersMatch
<1>5. RememberedExact'
  BY <1>2 DEF Listening, RememberedExact
<1>6. OneExclusiveListener'
  BY <1>1, <1>2, <1>3 DEF Listening, OneExclusiveListener
<1> QED
  BY <1>4, <1>5, <1>6 DEF Listening

LEMMA ListeningPreserved ==
  ASSUME Core, Listening, Next
  PROVE  Listening'
<1>1. ASSUME UNCHANGED <<windows, listenVars>>,
             \A c \in Clients : client[c] = "connected" => client'[c] = "connected"
      PROVE  Listening'
  BY <1>1 DEF Listening, ListenersMatch, RememberedExact, OneExclusiveListener, listenVars
<1>2. ASSUME NEW c \in Clients, ClientStep(c) PROVE Listening'
  <2>1. ASSUME NEW w \in Ids, NEW p \in windows, NEW o, NEW mask \in Masks \cup {{}}, NEW k,
               CreateWindow(c, w, p, k, o, mask)
        PROVE  Listening'
    <3>1. mask \in SUBSET EventNames
      BY WindowsAssumption DEF WindowsAssumption
    <3> QED
      BY <2>1, <3>1, SelectListening DEF CreateWindow, Handles, AllWindows
  <2>2. ASSUME NEW w \in windows, NEW mask \in Masks, ChangeEventMask(c, w, mask)
        PROVE  Listening'
    <3>1. mask \in SUBSET EventNames
      BY WindowsAssumption DEF WindowsAssumption
    <3>2. w \in AllWindows /\ windows' = windows \cup {w}
      BY <2>2 DEF Core, Tree, ChangeEventMask, treeVars
    <3>3. client' = client /\ client[c] = "connected"
      BY <2>2 DEF ChangeEventMask, Handles, ownerVars
    <3> QED
      BY <2>2, <3>1, <3>2, <3>3, SelectListening DEF ChangeEventMask
  <2>3. ASSUME NEW w \in windows, DestroyWindow(c, w) PROVE Listening'
    BY <2>3, DestroyListening DEF DestroyWindow
  <2>4. CASE Connect(c)
    BY <2>4, <1>1 DEF Connect, treeVars, Core, Types
  <2> QED
    BY <1>1, <1>2, <2>1, <2>2, <2>3, <2>4
    DEF ClientStep, ChangeOverrideRedirect, MapWindow, UnmapWindow, ConfigureWindow,
        ReparentWindow, CrashOnTree, CreatePixmap, PixmapFromBuffer, FreePixmap, SetInputFocus,
        GrabPointer, SetSelectionOwner, UngrabPointer, WarpPointer, treeVars, ownerVars
<1>3. ASSUME NEW c \in Clients, FreeStep(c) PROVE Listening'
  <2>1. ASSUME NEW w, FreeWindow(c, w) PROVE Listening'
    BY <2>1, DestroyListening DEF FreeWindow
  <2>2. CASE FreeListeners(c)
    <3>1. \A x \in AllWindows, d \in Clients :
            /\ selected'[x][d] = IF d = c /\ remembered[c][x] # {} THEN {} ELSE selected[x][d]
            /\ remembered'[d][x] = IF d = c THEN {} ELSE remembered[d][x]
      BY <2>2 DEF FreeListeners, Core, Types
    <3>2. windows' = windows /\ \A d \in Clients : d # c => client'[d] = client[d]
      BY <2>2 DEF FreeListeners, treeVars, Core, Types
    <3>3. ListenersMatch'
      BY <3>1, <3>2 DEF Listening, ListenersMatch
    <3>4. RememberedExact'
      <4> SUFFICES ASSUME {} \notin Masks, NEW x \in AllWindows, NEW d \in Clients
                   PROVE  remembered'[d][x] = selected'[x][d]
        BY DEF RememberedExact
      <4>1. remembered[d][x] = selected[x][d]
        BY DEF Listening, RememberedExact
      <4> QED
        BY <3>1, <4>1
    <3>5. OneExclusiveListener'
      BY <3>1, <3>2 DEF Core, Tree, Listening, OneExclusiveListener
    <3> QED
      BY <3>3, <3>4, <3>5 DEF Listening
  <2> QED
    BY <1>1, <1>3, <2>1, <2>2 DEF FreeStep, Disconnect, FreeOwnedPixmap, treeVars
<1>4. ASSUME InputStep PROVE Listening'
  BY <1>1, <1>4
  DEF InputStep, PointerMove, KeyEvent, SetRelativeMouse, ButtonPress, ButtonRelease, treeVars,
      ownerVars
<1> QED
  BY <1>2, <1>3, <1>4 DEF Next

(* Listeners belong to connected clients that remember them, and exclusive    *)
(* events have one listener unless clients select empty masks               *)
(* (XClient.setEventListenerForWindow, WindowRequests.changeWindowAttributes). *)
THEOREM ListenersCorrect == Spec => []ListenersSound
<1>1. Init => Listening
  BY DEF Init, Listening, ListenersMatch, RememberedExact, OneExclusiveListener, AllWindows
<1>2. Listening /\ UNCHANGED vars => Listening'
  BY DEF Listening, ListenersMatch, RememberedExact, OneExclusiveListener, vars, treeVars,
         listenVars, ownerVars
<1>3. Core /\ Listening /\ [Next]_vars => Core' /\ Listening'
  BY <1>2, CoreStep, ListeningPreserved
<1> QED
  BY CoreInit, <1>1, <1>3, PTL DEF Spec, Listening, ListenersSound

-----------------------------------------------------------------------------
(* Grabs.                                                                   *)

(* Without the toggle, the pointer is never in relative mode.               *)
NoToggle == "SetRelativeMouse" \notin Requests => ~relativeMouse

LEMMA GrabEndsPreserved ==
  ASSUME NoToggle, ImplicitGrabEnds, Next
  PROVE  NoToggle' /\ ImplicitGrabEnds'
<1> USE DEF NoToggle, ImplicitGrabEnds
<1>1. CASE UNCHANGED <<grab, buttonVars>>
  BY <1>1 DEF buttonVars
<1>2. CASE grab' = NoGrab /\ UNCHANGED relativeMouse
  BY <1>2 DEF NoGrab
<1>3. ASSUME NEW c \in Clients, NEW w \in windows, GrabPointer(c, w)
      PROVE  NoToggle' /\ ImplicitGrabEnds'
  BY <1>3 DEF GrabPointer, buttonVars
<1>4. ASSUME NEW b \in Buttons, ButtonPress(b) PROVE NoToggle' /\ ImplicitGrabEnds'
  BY <1>4 DEF ButtonPress
<1>5. ASSUME NEW b \in Buttons, ButtonRelease(b) PROVE NoToggle' /\ ImplicitGrabEnds'
  BY <1>5 DEF ButtonRelease, NoGrab
<1>6. CASE SetRelativeMouse
  BY <1>6 DEF SetRelativeMouse, Injects
<1> HIDE DEF NoToggle, ImplicitGrabEnds
<1>7. ASSUME NEW w, Unmap(w) \/ Destroy(w), UNCHANGED buttonVars
      PROVE  NoToggle' /\ ImplicitGrabEnds'
  BY <1>7, <1>1, <1>2 DEF Unmap, Destroy, GrabWithout, buttonVars
<1>8. ASSUME NEW c \in Clients, ClientStep(c) PROVE NoToggle' /\ ImplicitGrabEnds'
  BY <1>1, <1>2, <1>3, <1>7, <1>8
  DEF ClientStep, Connect, CreateWindow, ChangeEventMask, ChangeOverrideRedirect, MapWindow,
      UnmapWindow, ConfigureWindow, ReparentWindow, CrashOnTree, DestroyWindow, CreatePixmap,
      PixmapFromBuffer, FreePixmap, SetInputFocus, SetSelectionOwner, UngrabPointer,
      WarpPointer, inputVars, buttonVars
<1>9. ASSUME NEW c \in Clients, FreeStep(c) PROVE NoToggle' /\ ImplicitGrabEnds'
  BY <1>1, <1>7, <1>9 DEF FreeStep, Disconnect, FreeWindow, FreeOwnedPixmap, FreeListeners, inputVars
<1>10. ASSUME InputStep PROVE NoToggle' /\ ImplicitGrabEnds'
  BY <1>1, <1>4, <1>5, <1>6, <1>10 DEF InputStep, PointerMove, KeyEvent, buttonVars
<1> QED
  BY <1>8, <1>9, <1>10 DEF Next

(* A grab made by a button press ends with the last button unless the        *)
(* pointer mode is switched in between (InputDeviceManager, GrabManager).   *)
THEOREM ImplicitGrabCorrect == Spec => []ImplicitGrabEnds
<1>1. Init => NoToggle /\ ImplicitGrabEnds
  BY DEF Init, NoToggle, ImplicitGrabEnds, NoGrab
<1>2. NoToggle /\ ImplicitGrabEnds /\ UNCHANGED vars => NoToggle' /\ ImplicitGrabEnds'
  BY DEF NoToggle, ImplicitGrabEnds, vars, inputVars, buttonVars
<1>3. NoToggle /\ ImplicitGrabEnds /\ [Next]_vars => NoToggle' /\ ImplicitGrabEnds'
  BY <1>2, GrabEndsPreserved
<1> QED
  BY <1>1, <1>3, PTL DEF Spec

-----------------------------------------------------------------------------
(* The window under the pointer is looked up at once, by every step but      *)
(* reparenting and warping.                                                 *)

LEMMA FindFrame ==
  ASSUME UNCHANGED <<windows, parent, children, mapped, under>>
  PROVE  FindPointWindow' = FindPointWindow
  BY DEF FindPointWindow, ChildByCoords, Topmost, Subtree

Follows ==
  \/ FindPointWindow' = FindPointWindow /\ pointWindow' \in {pointWindow, FindPointWindow}
  \/ pointWindow' = FindPointWindow'

LEMMA FollowsStep ==
  ASSUME Next
  PROVE  \/ Follows
         \/ \E c \in Clients : WarpPointer(c)
         \/ \E c \in Clients, w, p \in windows : ReparentWindow(c, w, p)
<1>1. ASSUME UNCHANGED <<treeVars, pointWindow>> PROVE Follows
  BY <1>1, FindFrame DEF Follows, treeVars
<1>2. ASSUME NEW c \in Clients, ClientStep(c)
      PROVE  \/ Follows
             \/ WarpPointer(c)
             \/ \E w, p \in windows : ReparentWindow(c, w, p)
  <2>1. ASSUME NEW w, NEW o, ChangeOverrideRedirect(c, w, o) PROVE Follows
    BY <2>1, FindFrame DEF ChangeOverrideRedirect, Follows, inputVars
  <2>2. ASSUME NEW w, \/ MapWindow(c, w) \/ UnmapWindow(c, w) \/ ConfigureWindow(c, w)
                     \/ DestroyWindow(c, w)
        PROVE  Follows
    BY <2>2 DEF MapWindow, UnmapWindow, ConfigureWindow, DestroyWindow, Destroy,
                UpdatePointWindow, Follows
  <2>3. ASSUME NEW w, NEW p, NEW o, NEW m, NEW k, CreateWindow(c, w, p, k, o, m) PROVE Follows
    BY <2>3 DEF CreateWindow, UpdatePointWindow, Follows
  <2> QED
    BY <1>1, <1>2, <2>1, <2>2, <2>3
    DEF ClientStep, Connect, ChangeEventMask, CrashOnTree, CreatePixmap, PixmapFromBuffer,
        FreePixmap, SetInputFocus, GrabPointer, SetSelectionOwner, UngrabPointer, treeVars,
        inputVars
<1>3. ASSUME NEW c \in Clients, FreeStep(c) PROVE Follows
  BY <1>1, <1>3
  DEF FreeStep, Disconnect, FreeWindow, FreeOwnedPixmap, FreeListeners, Destroy,
      UpdatePointWindow, Follows, treeVars, inputVars
<1>4. ASSUME InputStep PROVE Follows
  <2>1. CASE KeyEvent
    BY <2>1, FindFrame DEF KeyEvent, Follows, treeVars
  <2>2. CASE PointerMove
    BY <2>2 DEF PointerMove, UpdatePointWindow, Follows
  <2> QED
    BY <1>1, <1>4, <2>1, <2>2 DEF InputStep, SetRelativeMouse, ButtonPress, ButtonRelease, treeVars,
        inputVars
<1> QED
  BY <1>2, <1>3, <1>4 DEF Next

(* Whatever changes the window under the pointer is noticed at once, except   *)
(* reparenting and warping, which notify nobody (InputDeviceManager).       *)
THEOREM PointWindowFollowsCorrect == Spec => PointWindowFollows
<1>1. [Next]_vars =>
        [ \/ FindPointWindow' = FindPointWindow
          \/ pointWindow' = FindPointWindow'
          \/ \E c \in Clients : WarpPointer(c)
          \/ \E c \in Clients, w, p \in windows : ReparentWindow(c, w, p) ]_vars
  BY FollowsStep DEF Follows
<1> QED
  BY <1>1, PTL DEF Spec, PointWindowFollows

-----------------------------------------------------------------------------
(* Grabs and viewability.                                                   *)

(* The condition of GrabViewable.                                           *)
Attended == {"ReparentWindow", "WarpPointer"} \cap Requests = {}

(* The last window looked up is the one under the pointer.                  *)
PointWindowExact == Attended => pointWindow = FindPointWindow

Grabbing == Root \in mapped /\ PointWindowExact /\ GrabViewable

(* The window under the pointer and those above it are mapped.              *)
LEMMA FoundIsViewable ==
  ASSUME Core, Root \in mapped
  PROVE  Viewable(FindPointWindow)
<1> DEFINE R(w) == /\ ChildByCoords(w) = None
                  /\ \A a \in windows \ {Root} : w \in Subtree(a) => ChildByCoords(parent[a]) = a
<1>1. FindPointWindow = IF \E w \in windows : R(w) THEN CHOOSE w \in windows : R(w) ELSE Root
  BY DEF FindPointWindow
<1>2. ASSUME NEW w \in windows, NEW a \in windows, ChildByCoords(w) = a
      PROVE  a \in mapped
  <2>1. a # None
    BY RootIsNotNone DEF Core, Tree
  <2> QED
    BY <1>2, <2>1 DEF ChildByCoords, Topmost
<1>3. CASE \E w \in windows : R(w)
  <2>1. PICK w \in windows : w = FindPointWindow /\ R(w)
    <3> HIDE DEF R
    <3> QED
      BY <1>1, <1>3
  <2> SUFFICES ASSUME NEW a \in windows, w \in Subtree(a) PROVE a \in mapped
    BY <2>1 DEF Viewable
  <2>2. CASE a = Root
    BY <2>2
  <2>3. CASE a # Root
    BY <1>2, <2>1, <2>3, ParentIsWindow DEF Core
  <2> QED
    BY <2>2, <2>3
<1>4. CASE ~ \E w \in windows : R(w)
  <2>1. FindPointWindow = Root
    <3> HIDE DEF R
    <3> QED
      BY <1>1, <1>4
  <2> QED
    BY <2>1, RootOutside DEF Viewable, Core
<1> QED
  BY <1>3, <1>4

(* What is above a window above w is above w.                               *)
LEMMA ViewableAbove ==
  ASSUME NEW w, NEW g \in windows, w \in Subtree(g), Viewable(w)
  PROVE  Viewable(g)
  BY SubtreeTransitive DEF Viewable

LEMMA ViewableFrame ==
  ASSUME NEW g, Viewable(g), UNCHANGED <<windows, parent>>, mapped \subseteq mapped'
  PROVE  Viewable(g)'
  BY DEF Viewable, Subtree

LEMMA ViewableGrows ==
  ASSUME Core, NEW g \in windows, Viewable(g), NEW w, NEW p, Grows(w, p), mapped' = mapped
  PROVE  Viewable(g)'
<1> SUFFICES ASSUME NEW a \in windows',
                    \A S \in SUBSET windows' :
                      a \in S /\ (\A y \in windows' : parent'[y] \in S => y \in S) => g \in S
             PROVE  a \in mapped'
  BY DEF Viewable, Subtree
<1>1. a # w
  <2> SUFFICES ASSUME a = w PROVE FALSE
    OBVIOUS
  <2>1. \A y \in windows : parent[y] # w
    BY ParentIsWindow, RootIsNotNone DEF Core, Tree, Rooted, Grows
  <2>2. \A y \in windows' : parent'[y] \in {w} => y \in {w}
    BY <2>1 DEF Grows, Core, Tree
  <2> QED
    BY <2>2 DEF Grows
<1>2. ASSUME NEW S \in SUBSET windows, Closed(a, S) PROVE g \in S
  <2> DEFINE T == S \cup {w}
  <2>1. T \in SUBSET windows' /\ a \in T
    BY <1>2 DEF Closed, Grows
  <2>2. ASSUME NEW y \in windows', parent'[y] \in T PROVE y \in T
    <3>1. CASE y = w
      BY <3>1
    <3>2. CASE y # w
      <4>1. y \in windows /\ parent'[y] = parent[y]
        BY <3>2 DEF Grows, Core, Tree
      <4>2. parent[y] # w
        BY <4>1, ParentIsWindow, RootIsNotNone DEF Core, Tree, Rooted, Grows
      <4> QED
        BY <1>2, <2>2, <4>1, <4>2 DEF Closed
    <3> QED
      BY <3>1, <3>2
  <2>3. g \in T
    <3> HIDE DEF T
    <3> QED
      BY <2>1, <2>2
  <2> QED
    BY <2>3 DEF Grows
<1>3. a \in windows /\ g \in Subtree(a)
  BY <1>1, <1>2 DEF Grows, Subtree, Closed
<1> QED
  BY <1>3 DEF Viewable

(* Removing a subtree that is not mapped takes no viewable window.          *)
LEMMA ViewableShrinks ==
  ASSUME Core, NEW g \in windows, Viewable(g), NEW w, Shrinks(w), w \notin mapped,
         mapped' = mapped \ Subtree(w)
  PROVE  g \in windows' /\ Viewable(g)'
<1>1. g \notin Subtree(w)
  BY DEF Viewable, Shrinks
<1>2. ASSUME NEW a \in windows',
             \A S \in SUBSET windows' :
               a \in S /\ (\A y \in windows' : parent'[y] \in S => y \in S) => g \in S
      PROVE  a \in mapped'
  <2>1. ASSUME NEW S \in SUBSET windows, Closed(a, S) PROVE g \in S
    <3> DEFINE T == S \ Subtree(w)
    <3>1. T \in SUBSET windows' /\ a \in T
      BY <1>2, <2>1 DEF Closed, Shrinks
    <3>2. ASSUME NEW y \in windows', parent'[y] \in T PROVE y \in T
      BY <2>1, <3>2 DEF Closed, Shrinks, Core, Tree
    <3>3. g \in T
      <4> HIDE DEF T
      <4> QED
        BY <1>2, <3>1, <3>2
    <3> QED
      BY <3>3
  <2>2. a \in windows /\ a \notin Subtree(w) /\ g \in Subtree(a)
    BY <2>1 DEF Shrinks, Subtree, Closed
  <2> QED
    BY <2>2 DEF Viewable
<1> QED
  BY <1>1, <1>2 DEF Shrinks, Viewable, Subtree

LEMMA ExactPreserved ==
  ASSUME PointWindowExact, Next
  PROVE  PointWindowExact'
<1>1. Attended => Follows
  <2>1. ASSUME NEW c \in Clients, WarpPointer(c) PROVE ~Attended
    BY <2>1 DEF WarpPointer, Handles, Attended
  <2>2. ASSUME NEW c \in Clients, NEW w, NEW p, ReparentWindow(c, w, p) PROVE ~Attended
    BY <2>2 DEF ReparentWindow, Handles, Attended
  <2> QED
    BY <2>1, <2>2, FollowsStep
<1> QED
  BY <1>1 DEF PointWindowExact, Follows

LEMMA DestroyGrabbing ==
  ASSUME Core, Grabbing, PointWindowExact', NEW w \in windows, w # Root, Destroy(w)
  PROVE  Grabbing'
<1>1. Root \in mapped'
  BY RootOutside DEF Core, Grabbing, Destroy
<1>2. CASE w \in mapped
  BY <1>1, <1>2 DEF Grabbing, GrabViewable, Destroy, GrabWithout, NoGrab
<1>3. CASE w \notin mapped
  <2>1. grab' = grab /\ Shrinks(w) /\ mapped' = mapped \ Subtree(w)
    BY <1>3 DEF Destroy, GrabWithout, Shrinks
  <2>2. ASSUME Attended, grab.window # None
        PROVE  grab.window \in windows' /\ Viewable(grab.window)'
    <3>1. grab.window \in windows /\ Viewable(grab.window)
      BY <2>2 DEF Grabbing, GrabViewable, Attended
    <3> QED
      BY <1>3, <2>1, <3>1, ViewableShrinks
  <2> QED
    BY <1>1, <2>1, <2>2 DEF Grabbing, GrabViewable, Attended, Viewable, Subtree
<1> QED
  BY <1>2, <1>3

LEMMA GrabbingPreserved ==
  ASSUME Core, Grabbing, Next
  PROVE  Grabbing'
<1>0. PointWindowExact'
  BY ExactPreserved DEF Grabbing
(* The tree is as before, and so is the grab, unless it ended.              *)
<1>1. ASSUME UNCHANGED <<windows, parent>>, mapped \subseteq mapped', grab' \in {grab, NoGrab}
      PROVE  Grabbing'
  <2>1. GrabViewable'
    <3>1. CASE grab' = NoGrab
      BY <3>1 DEF GrabViewable, NoGrab
    <3>2. CASE grab' = grab
      <4>1. \A g : Viewable(g) => Viewable(g)'
        BY <1>1, ViewableFrame
      <4> QED
        BY <1>1, <3>2, <4>1 DEF Grabbing, GrabViewable, Viewable, Subtree
    <3> QED
      BY <1>1, <3>1, <3>2
  <2> QED
    BY <1>0, <1>1, <2>1 DEF Grabbing
(* ... or it moves to a viewable window.                                    *)
<1>2. ASSUME UNCHANGED <<windows, parent, mapped>>,
             Attended => grab'.window \in windows /\ Viewable(grab'.window)
      PROVE  Grabbing'
  <2>1. Attended => grab'.window \in windows /\ Viewable(grab.window)'
    BY <1>2 DEF Viewable, Subtree
  <2> QED
    BY <1>0, <1>2, <2>1 DEF Grabbing, GrabViewable, Attended
<1>3. ASSUME NEW c \in Clients, ClientStep(c) PROVE Grabbing'
  <2>1. ASSUME NEW w \in Ids, NEW p \in windows, NEW o, NEW m, NEW k, CreateWindow(c, w, p, k, o, m)
        PROVE  Grabbing'
    <3>1. Grows(w, p) /\ mapped' = mapped /\ grab' = grab /\ windows \subseteq windows'
      BY <2>1 DEF CreateWindow, Grows, AllWindows
    <3>2. \A g \in windows : Viewable(g) => Viewable(g)'
      BY <3>1, ViewableGrows
    <3>3. GrabViewable'
      BY <3>1, <3>2 DEF Grabbing, GrabViewable, Viewable, Subtree
    <3> QED
      BY <1>0, <3>1, <3>3 DEF Grabbing
  <2>2. ASSUME NEW w \in windows, MapWindow(c, w) PROVE Grabbing'
    BY <1>1, <2>2 DEF MapWindow
  <2>3. ASSUME NEW w \in windows, UnmapWindow(c, w) PROVE Grabbing'
    BY <1>0, <2>3 DEF UnmapWindow, Unmap, Grabbing, GrabViewable, NoGrab
  <2>4. ASSUME NEW w \in windows, NEW p \in windows, ReparentWindow(c, w, p) PROVE Grabbing'
    BY <1>0, <2>4 DEF ReparentWindow, Handles, Grabbing, GrabViewable
  <2>5. ASSUME NEW w \in windows, DestroyWindow(c, w) PROVE Grabbing'
    BY <1>0, <2>5, DestroyGrabbing DEF DestroyWindow
  <2>6. ASSUME NEW w \in windows, GrabPointer(c, w) PROVE Grabbing'
    BY <1>2, <2>6 DEF GrabPointer, treeVars
  <2>7. ASSUME NEW w \in windows, ConfigureWindow(c, w) PROVE Grabbing'
    BY <1>1, <2>7 DEF ConfigureWindow
  <2>8. ASSUME NEW w, NEW o, ChangeOverrideRedirect(c, w, o) PROVE Grabbing'
    BY <1>1, <2>8 DEF ChangeOverrideRedirect, inputVars
  <2> QED
    BY <1>1, <1>3, <2>1, <2>2, <2>3, <2>4, <2>5, <2>6, <2>7, <2>8
    DEF ClientStep, Connect, ChangeEventMask, CrashOnTree, CreatePixmap, PixmapFromBuffer,
        FreePixmap, SetInputFocus, SetSelectionOwner, UngrabPointer, WarpPointer, treeVars,
        inputVars
<1>4. ASSUME NEW c \in Clients, FreeStep(c) PROVE Grabbing'
  <2>1. ASSUME NEW w \in ownedWindows[c], FreeWindow(c, w) PROVE Grabbing'
    BY <1>0, <2>1, OwnedIsWindow, DestroyGrabbing DEF FreeWindow
  <2> QED
    BY <1>1, <1>4, <2>1 DEF FreeStep, Disconnect, FreeOwnedPixmap, FreeListeners, treeVars, inputVars
<1>5. ASSUME InputStep PROVE Grabbing'
  <2>1. ASSUME NEW b \in Buttons, ButtonPress(b) PROVE Grabbing'
    <3>1. CASE grab' = grab
      BY <1>1, <2>1, <3>1 DEF ButtonPress, treeVars
    <3>2. CASE ImplicitGrab
      <4>1. PICK g \in windows :
              grab'.window = g /\ pointWindow \in Subtree(g)
        BY <3>2 DEF ImplicitGrab, Nearest
      <4>2. Attended => Viewable(pointWindow)
        BY FoundIsViewable DEF Grabbing, PointWindowExact
      <4> QED
        BY <1>2, <2>1, <4>1, <4>2, ViewableAbove DEF ButtonPress, treeVars
    <3> QED
      BY <2>1, <3>1, <3>2 DEF ButtonPress
  <2>2. ASSUME NEW b \in Buttons, ButtonRelease(b) PROVE Grabbing'
    BY <1>1, <2>2 DEF ButtonRelease, treeVars
  <2>3. CASE PointerMove \/ KeyEvent \/ SetRelativeMouse
    BY <1>1, <2>3 DEF PointerMove, KeyEvent, SetRelativeMouse, treeVars, inputVars
  <2> QED
    BY <1>5, <2>1, <2>2, <2>3 DEF InputStep
<1> QED
  BY <1>3, <1>4, <1>5 DEF Next

(* A grab never outlives the visibility of its window, as long as windows    *)
(* are not reparented or the pointer warped (GrabManager).                  *)
THEOREM GrabCorrect == Spec => []GrabViewable
<1>1. Init => Grabbing
  <2> SUFFICES ASSUME Init PROVE Grabbing
    OBVIOUS
  <2>1. FindPointWindow \in windows
    BY CoreInit, FindPointWindowIsWindow DEF Core
  <2> QED
    BY <2>1 DEF Init, Grabbing, PointWindowExact, GrabViewable, NoGrab
<1>2. Grabbing /\ UNCHANGED vars => Grabbing'
  <2> SUFFICES ASSUME Grabbing, UNCHANGED vars PROVE Grabbing'
    OBVIOUS
  <2> USE DEF vars, treeVars, inputVars
  <2>1. PointWindowExact'
    BY FindFrame DEF Grabbing, PointWindowExact
  <2>2. GrabViewable'
    BY DEF Grabbing, GrabViewable, Viewable, Subtree
  <2> QED
    BY <2>1, <2>2 DEF Grabbing
<1>3. Core /\ Grabbing /\ [Next]_vars => Core' /\ Grabbing'
  BY <1>2, CoreStep, GrabbingPreserved
<1> QED
  BY CoreInit, <1>1, <1>3, PTL DEF Spec, Grabbing

=============================================================================
