------------------------------ MODULE XWindows ------------------------------
(***************************************************************************)
(* The window tree of the X server and everything that points into it:      *)
(* WindowManager, Window, DrawableManager, PixmapManager, SelectionManager,  *)
(* GrabManager, InputDeviceManager, DesktopHelper, and the part of XClient   *)
(* that owns resources and listens to windows.                              *)
(*                                                                         *)
(* A request is handled under the locks of XServer, on the single thread of  *)
(* the connector; input is injected by the user interface under             *)
(* WINDOW_MANAGER and INPUT_DEVICE.  All handlers below take WINDOW_MANAGER  *)
(* (or touch pixmaps only), so one action models one handler.  The release   *)
(* of a client's resources takes one step per resource, and no other         *)
(* handler runs in between, because freeResources() holds all locks.        *)
(*                                                                         *)
(* Rectangles are abstracted to whether they contain the pointer (`under').  *)
(* Requests that are answered with an X error change nothing and are left    *)
(* out, except the one that does (BadAccess).                               *)
(***************************************************************************)
EXTENDS Naturals, FiniteSets, SequencesExt

CONSTANTS
  Root,             \* the root window
  Ids,              \* the other resource identifiers
  Clients,
  ClientOf,         \* the client whose identifier range an identifier is in
  Masks,            \* event masks that clients select
  Classes,          \* window classes they ask for
  Overrides,        \* values of overrideRedirect they set
  Buttons,          \* pointer buttons
  Requests,         \* the requests and user actions of this instance
  None

Exclusive == {"redirect", "press"}     \* SUBSTRUCTURE_REDIRECT, BUTTON_PRESS
EventNames == Exclusive \cup {"key"}

ASSUME WindowsAssumption ==
  /\ ClientOf \in [Ids -> Clients]
  /\ Masks \subseteq SUBSET EventNames
  /\ Classes \subseteq {"COPY_FROM_PARENT", "INPUT_OUTPUT", "INPUT_ONLY"}
  /\ Overrides \subseteq BOOLEAN
  /\ Root \notin Ids
  /\ None \notin Ids \cup Clients \cup {Root}

VARIABLES
  windows,          \* WindowManager.windows
  parent,           \* Window.parent
  children,         \* Window.children, bottom first
  mapped,           \* the windows whose attribute `mapped' is set
  override,         \* ... and whose overrideRedirect is set
  under,            \* the windows whose rectangle contains the pointer
  inputOutput,      \* the windows that have a drawable
  drawables,        \* DrawableManager.drawables
  pixmaps,          \* PixmapManager.pixmaps
  focus,            \* focusedWindow, focusRevertTo
  pointWindow,      \* InputDeviceManager.pointWindow
  grab,             \* GrabManager.window, eventListener.client, releaseWithButtons
  pressed,          \* the buttons of the pointer that are down
  relativeMouse,    \* XServer.relativeMouseMovement
  selection,        \* owner and client of a selection
  selected,         \* the mask of each client's listener on each window
  remembered,       \* XClient.eventListeners
  client,           \* life cycle of each client
  ownedWindows,     \* XClient.resources
  ownedPixmaps,
  freeing,          \* the client whose resources are being freed
  crashed           \* an uncaught exception, or a traversal that never ends

treeVars == <<windows, parent, children, mapped, override, under>>
drawVars == <<inputOutput, drawables, pixmaps>>
inputVars == <<focus, pointWindow, grab>>
buttonVars == <<pressed, relativeMouse>>
listenVars == <<selected, remembered>>
ownerVars == <<client, ownedWindows, ownedPixmaps, freeing>>
vars == <<treeVars, drawVars, inputVars, buttonVars, selection, listenVars,
          ownerVars, crashed>>

AllWindows == Ids \cup {Root}
NoGrab == [window |-> None, client |-> None, withButtons |-> FALSE]
Unowned == [owner |-> None, client |-> None]

Init ==
  /\ windows = {Root}
  /\ parent = [w \in AllWindows |-> None]
  /\ children = [w \in AllWindows |-> <<>>]
  /\ mapped = {Root}
  /\ override = {}
  /\ under = {}
  /\ inputOutput = {Root}
  /\ drawables = {Root}
  /\ pixmaps = {}
  /\ focus = [window |-> None, revertTo |-> "NONE"]
  /\ pointWindow = Root
  /\ grab = NoGrab
  /\ pressed = {}
  /\ relativeMouse = FALSE
  /\ selection = Unowned
  /\ selected = [w \in AllWindows |-> [c \in Clients |-> {}]]
  /\ remembered = [c \in Clients |-> [w \in AllWindows |-> {}]]
  /\ client = [c \in Clients |-> "new"]
  /\ ownedWindows = [c \in Clients |-> {}]
  /\ ownedPixmaps = [c \in Clients |-> {}]
  /\ freeing = None
  /\ crashed = FALSE

-----------------------------------------------------------------------------
(* The tree.                                                                *)

(* w and its descendants: the least set that holds w and is closed under     *)
(* children.                                                                *)
Subtree(w) ==
  {x \in windows :
     \A S \in SUBSET windows :
       w \in S /\ (\A y \in windows : parent[y] \in S => y \in S) => x \in S}

IsAncestorOf(a, w) == a # w /\ w \in Subtree(a)

(* getMapState() = VIEWABLE.                                                *)
Viewable(w) == \A a \in windows : w \in Subtree(a) => a \in mapped

(* The topmost child under the pointer (getChildByCoords).                  *)
Topmost(w, i) ==
  /\ children[w][i] \in mapped \cap under
  /\ \A j \in i + 1 .. Len(children[w]) : children[w][j] \notin mapped \cap under

ChildByCoords(w) ==
  LET tops == {i \in 1 .. Len(children[w]) : Topmost(w, i)}
  IN  IF tops = {} THEN None ELSE children[w][CHOOSE i \in tops : TRUE]

(* findPointWindow descends from the root, at each window to the topmost     *)
(* child under the pointer, until there is none.                            *)
FindPointWindow ==
  LET Reached(w) ==
        /\ ChildByCoords(w) = None
        /\ \A a \in windows \ {Root} : w \in Subtree(a) => ChildByCoords(parent[a]) = a
  IN  IF \E w \in windows : Reached(w) THEN CHOOSE w \in windows : Reached(w) ELSE Root

UpdatePointWindow_Not == pointWindow' = pointWindow     \* mutant: not notified

UpdatePointWindow == pointWindow' = FindPointWindow'

HasListener(w, e) == \E c \in Clients : e \in selected[w][c]

Revert(w) ==
  CASE focus.revertTo = "NONE" -> None
    [] focus.revertTo = "POINTER_ROOT" -> Root
    [] focus.revertTo = "PARENT" -> IF parent[w] # None THEN parent[w] ELSE w

Detached_Not(w) == children                 \* mutant: removeChild missing

Detached(w) == [children EXCEPT ![parent[w]] = RemoveFirst(@, w)]

(* A handler may run for client c.                                          *)
Handles(c, request) ==
  /\ request \in Requests
  /\ client[c] = "connected"
  /\ freeing = None
  /\ ~crashed

(* The user interface may inject input.                                     *)
Injects(input) ==
  /\ input \in Requests
  /\ freeing = None
  /\ ~crashed

-----------------------------------------------------------------------------
(* Clients.                                                                 *)

Connect(c) ==
  /\ client[c] = "new"
  /\ freeing = None
  /\ ~crashed
  /\ client' = [client EXCEPT ![c] = "connected"]
  /\ UNCHANGED <<treeVars, drawVars, inputVars, buttonVars, selection, listenVars,
                 ownedWindows, ownedPixmaps, freeing, crashed>>

SelectEvents(c, w, mask) ==
  /\ selected' = [selected EXCEPT ![w][c] = mask]
  /\ remembered' = IF mask = {} THEN remembered ELSE [remembered EXCEPT ![c][w] = mask]

CreateWindow(c, w, p, class, overrides, mask) ==
  LET io == class # "INPUT_ONLY" /\ p \in inputOutput IN
  /\ Handles(c, "CreateWindow")
  /\ ClientOf[w] = c
  /\ p \in windows
  /\ w \notin windows
  /\ class = "INPUT_OUTPUT" => p \in inputOutput
  /\ io => w \notin drawables
  /\ inputOutput' = IF io THEN inputOutput \cup {w} ELSE inputOutput
  /\ drawables' = IF io THEN drawables \cup {w} ELSE drawables
  /\ windows' = windows \cup {w}
  /\ parent' = [parent EXCEPT ![w] = p]
  /\ children' = [children EXCEPT ![p] = Append(@, w)]
  /\ override' = IF overrides THEN override \cup {w} ELSE override
  /\ \E contains \in BOOLEAN : under' = IF contains THEN under \cup {w} ELSE under
  /\ mapped' = mapped
  /\ UpdatePointWindow
  /\ SelectEvents(c, w, mask)
  /\ ownedWindows' = [ownedWindows EXCEPT ![c] = @ \cup {w}]
  /\ UNCHANGED <<pixmaps, focus, grab, buttonVars, selection, client, ownedPixmaps,
                 freeing, crashed>>

(* isClientCanSelectFor: no other client listens, or this one is remembered  *)
(* as a listener.                                                           *)
ClientCanSelectFor_Always(c, w, mask, e) == TRUE      \* mutant: not checked

ClientCanSelectFor(c, w, mask, e) ==
  e \in mask /\ HasListener(w, e) => e \in remembered[c][w]

ChangeEventMask(c, w, mask) ==
  /\ Handles(c, "ChangeWindowAttributes")
  /\ w \in windows
  /\ \A e \in Exclusive : ClientCanSelectFor(c, w, mask, e)
  /\ SelectEvents(c, w, mask)
  /\ UNCHANGED <<treeVars, drawVars, inputVars, buttonVars, selection, ownerVars, crashed>>

(* overrideRedirect is written before the event mask is checked, and stays   *)
(* when BadAccess is raised.                                                *)
ChangeOverrideRedirect(c, w, overrides) ==
  /\ Handles(c, "ChangeWindowAttributes")
  /\ w \in windows
  /\ override' = IF overrides THEN override \cup {w} ELSE override \ {w}
  /\ UNCHANGED <<windows, parent, children, mapped, under, drawVars, inputVars,
                 buttonVars, selection, listenVars, ownerVars, crashed>>

-----------------------------------------------------------------------------
(* Mapping.                                                                 *)

(* A window is mapped directly, or its parent's redirector is asked to.      *)
Redirected(w) == HasListener(parent[w], "redirect") /\ w \notin override

(* DesktopHelper gives the focus to application windows.                    *)
FocusApplication(w) ==
  focus' = [window |-> w,
            revertTo |-> IF parent[w] = Root THEN "POINTER_ROOT" ELSE "PARENT"]

MapWindow(c, w) ==
  /\ Handles(c, "MapWindow")
  /\ w \in windows \ mapped
  /\ ~Redirected(w)
  /\ mapped' = mapped \cup {w}
  /\ \/ focus' = focus                  \* not an application window
     \/ FocusApplication(w)
  /\ UNCHANGED <<windows, parent, children, override, under, drawVars, grab, buttonVars,
                 selection, listenVars, ownerVars, crashed>>
  /\ UpdatePointWindow

(* unmapWindow: GrabManager ends any grab, whatever its window.             *)
Unmap(w) ==
  /\ mapped' = mapped \ {w}
  /\ focus' = IF focus.window = w /\ w \in mapped
              THEN [focus EXCEPT !.window = Revert(w)] ELSE focus
  /\ grab' = IF w \in mapped THEN NoGrab ELSE grab

UnmapWindow(c, w) ==
  /\ Handles(c, "UnmapWindow")
  /\ w \in (windows \cap mapped) \ {Root}
  /\ Unmap(w)
  /\ UNCHANGED <<windows, parent, children, override, under, drawVars, buttonVars,
                 selection, listenVars, ownerVars, crashed>>
  /\ UpdatePointWindow

(* configureWindow: new geometry and a new place among the siblings.  A      *)
(* resized window gets a new drawable with the old identifier.              *)
ConfigureWindow(c, w) ==
  LET rest == RemoveFirst(children[parent[w]], w) IN
  /\ Handles(c, "ConfigureWindow")
  /\ w \in windows \ {Root}
  /\ ~Redirected(w)
  /\ \E i \in 1 .. Len(rest) + 1 :
       children' = [children EXCEPT ![parent[w]] = InsertAt(rest, i, w)]
  /\ \E S \in SUBSET Subtree(w) : under' = (under \ Subtree(w)) \cup S
  /\ UNCHANGED <<windows, parent, mapped, override, drawVars, focus, grab, buttonVars,
                 selection, listenVars, ownerVars, crashed>>
  /\ UpdatePointWindow

(* reparentWindow: no notification, and the window under the pointer is not  *)
(* looked up again.                                                         *)
ReparentWindow(c, w, p) ==
  /\ Handles(c, "ReparentWindow")
  /\ {w, p} \subseteq windows
  /\ p \notin Subtree(w)
  /\ parent' = [parent EXCEPT ![w] = p]
  /\ children' = [Detached(w) EXCEPT ![p] = Append(@, w)]
  /\ \E S \in SUBSET Subtree(w) : under' = (under \ Subtree(w)) \cup S
  /\ UNCHANGED <<windows, mapped, override, drawVars, inputVars, buttonVars, selection,
                 listenVars, ownerVars, crashed>>

(* The root has no parent (configureWindow), and nothing keeps a window from *)
(* becoming a child of its own descendant: the next walk towards the root    *)
(* does not end.  No behaviour is specified after that.                      *)
CrashOnTree(c, w, p) ==
  /\ \/ Handles(c, "ConfigureWindow") /\ w = Root /\ p = Root
     \/ Handles(c, "ReparentWindow") /\ w \in windows /\ p \in Subtree(w)
  /\ crashed' = TRUE
  /\ UNCHANGED <<treeVars, drawVars, inputVars, buttonVars, selection, listenVars, ownerVars>>

-----------------------------------------------------------------------------
(* destroyWindow: the window is unmapped, then its subtree is removed,       *)
(* children first; the listeners of the resource managers drop what they     *)
(* hold on each window.                                                     *)

(* The focus moves up until it leaves the subtree.                          *)
FocusWithout_Child(w, D) ==                 \* mutant: only the window itself is checked
  IF focus.window = w THEN [focus EXCEPT !.window = Revert(w)] ELSE focus

FocusWithout(w, D) ==
  IF focus.window \in D THEN [focus EXCEPT !.window = Revert(w)] ELSE focus

GrabWithout_Kept(w) == grab                 \* mutant: the window is not unmapped first

GrabWithout(w) == IF w \in mapped THEN NoGrab ELSE grab

SelectionWithout_Kept(D) == selection       \* mutant: onFreeResource missing

SelectionWithout(D) ==
  IF selection.owner \in D THEN [selection EXCEPT !.owner = None] ELSE selection

DrawablesWithout_Kept(D) == drawables       \* mutant: removeDrawable missing

DrawablesWithout(D) == drawables \ (D \cap inputOutput)

OwnedWithout_Kept(D) ==                     \* mutant: no other client forgets it
  [c \in Clients |-> IF c = freeing THEN ownedWindows[c] \ D ELSE ownedWindows[c]]

OwnedWithout(D) == [c \in Clients |-> ownedWindows[c] \ D]

RememberedWithout(D) ==
  [c \in Clients |-> [x \in AllWindows |-> IF x \in D THEN {} ELSE remembered[c][x]]]

SelectedWithout(D) ==
  [x \in AllWindows |-> IF x \in D THEN [c \in Clients |-> {}] ELSE selected[x]]

Destroy(w) ==
  LET D == Subtree(w) IN
  /\ windows' = windows \ D
  /\ parent' = [x \in AllWindows |-> IF x \in D THEN None ELSE parent[x]]
  /\ children' = [x \in AllWindows |-> IF x \in D THEN <<>> ELSE Detached(w)[x]]
  /\ mapped' = mapped \ D
  /\ override' = override \ D
  /\ under' = under \ D
  /\ inputOutput' = inputOutput \ D
  /\ drawables' = DrawablesWithout(D)
  /\ focus' = FocusWithout(w, D)
  /\ grab' = GrabWithout(w)
  /\ selection' = SelectionWithout(D)
  /\ remembered' = RememberedWithout(D)
  /\ selected' = SelectedWithout(D)
  /\ ownedWindows' = OwnedWithout(D)
  /\ UpdatePointWindow

DestroyWindow(c, w) ==
  /\ Handles(c, "DestroyWindow")
  /\ w \in windows \ {Root}
  /\ Destroy(w)
  /\ UNCHANGED <<pixmaps, buttonVars, client, ownedPixmaps, freeing, crashed>>

-----------------------------------------------------------------------------
(* Pixmaps share the identifiers of drawables with windows.                 *)

CreatePixmap_Unchecked(c, p) ==             \* mutant: identifiers in use are accepted
  /\ Handles(c, "CreatePixmap")
  /\ ClientOf[p] = c
  /\ p \notin pixmaps
  /\ drawables' = drawables \cup {p}
  /\ pixmaps' = pixmaps \cup {p}
  /\ ownedPixmaps' = [ownedPixmaps EXCEPT ![c] = @ \cup {p}]
  /\ UNCHANGED <<treeVars, inputOutput, inputVars, buttonVars, selection, listenVars,
                 client, ownedWindows, freeing, crashed>>

CreatePixmap(c, p) ==
  /\ Handles(c, "CreatePixmap")
  /\ ClientOf[p] = c
  /\ p \notin drawables
  /\ drawables' = drawables \cup {p}
  /\ pixmaps' = pixmaps \cup {p}
  /\ ownedPixmaps' = [ownedPixmaps EXCEPT ![c] = @ \cup {p}]
  /\ UNCHANGED <<treeVars, inputOutput, inputVars, buttonVars, selection, listenVars,
                 client, ownedWindows, freeing, crashed>>

(* DRI3: the pixmap is not registered with its client, and an identifier of  *)
(* a window is not refused (createDrawable returns null).                   *)
PixmapFromBuffer(c, p) ==
  /\ Handles(c, "PixmapFromBuffer")
  /\ p \notin pixmaps
  /\ crashed' = (p \in drawables)
  /\ drawables' = drawables \cup {p}
  /\ pixmaps' = IF p \in drawables THEN pixmaps ELSE pixmaps \cup {p}
  /\ UNCHANGED <<treeVars, inputOutput, inputVars, buttonVars, selection, listenVars,
                 ownerVars>>

RemovePixmap(p) ==
  /\ pixmaps' = pixmaps \ {p}
  /\ drawables' = drawables \ {p}
  /\ ownedPixmaps' = [c \in Clients |-> ownedPixmaps[c] \ {p}]

FreePixmap(c, p) ==
  /\ Handles(c, "FreePixmap")
  /\ p \in pixmaps
  /\ RemovePixmap(p)
  /\ UNCHANGED <<treeVars, inputOutput, inputVars, buttonVars, selection, listenVars,
                 client, ownedWindows, freeing, crashed>>

-----------------------------------------------------------------------------
(* freeResources, when the connection is closed: first the resources, in     *)
(* some order, then the listeners that are left.                            *)

Disconnect(c) ==
  /\ client[c] = "connected"
  /\ freeing = None
  /\ ~crashed
  /\ freeing' = c
  /\ UNCHANGED <<treeVars, drawVars, inputVars, buttonVars, selection, listenVars,
                 client, ownedWindows, ownedPixmaps, crashed>>

FreeWindow(c, w) ==
  /\ freeing = c
  /\ w \in ownedWindows[c]
  /\ Destroy(w)
  /\ UNCHANGED <<pixmaps, buttonVars, client, ownedPixmaps, freeing, crashed>>

FreeOwnedPixmap(c, p) ==
  /\ freeing = c
  /\ p \in ownedPixmaps[c]
  /\ RemovePixmap(p)
  /\ UNCHANGED <<treeVars, inputOutput, inputVars, buttonVars, selection, listenVars,
                 client, ownedWindows, freeing, crashed>>

(* Mutant: the listeners on windows of others are left.                     *)
FreeListeners_Kept(c) ==
  /\ freeing = c
  /\ ownedWindows[c] = {} /\ ownedPixmaps[c] = {}
  /\ client' = [client EXCEPT ![c] = "gone"]
  /\ freeing' = None
  /\ UNCHANGED <<treeVars, drawVars, inputVars, buttonVars, selection, listenVars,
                 ownedWindows, ownedPixmaps, crashed>>

FreeListeners(c) ==
  /\ freeing = c
  /\ ownedWindows[c] = {} /\ ownedPixmaps[c] = {}
  /\ selected' = [w \in AllWindows |->
                    [selected[w] EXCEPT ![c] = IF remembered[c][w] = {} THEN @ ELSE {}]]
  /\ remembered' = [remembered EXCEPT ![c] = [w \in AllWindows |-> {}]]
  /\ client' = [client EXCEPT ![c] = "gone"]
  /\ freeing' = None
  /\ UNCHANGED <<treeVars, drawVars, inputVars, buttonVars, selection, ownedWindows,
                 ownedPixmaps, crashed>>

-----------------------------------------------------------------------------
(* Focus, grabs, selections.                                                *)

(* The window of the request counts only when the focus reverts to parents.  *)
SetInputFocus(c, w, revertTo) ==
  /\ Handles(c, "SetInputFocus")
  /\ w \in windows
  /\ focus' = [revertTo |-> revertTo,
               window |-> CASE revertTo = "NONE" -> None
                            [] revertTo = "POINTER_ROOT" -> Root
                            [] revertTo = "PARENT" -> w]
  /\ UNCHANGED <<treeVars, drawVars, pointWindow, grab, buttonVars, selection,
                 listenVars, ownerVars, crashed>>

GrabPointer(c, w) ==
  /\ Handles(c, "GrabPointer")
  /\ ~relativeMouse
  /\ w \in windows
  /\ grab.window = None \/ grab.client = c
  /\ Viewable(w)
  /\ grab' = [window |-> w, client |-> c, withButtons |-> FALSE]
  /\ UNCHANGED <<treeVars, drawVars, focus, pointWindow, buttonVars, selection,
                 listenVars, ownerVars, crashed>>

(* Any client may end the grab.                                             *)
UngrabPointer(c) ==
  /\ Handles(c, "UngrabPointer")
  /\ grab' = NoGrab
  /\ UNCHANGED <<treeVars, drawVars, focus, pointWindow, buttonVars, selection,
                 listenVars, ownerVars, crashed>>

SetSelectionOwner(c, w) ==
  /\ Handles(c, "SetSelectionOwner")
  /\ w \in windows
  /\ selection' = [owner |-> w, client |-> c]
  /\ UNCHANGED <<treeVars, drawVars, inputVars, buttonVars, listenVars, ownerVars, crashed>>

-----------------------------------------------------------------------------
(* The pointer and the keyboard.                                            *)

(* The nearest ancestor of w, or w, on which some client listens to e.       *)
Nearest(w, e) ==
  {g \in windows : /\ w \in Subtree(g) /\ HasListener(g, e)
                   /\ \A h \in windows : w \in Subtree(h) /\ HasListener(h, e) => g \in Subtree(h)}

(* Mutant: destroyed windows are still hit.                                 *)
PointerMove_Dead ==
  /\ Injects("PointerMove")
  /\ \E S \in SUBSET Ids : under' = S
  /\ UNCHANGED <<windows, parent, children, mapped, override, drawVars, focus, grab,
                 buttonVars, selection, listenVars, ownerVars, crashed>>
  /\ UpdatePointWindow

PointerMove ==
  /\ Injects("PointerMove")
  /\ \E S \in SUBSET (windows \ {Root}) : under' = S
  /\ UNCHANGED <<windows, parent, children, mapped, override, drawVars, focus, grab,
                 buttonVars, selection, listenVars, ownerVars, crashed>>
  /\ UpdatePointWindow

(* warpPointer sets the position without notifying the listeners.           *)
WarpPointer(c) ==
  /\ Handles(c, "WarpPointer")
  /\ ~relativeMouse
  /\ \E S \in SUBSET (windows \ {Root}) : under' = S
  /\ UNCHANGED <<windows, parent, children, mapped, override, drawVars, inputVars,
                 buttonVars, selection, listenVars, ownerVars, crashed>>

(* A press starts a grab on the nearest window above the pointer's where a   *)
(* client listens, unless a doNotPropagateMask stops the search.  The window *)
(* under the pointer is the one last looked up.                             *)
ImplicitGrab ==
  \E g \in Nearest(pointWindow, "press"), c \in Clients :
    /\ "press" \in selected[g][c]
    /\ grab' = [window |-> g, client |-> c, withButtons |-> TRUE]

(* DesktopHelper looks the window up again, and may focus it first.          *)
ButtonPress(b) ==
  /\ Injects("Button")
  /\ b \notin pressed
  /\ pressed' = pressed \cup {b}
  /\ \/ focus' = focus
     \/ FindPointWindow \notin {Root, focus.window} /\ FocusApplication(FindPointWindow)
  /\ \/ ~relativeMouse /\ grab.window = None /\ ImplicitGrab
     \/ grab' = grab
  /\ UNCHANGED <<treeVars, drawVars, pointWindow, relativeMouse, selection, listenVars,
                 ownerVars, crashed>>

ButtonRelease_KeepsGrab(b) ==               \* mutant: the grab is not ended
  /\ Injects("Button")
  /\ b \in pressed
  /\ pressed' = pressed \ {b}
  /\ UNCHANGED <<treeVars, drawVars, focus, pointWindow, grab, relativeMouse, selection,
                 listenVars, ownerVars, crashed>>

ButtonRelease(b) ==
  /\ Injects("Button")
  /\ b \in pressed
  /\ pressed' = pressed \ {b}
  /\ grab' = IF ~relativeMouse /\ pressed' = {} /\ grab.withButtons THEN NoGrab ELSE grab
  /\ UNCHANGED <<treeVars, drawVars, focus, pointWindow, relativeMouse, selection,
                 listenVars, ownerVars, crashed>>

SetRelativeMouse ==
  /\ Injects("SetRelativeMouse")
  /\ relativeMouse' = ~relativeMouse
  /\ UNCHANGED <<treeVars, drawVars, inputVars, pressed, selection, listenVars,
                 ownerVars, crashed>>

(* A key event is sent to the first window between the pointer's and the     *)
(* focused one where a client listens; when there is none, or a              *)
(* doNotPropagateMask stops the search, a null window is used.               *)
KeyEvent ==
  /\ Injects("KeyEvent")
  /\ focus.window # None
  /\ LET at == FindPointWindow
         lost == IsAncestorOf(focus.window, at) /\ ~HasListener(at, "key")
         heard == \E g \in Subtree(focus.window) : at \in Subtree(g) /\ HasListener(g, "key")
     IN  /\ pointWindow' = at
         /\ \/ crashed' = FALSE /\ (lost => heard)
            \/ crashed' = TRUE /\ lost
  /\ UNCHANGED <<treeVars, drawVars, focus, grab, buttonVars, selection, listenVars, ownerVars>>

-----------------------------------------------------------------------------
ClientStep(c) ==
  \/ Connect(c)
  \/ \E w \in Ids, p \in windows, overrides \in Overrides, mask \in Masks \cup {{}}, class \in Classes :
       CreateWindow(c, w, p, class, overrides, mask)
  \/ \E w \in windows, mask \in Masks : ChangeEventMask(c, w, mask)
  \/ \E w \in windows, overrides \in Overrides : ChangeOverrideRedirect(c, w, overrides)
  \/ \E w \in windows : MapWindow(c, w) \/ UnmapWindow(c, w) \/ ConfigureWindow(c, w)
  \/ \E w, p \in windows : ReparentWindow(c, w, p) \/ CrashOnTree(c, w, p)
  \/ \E w \in windows : DestroyWindow(c, w)
  \/ \E p \in Ids : CreatePixmap(c, p) \/ PixmapFromBuffer(c, p) \/ FreePixmap(c, p)
  \/ \E w \in windows, revertTo \in {"NONE", "POINTER_ROOT", "PARENT"} :
       SetInputFocus(c, w, revertTo)
  \/ \E w \in windows : GrabPointer(c, w) \/ SetSelectionOwner(c, w)
  \/ UngrabPointer(c) \/ WarpPointer(c)

FreeStep(c) ==
  \/ Disconnect(c)
  \/ \E w \in ownedWindows[c] : FreeWindow(c, w)
  \/ \E p \in ownedPixmaps[c] : FreeOwnedPixmap(c, p)
  \/ FreeListeners(c)

InputStep ==
  \/ PointerMove \/ KeyEvent \/ SetRelativeMouse
  \/ \E b \in Buttons : ButtonPress(b) \/ ButtonRelease(b)

Next == (\E c \in Clients : ClientStep(c) \/ FreeStep(c)) \/ InputStep

Spec == Init /\ [][Next]_vars

-----------------------------------------------------------------------------
(* Types.                                                                   *)
TypeOK ==
  /\ windows \subseteq AllWindows
  /\ parent \in [AllWindows -> AllWindows \cup {None}]
  /\ children \in [AllWindows -> Seq(Ids)]
  /\ mapped \subseteq windows
  /\ override \subseteq windows
  /\ under \subseteq windows
  /\ inputOutput \subseteq windows
  /\ drawables \subseteq AllWindows
  /\ pixmaps \subseteq Ids
  /\ focus \in [window : AllWindows \cup {None}, revertTo : {"NONE", "POINTER_ROOT", "PARENT"}]
  /\ pointWindow \in AllWindows
  /\ grab \in [window : AllWindows \cup {None}, client : Clients \cup {None}, withButtons : BOOLEAN]
  /\ pressed \subseteq Buttons
  /\ relativeMouse \in BOOLEAN
  /\ selection \in [owner : AllWindows \cup {None}, client : Clients \cup {None}]
  /\ selected \in [AllWindows -> [Clients -> SUBSET EventNames]]
  /\ remembered \in [Clients -> [AllWindows -> SUBSET EventNames]]
  /\ client \in [Clients -> {"new", "connected", "gone"}]
  /\ ownedWindows \in [Clients -> SUBSET Ids]
  /\ ownedPixmaps \in [Clients -> SUBSET Ids]
  /\ freeing \in Clients \cup {None}
  /\ crashed \in BOOLEAN

(* Every window descends from the root.                                     *)
Rooted ==
  /\ Root \in windows
  /\ parent[Root] = None
  /\ \A w \in windows : w \in Subtree(Root)

(* The children are the inverse of the parents.                             *)
ChildrenMatch ==
  \A w, p \in AllWindows :
    Cardinality({i \in 1 .. Len(children[p]) : children[p][i] = w}) =
      IF w \in windows /\ parent[w] = p THEN 1 ELSE 0

(* Every window but the root is once in the children of its parent, which is *)
(* a window, and the root is an ancestor of all: reparenting, restacking and *)
(* the destruction of subtrees never leave a window behind or in two places. *)
TreeWellFormed == Rooted /\ ChildrenMatch

(* The drawables are those of the windows with output and of the pixmaps, so *)
(* removing a window or a pixmap always finds its drawable, and none leaks.  *)
DrawablesMatch ==
  /\ inputOutput \cap pixmaps = {}
  /\ drawables = inputOutput \cup pixmaps

(* Whatever the order in which windows of several clients are nested and     *)
(* destroyed, a client's list of resources holds exactly its live windows    *)
(* and the pixmaps it created, and a client that is gone has none.  (Pixmaps *)
(* made by DRI3 are in no list.)                                            *)
ResourcesOwned ==
  /\ \A c \in Clients : ownedWindows[c] = {w \in windows \cap Ids : ClientOf[w] = c}
  /\ \A c \in Clients : ownedPixmaps[c] \subseteq {p \in pixmaps : ClientOf[p] = c}
  /\ "PixmapFromBuffer" \notin Requests => \A p \in pixmaps : p \in ownedPixmaps[ClientOf[p]]
  /\ \A c \in Clients : client[c] # "connected" => ownedWindows[c] = {} /\ ownedPixmaps[c] = {}

(* The focused window exists: destroying it, or a subtree around it, moves   *)
(* the focus out of what is destroyed.                                      *)
FocusLive ==
  /\ focus.window \in windows \cup {None}
  /\ focus.revertTo = "NONE" => focus.window = None

(* The window that receives pointer events exists.                          *)
PointWindowLive == pointWindow \in windows

(* Every change of the tree that changes the window under the pointer is     *)
(* noticed at once, except reparenting and warping, which notify nobody.     *)
PointWindowFollows ==
  [][ \/ FindPointWindow' = FindPointWindow
      \/ pointWindow' = FindPointWindow'
      \/ \E c \in Clients : WarpPointer(c)
      \/ \E c \in Clients, w, p \in windows : ReparentWindow(c, w, p) ]_vars

(* As long as windows are not reparented or the pointer warped, the window   *)
(* of a grab exists and is viewable, so a grab never outlives what it is on: *)
(* unmapping or destroying an ancestor ends it.                             *)
GrabViewable ==
  ({"ReparentWindow", "WarpPointer"} \cap Requests = {} /\ grab.window # None) =>
    grab.window \in windows /\ Viewable(grab.window)

(* A grab made by a button press ends with the last button, unless the       *)
(* pointer is switched to relative movement in between.                     *)
ImplicitGrabEnds ==
  "SetRelativeMouse" \notin Requests =>
    (grab.window # None /\ grab.withButtons => pressed # {})

(* The owner of a selection exists.                                         *)
SelectionLive == selection.owner \in windows \cup {None}

(* What the server remembers of its windows outside of the tree exists, in   *)
(* whatever order windows are destroyed and clients leave.                  *)
ReferencesLive == FocusLive /\ PointWindowLive /\ SelectionLive

(* A listener on a window belongs to a connected client and is the one that  *)
(* client remembers: none outlives its client, and each can be removed.      *)
ListenersMatch ==
  \A w \in AllWindows, c \in Clients :
    selected[w][c] # {} =>
      w \in windows /\ client[c] = "connected" /\ selected[w][c] = remembered[c][w]

(* At most one client redirects the children of a window, and at most one    *)
(* takes its button presses, provided that clients never select an empty     *)
(* mask: that leaves a stale entry which lets them in again.                 *)
OneExclusiveListener ==
  {} \notin Masks =>
    \A w \in windows, e \in Exclusive, c, d \in Clients :
      e \in selected[w][c] /\ e \in selected[w][d] => c = d

(* Both, in whatever order clients select, deselect and leave.              *)
ListenersSound == ListenersMatch /\ OneExclusiveListener

=============================================================================
