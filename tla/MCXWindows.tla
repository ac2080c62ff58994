----------------------------- MODULE MCXWindows -----------------------------
(* Instances of XWindows.                                                   *)
EXTENDS XWindows

CONSTANTS w1, w2, w3, c1, c2

(* All windows of one client, or of two.                                    *)
TreeClientOf == [i \in Ids |-> c1]
PairClientOf == [i \in Ids |-> IF i = w1 THEN c1 ELSE c2]

(* Clients select nothing, or button presses, or those and redirection.     *)
TreeMasks == {{}}
GrabMasks == {{"press"}}
ListenMasks == {{"redirect", "press"}}

InputRequests ==
  {"CreateWindow", "DestroyWindow", "MapWindow", "UnmapWindow", "ConfigureWindow",
   "ReparentWindow", "PointerMove", "WarpPointer", "SetRelativeMouse",
   "SetInputFocus", "SetSelectionOwner"}

GrabRequests ==
  {"CreateWindow", "DestroyWindow", "MapWindow", "UnmapWindow", "PointerMove", "KeyEvent",
   "GrabPointer", "UngrabPointer", "Button", "ChangeWindowAttributes"}

ClientRequests ==
  {"CreateWindow", "DestroyWindow", "ReparentWindow", "CreatePixmap", "PixmapFromBuffer",
   "FreePixmap"}

=============================================================================
