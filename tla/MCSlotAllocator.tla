-------------------------- MODULE MCSlotAllocator --------------------------
(* SlotAllocator for TLC.  Slots of two bytes; node 0 has two GPU windows  *)
(* and an overflow window, node 1 one GPU window, with sizes that are and  *)
(* are not multiples of the slot size, windows too small for a slot, and   *)
(* arenas larger than their windows.                                       *)
EXTENDS SlotAllocator

ArenaOf0(x, y, o, size) ==
  [node |-> 0, size |-> size, overflow |-> o,
   windows |-> << [gpu |-> 0, bytes |-> x], [gpu |-> 1, bytes |-> y] >>]
ArenaOf1(x, o, size) ==
  [node |-> 1, size |-> size, overflow |-> o, windows |-> << [gpu |-> 2, bytes |-> x] >>]

SmallConfigs ==
  {<<ArenaOf0(x, y, o, size0), ArenaOf1(z, p, size1)>> :
     x \in {4, 5}, y \in {1, 4}, o \in {0, 3}, size0 \in {8, 9, 13},
     z \in {3, 5}, p \in {0, 2}, size1 \in {6, 7}}
============================================================================
