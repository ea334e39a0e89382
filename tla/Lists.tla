------------------------------- MODULE Lists --------------------------------
(* The kernel's lists (list.c), as sequences of what their items stand for. *)
EXTENDS Naturals, Sequences

(* uxListRemove of the items that are not at the places to keep. *)
Kept(list, keep) ==
  LET kept[i \in 0 .. Len(list)] ==
        IF i = 0 THEN <<>>
        ELSE IF i \in keep THEN Append(kept[i - 1], list[i])
                           ELSE kept[i - 1]
  IN  kept[Len(list)]

=============================================================================
