------------------------------- MODULE Removal -------------------------------
(***************************************************************************)
(* Taking objects out of an array, as -[NSMutableArray removeObject:] and  *)
(* -[NSNotificationCenter removeObserver:] do: what is left keeps its      *)
(* order.                                                                  *)
(***************************************************************************)
EXTENDS Integers, Sequences

\* The elements of s that are not in gone.
Without(s, gone) ==
    LET rest[k \in 0 .. Len(s)] ==
          IF k = 0 THEN << >>
          ELSE IF s[k] \in gone THEN rest[k - 1] ELSE Append(rest[k - 1], s[k])
    IN  rest[Len(s)]

=============================================================================
