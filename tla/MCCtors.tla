------------------------------- MODULE MCCtors -------------------------------
(* Ctors with films of a few frames and programs of a few objects.         *)
EXTENDS Ctors

\* Rows of three cells.
A == <<0, 0, 0>>
B == <<0, 0, 1>>
C == <<0, 1, 1>>
D == <<1, 1, 0>>
E == <<0, 1, 0>>
W == <<1, 1, 1>>

\* Codes longer than a byte; two blocks that become one; a blank first frame.
MCFilms ==
  { A \o A \o A \o W \o B \o W \o W \o B \o C \o W \o D \o W,
    E \o E \o A \o E \o A \o W,
    W \o W \o C \o D \o W \o A }

\* The kernel's, 4 being the video's; nothing; and two that use both tables.
MCLists ==
  { << <<>>, <<4>> >>, << <<>>, <<>> >>,
    << <<12, 20>>, <<12>> >>, << <<20>>, <<28, 12>> >> }

=============================================================================
