--------------------------- MODULE MCRequestIntake ---------------------------
(* Small worlds for TLC.                                                   *)
EXTENDS RequestIntake, TLC

CONSTANTS m1, m2, m3, film, book, other, novel, c1, c2, h1, w1, w2

Says(a, b, c) == m1 :> a @@ m2 :> b @@ m3 :> c
World(says, old) == [target |-> says, legacy |-> old]

\* A film asked for again that nobody answered before the picker existed.
AskedAgain == World(Says(film, film, NoTarget), {m1})

\* A film asked for twice beside unparsable text, films from before the picker
\* alone, two audiobooks of one torrent, an ebook asked for twice.
Worlds5 ==
    {World(Says(film, film, NoTarget), {}), World(Says(film, film, film), {m1, m2, m3}),
     World(Says(book, other, book), {}), World(Says(novel, novel, NoTarget), {}),
     AskedAgain}

OldAndNew == {AskedAgain}

Kinds == film :> "arr" @@ book :> "abba" @@ other :> "abba" @@ novel :> "ebook"
OneTorrent == c1 :> h1 @@ c2 :> h1

Symmetric == Permutations(Workers)
=============================================================================
