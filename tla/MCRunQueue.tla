----------------------------- MODULE MCRunQueue -----------------------------
(***************************************************************************)
(* Three small builds for RunQueue.                                        *)
(***************************************************************************)
EXTENDS RunQueueProperties

Stamped(names, hash) == [n \in Names |-> IF n \in names THEN hash ELSE None]

NoStamps == {Stamped({}, 0)}
NoPairs == {}

(* Recipe a: compile (1), then package (2) and sysroot (3), both cached.   *)
(* Recipe b: fetch (4), compile (5) needs the fetch and a's sysroot,       *)
(* package (6, cached); the image (7) needs both packages.                 *)
ImageDepends == <<{}, {1}, {1}, {}, {3, 4}, {5}, {2, 6}>>
ImageName == <<1, 2, 3, 4, 5, 6, 7>>
ImageRecipe == <<"a", "a", "a", "b", "b", "b", "image">>

Cached(S) == {<<n, 0>> : n \in S}
ImageSstate == {Cached(S) : S \in SUBSET {2, 3, 6}}

\* A first build was interrupted after some of these, or was complete.
ImageStamps == {Stamped(S, 0) : S \in {{}, {1}, {1, 2, 3}, {1, 3, 4, 5}, 1..7}}
ImageSetsceneStamps == {Stamped(S, 0) : S \in {{}, {2}, {3, 6}, {2, 3, 6}}}

(* One recipe in two multiconfigs that share their stamps: compile (1, 4), *)
(* package (2, 5), write the package (3, 6; it looks at the compiled files *)
(* too), and an image of both (7).                                         *)
TwinDepends == <<{}, {1}, {1, 2}, {}, {4}, {4, 5}, {3, 6}>>
TwinName == <<1, 2, 3, 1, 2, 3, 7>>
TwinRecipe == <<"a", "a", "a", "b", "b", "b", "image">>
TwinSstate == {{<<n, 0>> : n \in S} : S \in SUBSET {2, 3}}

(* The first build again, with a's compile (7) and package (8) a second    *)
(* time, in another multiconfig, and both packages of a in the image (9).  *)
MixDepends == <<{}, {1}, {1}, {}, {3, 4}, {5}, {}, {7}, {2, 6, 8}>>
MixName == <<1, 2, 3, 4, 5, 6, 1, 2, 9>>
MixRecipe == <<"a", "a", "a", "b", "b", "b", "c", "c", "image">>
\* a's sysroot may not be unpacked without a's package.
PackageFirst == {<<2, 3>>}
\* Another builder's output of b's package, under the hash it will have.
MixSstate == {Cached({}), Cached({6}), Cached({2}) \cup {<<6, 1>>}}

=============================================================================
