------------------------------ MODULE MCSuper ------------------------------
EXTENDS Super

CONSTANTS p1, p2, p3, a, b

MCProcsTwo   == {p1, p2}
MCProcsThree == {p1, p2, p3}
MCUmounterOne == {p1}
MCUmountersTwo == {p1, p2}
MCMounterTwo == {p2}
MCMountersTwo == {p1, p2}
MCNamerOne == {p1}
MCNamersTwo == {p1, p2}
MCNamersThree == {p1, p2, p3}
MCNameOne == {a}
MCNamesTwo == {a, b}
====
