------------------------------ MODULE MCShell -------------------------------
(* Shell with five paths, two of which have one id.                        *)
EXTENDS Shell

AppPaths == {"/", "/a/b", "/a-b", "/c", "/new-tab"}
NewTabs  == {"/new-tab"}
PathIds  == [p \in AppPaths |->
                CASE p = "/" -> "home" [] p = "/a/b" -> "a-b"
                  [] p = "/a-b" -> "a-b" [] p = "/c" -> "c"
                  [] p = "/new-tab" -> "new-tab"]
ShellMessages == {"pinLimit", "allPinned", "unpinFirst", "shared", "copied"}

\* Keep is Array.filter, as the library of sequences defines it.
ASSUME KeepIsSelectSeq ==
    \A n \in 0 .. 3 : \A s \in [1 .. n -> 1 .. 3], T \in SUBSET (1 .. 3) :
       Keep(s, {i \in DOMAIN s : s[i] \in T}) = SelectSeq(s, LAMBDA x : x \in T)
=============================================================================
