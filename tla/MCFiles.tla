------------------------------- MODULE MCFiles -------------------------------
(* The instances of Files that TLC checks. *)
EXTENDS Files, TLC
CONSTANTS c1, c2

OneClient == {c1}
TwoClients == {c1, c2}
Symmetric == Permutations(TwoClients)

\* A server with a plugin, and a file in its world.
ServerDirs == {"plugins", "world"}
ServerNames == {"a.jar", "a.jar.disabled", "notes.txt"}
ServerFiles ==
  [p \in Path |-> CASE IsFolder(p) -> Folder
                    [] p = <<"plugins", "a.jar">> -> <<0, 1>>
                    [] p = <<"world", "notes.txt">> -> <<0, 2>>
                    [] OTHER -> Nothing]
ServerZip == <<"a.jar", "notes.txt">>
=============================================================================
