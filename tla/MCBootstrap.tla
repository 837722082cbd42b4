---------------------------- MODULE MCBootstrap ----------------------------
EXTENDS Bootstrap

MCArchives == <<"binutils", "gcc">>
MCPatchesOf == [a \in {"binutils", "gcc"} |->
                  IF a = "binutils" THEN <<"binutils-2.14">> ELSE <<"gcc-3.2.2", "c-o-probe">>]
\* binutils-2.14.patch changes opcodes/mips-dis.c and then makes a file
\* opcodes/mips-dis.c.orig, the name of the backup of the former.
MCFilesOf == [q \in {"binutils-2.14", "gcc-3.2.2", "c-o-probe"} |->
                CASE q = "binutils-2.14" -> 3 [] q = "gcc-3.2.2" -> 2 [] q = "c-o-probe" -> 1]
MCBackups == [q \in {"binutils-2.14", "gcc-3.2.2", "c-o-probe"} |->
                IF q = "binutils-2.14" THEN {3} ELSE {}]
MCLanguages == {{"c"}, {"c", "c++"}}
Everywhere == Places
=============================================================================
