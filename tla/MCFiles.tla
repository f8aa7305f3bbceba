---- MODULE MCFiles ----
(* The files of the network disk: FileStore on the server, and Download on a client.  *)
(* They are independent, so a behaviour is one of the server or one of the client.    *)
EXTENDS MCFileStore
CONSTANTS long, Thread, MaxInode, Hole
VARIABLES side, remote, data, part, file, download

ASSUME MaxInode \in Nat \ {0} /\ Hole # long

clientVars == <<remote, data, part, file, download>>
Client == INSTANCE Download WITH Content <- {long}, Size <- (long :> 3), job <- download,
                                 MayBreak <- TRUE, MayReplace <- TRUE

ASSUME ClientAssumption == Client!DownloadAssumption /\ Client!OneContent

FilesInit == Init /\ Client!Init /\ side \in {"server", "client"}
FilesNext == /\ UNCHANGED side
             /\ \/ side = "server" /\ Next /\ UNCHANGED clientVars
                \/ side = "client" /\ Client!Next /\ UNCHANGED vars
FilesSpec == FilesInit /\ [][FilesNext]_<<side, vars, clientVars>>

FilesSymmetric == Symmetric \cup Permutations(Thread)

\* A download that starts from nothing writes the whole content, and the name has it then,
\* if no other download has ended since it opened the file.
FreshIsWhole == Client!FreshIsWhole
====
