---------------------------- MODULE MCNamespace ----------------------------
(* Instances of Namespace for TLC.                                         *)
EXTENDS Namespace, TLC

CONSTANTS t1, t2

TwoThreads == {t1, t2}

\* Two directories of two files and a directory each.
D == <<"d">>
E == <<"e">>
DF == <<"d", "f">>
DG == <<"d", "g">>
DS == <<"d", "s">>
EF == <<"e", "f">>
EG == <<"e", "g">>
ES == <<"e", "s">>

MCFiles == {DF, DG, EF, EG}
MCDirs == {D, E, DS, ES}

Start(F) == [f \in MCFiles |-> IF f \in F THEN 1 ELSE 0]

\* One user of a bucket without markers makes and removes names.
Making == [provider |-> "s3", markers |-> FALSE, start |-> Start({}), threads |-> {t1},
           ops |-> {"getattr", "mkdir", "rmdir", "create", "unlink", "readdir"},
           names |-> {Root, D, DF, E}, other |-> FALSE, faults |-> 0, async |-> FALSE, ticks |-> 0]

\* The same with directories in directories, which nothing lists.
Nested == [Making EXCEPT !.names = {D, DF, DS}, !.ops = {"mkdir", "rmdir", "create", "unlink"}]

\* Directories with markers.
Marking == [Making EXCEPT !.markers = TRUE, !.names = {Root, D, DF, DS}]
Azure == [Making EXCEPT !.provider = "azure", !.markers = TRUE, !.ticks = 1, !.names = {Root, D, DF}]
DataLake == [Marking EXCEPT !.provider = "datalake"]

\* Directories and files are renamed, and nobody lists the directory above:
\* see the README for what goes wrong when somebody does.
Renaming == [Making EXCEPT !.start = Start({DF, DG}), !.names = {D, DF, E, EF},
                           !.ops = {"getattr", "mkdir", "readdir", "renamefile", "renamedir", "unlink", "rmdir"}]
RenamingAzure == [Renaming EXCEPT !.provider = "azure", !.markers = TRUE]
RenamingLake == [Renaming EXCEPT !.provider = "datalake", !.markers = TRUE,
                                 !.names = {D, DF, DS, E}, !.ops = @ \ {"rmdir"}]

\* Copies in the background, and requests that fail.
Background == [RenamingAzure EXCEPT !.async = TRUE, !.faults = 1, !.names = {D, DF, DG, E, EF},
                                    !.ops = {"getattr", "renamefile", "renamedir"}]
FaultyAzure == [Background EXCEPT !.async = FALSE, !.threads = TwoThreads, !.faults = 2, !.names = {D, DF, E},
                                  !.ops = {"mkdir", "renamedir", "unlink"}]

\* Files are written, truncated, uploaded and refreshed.
Sizing == [Making EXCEPT !.start = Start({DF}), !.names = {D, DF},
                         !.ops = {"getattr", "readdir", "open", "download", "write", "truncate",
                                  "upload", "flush", "sync", "chmod", "link", "unlink"}]
Syncing == [Sizing EXCEPT !.ops = {"getattr", "readdir", "write", "upload", "flush", "syncdir"}]

\* Two calls at a time.
Racing == [Making EXCEPT !.threads = TwoThreads, !.names = {D, DF, E},
                         !.ops = {"mkdir", "rmdir", "create", "unlink"}]
RacingReads == [Racing EXCEPT !.names = {Root, D, E}, !.ops = {"getattr", "readdir", "mkdir", "rmdir"}]
RacingRenames == [Racing EXCEPT !.provider = "datalake", !.markers = TRUE, !.start = Start({DF, EG}),
                                !.names = {D, DF, EF, E},
                                !.ops = {"renamefile", "unlink", "getattr", "create"}]

\* Requests fail on the way.
Faulty == [Renaming EXCEPT !.faults = 2, !.threads = TwoThreads, !.names = {D, DF, E},
                           !.ops = {"getattr", "renamedir", "unlink"}]
FaultyFile == [Renaming EXCEPT !.faults = 1, !.start = Start({DF, EF}),
                               !.ops = {"getattr", "renamefile", "readdir", "rmdir"}]

FaultyMarkers == [Marking EXCEPT !.faults = 2, !.start = Start({DF}), !.names = {D, DS, E, ES},
                                 !.ops = {"mkdir", "renamedir"}]

\* Time passes for a user alone.
Ageing == [Making EXCEPT !.ticks = 1]
AgeingFiles == [Sizing EXCEPT !.ticks = 1,
                              !.ops = {"getattr", "readdir", "write", "truncate", "chmod", "unlink", "create"}]

\* Another client of the bucket, and time passes.
Others == [Making EXCEPT !.other = TRUE, !.ticks = 1, !.start = Start({DF}), !.names = {Root, D, DF},
                         !.ops = {"getattr", "readdir", "unlink", "upload", "chmod"}]

OthersSizing == [Others EXCEPT !.names = {D, DF},
                               !.ops = {"getattr", "write", "truncate", "open", "download", "unlink"}]
OthersLake == [Others EXCEPT !.provider = "datalake", !.markers = TRUE, !.start = Start({}), !.names = {D, DF, DG},
                             !.ops = {"getattr", "mkdir", "renamefile"}, !.ticks = 0]
OthersAzure == [Others EXCEPT !.provider = "azure", !.markers = TRUE, !.names = {D, DF, E},
                              !.ops = {"getattr", "renamedir"}, !.ticks = 0]

AllMounts == {Making, Nested, Marking, Azure, DataLake, Renaming, RenamingAzure, RenamingLake, Background,
              Sizing, Syncing, Racing, RacingReads, RacingRenames, Faulty, FaultyFile,
              FaultyAzure, FaultyMarkers, Ageing, AgeingFiles, Others,
              OthersSizing, OthersLake, OthersAzure}

\* Where the code differs from what it says of itself.
BackgroundMounts == {Background}
AgeingMounts == {Ageing}
=============================================================================
