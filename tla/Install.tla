------------------------------- MODULE Install -------------------------------
(***************************************************************************)
(* What main.py puts on the console: install_package, which compares the   *)
(* local package with the manifest of the last install and, if anything    *)
(* changed, replaces the whole remote folder (by a bundle, or file by file *)
(* if that fails), and the repair of the cleng toolchain, which a pipeline *)
(* runs beside it and which knows nothing of the manifest.                 *)
(*                                                                         *)
(* Every remote command and every transfer may fail and leave part of its  *)
(* effect.  One job is at work at a time (installing, package_busy).       *)
(***************************************************************************)
EXTENDS Naturals

CONSTANTS
  Files,       \* the files of the package
  Cleng,       \* those of the cleng toolchain
  Compiler,    \* cleng/bin/cleng.exe
  Anzipper,    \* the two helper programs, which are files of the package as well
  Cleener,
  MaxTime      \* bounds the times of the model

ASSUME InstallAssumption ==
  /\ Cleng \subseteq Files /\ Compiler \in Cleng /\ {Anzipper, Cleener} \subseteq Files
  /\ MaxTime \in Nat

VARIABLES
  local,       \* for each file its modification time on the host; 0 before it exists
  console,     \* for each file the time of its contents on the console; 0 if it is not there
  cut,         \* the files on the console whose contents were cut off
  manifest,    \* the manifest on the console; 0 for a file it does not list
  tool,        \* the time of each helper in the bootstrap directory; 0 if it is not there
  swap,        \* how the last swap left it: cut off it is short or, where the system
               \* reserves the size of a file it copies, filled
  pc,          \* where the job stands
  mode,        \* what it is: an install by bundle, one file by file, or a repair
  scanned,     \* local_manifest: the times the scan of the package has found
  bundle,      \* the times of the contents in the zip file
  todo         \* the files that are still to be uploaded one by one

vars == <<local, console, cut, manifest, tool, swap, pc, mode, scanned, bundle, todo>>

Tools == {"anzipper", "cleener"}
Modes == {"bundle", "files", "repair"}
Steps == Tools \cup {"idle", "scan", "zip", "upload", "wipe", "extract", "put",
                     "record", "done", "failed"}

TypeOK ==
  /\ local \in [Files -> 0..MaxTime] /\ console \in [Files -> 0..MaxTime]
  /\ cut \subseteq Files
  /\ manifest \in [Files -> 0..MaxTime]
  /\ tool \in [Tools -> 0..MaxTime] /\ swap \in [Tools -> {"whole", "short", "filled"}]
  /\ pc \in Steps /\ mode \in Modes
  /\ scanned \in [Files -> 0..MaxTime] /\ bundle \in [Files -> 0..MaxTime]
  /\ todo \subseteq Files
  /\ mode = "bundle" => pc # "put"
  /\ mode = "files" => pc \in {"cleener", "wipe", "put", "done", "failed"}
  /\ mode = "repair" => pc \in {"zip", "upload", "anzipper", "extract", "done", "failed"}

Empty == [f \in Files |-> 0]

Init ==
  /\ local \in [Files -> {x \in 0..1 : x <= MaxTime}]
  /\ console = Empty /\ cut = {} /\ manifest = Empty
  /\ tool = [t \in Tools |-> 0] /\ swap = [t \in Tools |-> "whole"]
  /\ pc = "idle" /\ mode = "bundle"
  /\ scanned = Empty /\ bundle = Empty /\ todo = {}

-----------------------------------------------------------------------------
Step(from, to) == pc = from /\ pc' = to /\ UNCHANGED mode

\* An exception: an install by bundle falls back to single files, which begins
\* with the cleener; everything else has failed.
Raise(from) ==
  /\ pc = from
  /\ IF mode = "bundle"
     THEN pc' = "cleener" /\ mode' = "files"
     ELSE pc' = "failed" /\ UNCHANGED mode

\* _should_upload_manifest_entry.  (Of files with one time the sizes are compared
\* too; here every change of a file changes its time.)
ShouldUpload(f) == scanned'[f] > manifest[f]

Packaged == {f \in Files : scanned[f] > 0}

\* A build on the host changes a file of the package, or adds one, at any time.
Edit(f) ==
  /\ local[f] < MaxTime
  /\ local' = [local EXCEPT ![f] = @ + 1]
  /\ UNCHANGED <<console, cut, manifest, tool, swap, pc, mode, scanned, bundle, todo>>

-----------------------------------------------------------------------------
\* install_package and _upload_tree.

BeginInstall ==
  /\ pc = "idle" /\ pc' = "scan" /\ mode' = "bundle"
  /\ UNCHANGED <<local, console, cut, manifest, tool, swap, scanned, bundle, todo>>

\* Mutant: a file is compared with nothing but the presence of its entry.
ScanForNames ==
  /\ \/ /\ scanned' = local
        /\ \/ Step("scan", "zip") /\ \E f \in Files : scanned'[f] > 0 /\ manifest[f] = 0
           \/ Step("scan", "done") /\ \A f \in Files : scanned'[f] > 0 => manifest[f] > 0
     \/ Step("scan", "failed") /\ UNCHANGED scanned
  /\ UNCHANGED <<local, console, cut, manifest, tool, swap, bundle, todo>>

\* The package is compared with the remote manifest; one that cannot be read or
\* parsed counts as empty.
Scan ==
  /\ \/ /\ scanned' = local
        /\ \/ Step("scan", "zip") /\ \E f \in Files : ShouldUpload(f)
           \/ Step("scan", "done") /\ \A f \in Files : ~ShouldUpload(f)
     \/ Step("scan", "failed") /\ UNCHANGED scanned
  /\ UNCHANGED <<local, console, cut, manifest, tool, swap, bundle, todo>>

\* _create_install_bundle reads the files of the scan, as they are by now.
Zip ==
  /\ mode = "bundle"
  /\ \/ Step("zip", "upload") /\ bundle' = [f \in Files |-> IF f \in Packaged THEN local[f] ELSE 0]
     \/ Step("zip", "failed") /\ UNCHANGED bundle
  /\ UNCHANGED <<local, console, cut, manifest, tool, swap, scanned, todo>>

\* The zip is uploaded beside the remote folder.
Upload ==
  /\ Step("upload", "anzipper") \/ Raise("upload")
  /\ UNCHANGED <<local, console, cut, manifest, tool, swap, scanned, bundle, todo>>

\* Mutant: a repair goes on like an install.
AfterToolAlways(t) == IF t = "cleener" THEN "wipe" ELSE "cleener"

\* The anzipper is made ready before the wipe, the cleener for it.
AfterTool(t) ==
  IF t = "cleener" THEN "wipe" ELSE IF mode = "repair" THEN "extract" ELSE "cleener"

\* The helper as the package of the host has it.
Source(t) == IF t = "cleener" THEN Cleener ELSE Anzipper

\* Mutant: a helper that is as new as the host's is kept, whatever its size.
KeepToolByTime(t) == local[Source(t)] > 0 /\ tool[t] >= local[Source(t)]

\* A helper on the console is kept if it has the size of the host's and is not older.
\* (One that was built anew differs in its time; clocks are taken to agree.)
KeepTool(t) ==
  /\ local[Source(t)] > 0 /\ tool[t] >= local[Source(t)]
  /\ swap[t] # "short"

\* Any other is copied over from one uploaded beside it.
Swap(t, time, how) ==
  /\ local[Source(t)] > 0 /\ ~KeepTool(t)
  /\ tool' = [tool EXCEPT ![t] = time] /\ swap' = [swap EXCEPT ![t] = how]

\* _ensure_remote_bootstrap_tool, which may stop at any point: before the copy, in it
\* (the file is then removed by the system, or left in part) or after it.
EnsureTool(t) ==
  /\ \/ Step(t, AfterTool(t)) /\ KeepTool(t) /\ UNCHANGED <<tool, swap>>
     \/ Step(t, AfterTool(t)) /\ Swap(t, local[Source(t)], "whole")
     \/ Raise(t) /\ UNCHANGED <<tool, swap>>
     \/ Raise(t) /\ Swap(t, 0, "whole")
     \/ Raise(t) /\ \E how \in {"whole", "short", "filled"} : Swap(t, local[Source(t)], how)
  /\ UNCHANGED <<local, console, cut, manifest, scanned, bundle, todo>>

AfterWipe == IF mode = "bundle" THEN "extract" ELSE "put"

\* _wipe_remote_install_dir: cleener removes the entries of the folder in the
\* order in which they are listed and stops at the first it cannot remove.  The
\* name of the manifest begins with a dot, and the file system lists by name.
Wipe ==
  /\ \/ /\ Step("wipe", AfterWipe)
        /\ console' = Empty /\ cut' = {} /\ manifest' = Empty
     \/ /\ Raise("wipe")
        /\ \/ UNCHANGED <<console, cut, manifest>>
           \/ \E gone \in SUBSET Files :
                /\ console' = [f \in Files |-> IF f \in gone THEN 0 ELSE console[f]]
                /\ cut' = cut \ gone /\ manifest' = Empty
  /\ todo' = IF pc' = "put" THEN Packaged ELSE todo
  /\ UNCHANGED <<local, tool, swap, scanned, bundle>>

\* What anzipper has written of the files fs when it is done or has stopped: whole
\* files, and at most one that is cut off.
Written(fs, whole, torn) ==
  /\ whole \subseteq fs /\ torn \subseteq fs \ whole
  /\ \A f, g \in torn : f = g
  /\ console' = [f \in Files |-> IF f \in whole \cup torn THEN bundle[f] ELSE console[f]]
  /\ cut' = (cut \ whole) \cup torn

\* Mutant: the manifest is the first entry of the bundle.
ExtractManifestFirst ==
  /\ mode = "bundle"
  /\ \/ Step("extract", "done") /\ Written(Packaged, Packaged, {})
     \/ Raise("extract") /\ \E whole, torn \in SUBSET Packaged : Written(Packaged, whole, torn)
  /\ manifest' = scanned
  /\ UNCHANGED <<local, tool, swap, scanned, bundle, todo>>

\* anzipper writes the entries one after the other, the manifest last; that the
\* bundle cannot be deleted afterwards is a failure as well.
Extract ==
  /\ mode = "bundle"
  /\ \/ Step("extract", "done") /\ Written(Packaged, Packaged, {}) /\ manifest' = scanned
     \/ Raise("extract") /\ Written(Packaged, Packaged, {}) /\ manifest' = scanned
     \/ /\ Raise("extract") /\ UNCHANGED manifest
        /\ \E whole, torn \in SUBSET Packaged : Written(Packaged, whole, torn)
  /\ UNCHANGED <<local, tool, swap, scanned, bundle, todo>>

\* _upload_files_individually.
Put ==
  /\ pc = "put"
  /\ \E f \in todo :
       /\ console' = [console EXCEPT ![f] = local[f]]
       /\ \/ cut' = cut \ {f} /\ todo' = todo \ {f} /\ UNCHANGED <<pc, mode>>
          \/ cut' = cut \cup {f} /\ Raise("put") /\ UNCHANGED todo
  /\ UNCHANGED <<local, manifest, tool, swap, scanned, bundle>>

\* The manifest comes last; one that was cut off cannot be parsed.
Record ==
  /\ todo = {}
  /\ \/ Step("put", "done") /\ manifest' = scanned
     \/ Step("put", "failed") /\ manifest' = Empty
  /\ UNCHANGED <<local, console, cut, tool, swap, scanned, bundle, todo>>

\* The job is over, and its variables with it.
End ==
  /\ pc \in {"done", "failed"} /\ pc' = "idle"
  /\ mode' = "bundle" /\ scanned' = Empty /\ bundle' = Empty /\ todo' = {}
  /\ UNCHANGED <<local, console, cut, manifest, tool, swap>>

-----------------------------------------------------------------------------
\* _ensure_remote_cleng_bundle: before a build if the compiler is missing, and
\* again, by force, after one has failed.

BeginRepair ==
  /\ pc = "idle" /\ mode' = "repair"
  /\ \/ pc' = "zip"
     \/ pc' = "done" /\ console[Compiler] > 0
  /\ UNCHANGED <<local, console, cut, manifest, tool, swap, scanned, bundle, todo>>

ZipCleng ==
  /\ mode = "repair"
  /\ \/ Step("zip", "upload") /\ bundle' = [f \in Files |-> IF f \in Cleng THEN local[f] ELSE 0]
     \/ Step("zip", "failed") /\ UNCHANGED bundle
  /\ UNCHANGED <<local, console, cut, manifest, tool, swap, scanned, todo>>

\* The zip is expanded over what is there, and the manifest stays as it is.
ExtractCleng ==
  /\ mode = "repair"
  /\ LET present == {f \in Cleng : bundle[f] > 0} IN
     \/ Step("extract", "done") /\ Written(present, present, {})
     \/ Raise("extract") /\ \E whole, torn \in SUBSET present : Written(present, whole, torn)
  /\ UNCHANGED <<local, manifest, tool, swap, scanned, bundle, todo>>

-----------------------------------------------------------------------------
Next ==
  \/ \E f \in Files : Edit(f)
  \/ BeginInstall \/ Scan \/ Zip \/ Upload
  \/ \E t \in Tools : EnsureTool(t)
  \/ Wipe \/ Extract \/ Put \/ Record \/ End
  \/ BeginRepair \/ ZipCleng \/ ExtractCleng

Spec == Init /\ [][Next]_vars

-----------------------------------------------------------------------------
\* Whatever is interrupted, the manifest never lists a file that the console does
\* not have, or has in an older version, so that the next install cannot skip it
\* (_read_remote_manifest, _should_upload_manifest_entry).  Whole it is too, unless
\* a repair of cleng has cut it off.
ManifestIsTrue ==
  \A f \in Files : manifest[f] > 0 =>
    /\ console[f] >= manifest[f]
    /\ f \in cut => f \in Cleng

\* An install that reports success, by bundle, by single files or because nothing
\* had changed, leaves every file of the package on the console, as new as the
\* scan has seen it.
InstalledIsCurrent ==
  pc = "done" /\ mode # "repair" => \A f \in Packaged :
    /\ console[f] >= scanned[f]
    /\ f \in cut => f \in Cleng

\* Whatever swaps were interrupted and whatever was built in between, the cleener that
\* empties the folder and the anzipper that fills it again are there, have not been cut
\* short and are no older than the package the job has scanned.  (One that was cut off
\* with its full size is not told from a whole one, and is run.)
ToolsAreCurrent ==
  \A t \in Tools : pc = (IF t = "cleener" THEN "wipe" ELSE "extract") =>
    tool[t] > 0 /\ swap[t] # "short" /\ tool[t] >= scanned[Source(t)]
=============================================================================
