---------------------------- MODULE InstallProofs ----------------------------
(* Proofs about Install, for all packages and all histories of their files. *)
EXTENDS Install, TLAPS

\* What the scan, the manifest and the zip file know of a file is never newer than
\* the file, and the zip file is never older than the scan, nor, when cleng is
\* repaired, than the manifest.
TimesInv ==
  /\ \A f \in Files : scanned[f] <= local[f] /\ manifest[f] <= local[f]
  /\ mode = "bundle" /\ pc \in {"upload", "anzipper", "cleener", "wipe", "extract"} =>
       \A f \in Files : scanned[f] <= bundle[f]
  /\ mode = "repair" /\ pc \in {"upload", "anzipper", "extract"} =>
       \A f \in Files : f \in Cleng => manifest[f] <= bundle[f]

\* While files are written there is no manifest, and those that are no longer to be
\* uploaded are there.
WriteInv ==
  /\ pc = "put" \/ (mode = "bundle" /\ pc = "extract") => manifest = Empty
  /\ pc = "put" => \A f \in Files :
       f \notin todo => console[f] >= scanned[f] /\ (scanned[f] > 0 => f \notin cut)

\* The helper is there, not cut short and as new as the scan: what the check ensures.
Ready(t) == tool[t] > 0 /\ swap[t] # "short" /\ tool[t] >= scanned[Source(t)]

\* The anzipper of an install is made ready before the cleener.
ToolInv ==
  /\ pc = "wipe" => Ready("cleener")
  /\ mode = "bundle" /\ pc \in {"cleener", "wipe", "extract"} => Ready("anzipper")
  /\ mode = "repair" /\ pc = "extract" => Ready("anzipper")

InstallInv ==
  TypeOK /\ ManifestIsTrue /\ TimesInv /\ WriteInv /\ ToolInv /\ InstalledIsCurrent

-----------------------------------------------------------------------------
\* Before any job the variables have their types: no clock has ticked, no mark is left.
LEMMA TypeInit == ASSUME InstallAssumption, Init PROVE TypeOK
BY DEF InstallAssumption, Init, TypeOK, Empty, Tools, Modes, Steps

\* An edit of the source and every step of an install or repair keep the types.
LEMMA TypeNext == ASSUME InstallAssumption, TypeOK, [Next]_vars PROVE TypeOK'
<1> USE DEF InstallAssumption, TypeOK, Tools, Modes, Steps, Step, Raise, Empty
<1>1. ASSUME NEW f \in Files, Edit(f) PROVE TypeOK'
  BY <1>1 DEF Edit
<1>2. CASE BeginInstall
  BY <1>2 DEF BeginInstall
<1>3. CASE Scan
  BY <1>3 DEF Scan
<1>4. CASE Zip
  BY <1>4 DEF Zip, Packaged
<1>5. CASE Upload
  BY <1>5 DEF Upload
<1>6. ASSUME NEW t \in Tools, EnsureTool(t) PROVE TypeOK'
  BY <1>6 DEF EnsureTool, AfterTool, Swap, Source
<1>7. CASE Wipe
  BY <1>7 DEF Wipe, AfterWipe, Packaged
<1>8. CASE Extract
  BY <1>8 DEF Extract, Written, Packaged
<1>9. CASE Put
  BY <1>9 DEF Put
<1>10. CASE Record
  BY <1>10 DEF Record
<1>11. CASE End
  BY <1>11 DEF End
<1>12. CASE BeginRepair
  BY <1>12 DEF BeginRepair
<1>13. CASE ZipCleng
  BY <1>13 DEF ZipCleng
<1>14. CASE ExtractCleng
  BY <1>14 DEF ExtractCleng, Written
<1>15. CASE UNCHANGED vars
  BY <1>15 DEF vars
<1> QED
  BY <1>1, <1>2, <1>3, <1>4, <1>5, <1>6, <1>7, <1>8, <1>9, <1>10, <1>11, <1>12, <1>13,
     <1>14, <1>15 DEF Next

\* Whatever is edited while a job runs, what its scan and the manifest know of a file is
\* not newer than the file, and the zip file it makes is not older than the scan.
LEMMA TimesNext ==
  ASSUME InstallAssumption, TypeOK, TimesInv, [Next]_vars
  PROVE  TimesInv'
<1> USE DEF InstallAssumption, TypeOK, Step, Raise, TimesInv
<1>1. ASSUME NEW f \in Files, Edit(f) PROVE TimesInv'
  BY <1>1 DEF Edit
<1>2. CASE BeginInstall
  BY <1>2 DEF BeginInstall
<1>3. CASE Scan
  BY <1>3 DEF Scan
<1>4. CASE Zip
  BY <1>4 DEF Zip, Packaged
<1>5. CASE Upload
  BY <1>5 DEF Upload
<1>6. ASSUME NEW t \in Tools, EnsureTool(t) PROVE TimesInv'
  BY <1>6 DEF EnsureTool, AfterTool, Swap, Tools
<1>7. CASE Wipe
  BY <1>7 DEF Wipe, AfterWipe, Empty
<1>8. CASE Extract
  BY <1>8 DEF Extract, Written
<1>9. CASE Put
  BY <1>9 DEF Put
<1>10. CASE Record
  BY <1>10 DEF Record, Empty
<1>11. CASE End
  BY <1>11 DEF End, Empty
<1>12. CASE BeginRepair
  BY <1>12 DEF BeginRepair
<1>13. CASE ZipCleng
  BY <1>13 DEF ZipCleng
<1>14. CASE ExtractCleng
  BY <1>14 DEF ExtractCleng, Written
<1>15. CASE UNCHANGED vars
  BY <1>15 DEF vars
<1> QED
  BY <1>1, <1>2, <1>3, <1>4, <1>5, <1>6, <1>7, <1>8,
     <1>9, <1>10, <1>11, <1>12, <1>13, <1>14, <1>15 DEF Next

\* From the wipe on there is no manifest until everything is written, and each file is
\* still to be uploaded or there, as new as the scan found it.
LEMMA WriteNext ==
  ASSUME InstallAssumption, TypeOK, TimesInv, WriteInv, [Next]_vars
  PROVE  WriteInv'
<1> USE DEF InstallAssumption, TypeOK, Step, Raise, TimesInv, WriteInv
<1>1. ASSUME NEW f \in Files, Edit(f) PROVE WriteInv'
  BY <1>1 DEF Edit
<1>2. CASE BeginInstall
  BY <1>2 DEF BeginInstall
<1>3. CASE Scan
  BY <1>3 DEF Scan
<1>4. CASE Zip
  BY <1>4 DEF Zip
<1>5. CASE Upload
  BY <1>5 DEF Upload
<1>6. ASSUME NEW t \in Tools, EnsureTool(t) PROVE WriteInv'
  BY <1>6 DEF EnsureTool, AfterTool, Swap, Tools
<1>7. CASE Wipe
  BY <1>7 DEF Wipe, AfterWipe, Packaged, Empty
<1>8. CASE Extract
  BY <1>8 DEF Extract, Written
<1>9. CASE Put
  BY <1>9 DEF Put
<1>10. CASE Record
  BY <1>10 DEF Record
<1>11. CASE End
  BY <1>11 DEF End, Empty
<1>12. CASE BeginRepair
  BY <1>12 DEF BeginRepair
<1>13. CASE ZipCleng
  BY <1>13 DEF ZipCleng
<1>14. CASE ExtractCleng
  BY <1>14 DEF ExtractCleng, Written
<1>15. CASE UNCHANGED vars
  BY <1>15 DEF vars
<1> QED
  BY <1>1, <1>2, <1>3, <1>4, <1>5, <1>6, <1>7, <1>8,
     <1>9, <1>10, <1>11, <1>12, <1>13, <1>14, <1>15 DEF Next

\* A step that runs a helper program comes after the one that made it ready; the swap of
\* one helper leaves the other alone.
LEMMA ToolNext ==
  ASSUME InstallAssumption, TypeOK, TimesInv, ToolInv, [Next]_vars
  PROVE  ToolInv'
<1> USE DEF InstallAssumption, TypeOK, Step, Raise, ToolInv, Ready, Source
<1>1. ASSUME NEW f \in Files, Edit(f) PROVE ToolInv'
  BY <1>1 DEF Edit
<1>2. CASE BeginInstall
  BY <1>2 DEF BeginInstall
<1>3. CASE Scan
  BY <1>3 DEF Scan
<1>4. CASE Zip
  BY <1>4 DEF Zip
<1>5. CASE Upload
  BY <1>5 DEF Upload
<1>6. ASSUME NEW t \in Tools, EnsureTool(t) PROVE ToolInv'
  BY <1>6 DEF EnsureTool, AfterTool, Swap, KeepTool, Tools, TimesInv
<1>7. CASE Wipe
  BY <1>7 DEF Wipe, AfterWipe
<1>8. CASE Extract
  BY <1>8 DEF Extract
<1>9. CASE Put
  BY <1>9 DEF Put
<1>10. CASE Record
  BY <1>10 DEF Record
<1>11. CASE End
  BY <1>11 DEF End
<1>12. CASE BeginRepair
  BY <1>12 DEF BeginRepair
<1>13. CASE ZipCleng
  BY <1>13 DEF ZipCleng
<1>14. CASE ExtractCleng
  BY <1>14 DEF ExtractCleng
<1>15. CASE UNCHANGED vars
  BY <1>15 DEF vars
<1> QED
  BY <1>1, <1>2, <1>3, <1>4, <1>5, <1>6, <1>7, <1>8,
     <1>9, <1>10, <1>11, <1>12, <1>13, <1>14, <1>15 DEF Next

\* The manifest stays true: it goes before the files it lists and comes after them, and a
\* repair only replaces a file by one that is not older.
LEMMA ManifestNext ==
  ASSUME InstallAssumption, TypeOK, ManifestIsTrue, TimesInv, WriteInv, [Next]_vars
  PROVE  ManifestIsTrue'
<1> USE DEF InstallAssumption, TypeOK, Step, Raise, ManifestIsTrue, TimesInv, WriteInv
<1>1. ASSUME NEW f \in Files, Edit(f) PROVE ManifestIsTrue'
  BY <1>1 DEF Edit
<1>2. CASE BeginInstall
  BY <1>2 DEF BeginInstall
<1>3. CASE Scan
  BY <1>3 DEF Scan
<1>4. CASE Zip
  BY <1>4 DEF Zip
<1>5. CASE Upload
  BY <1>5 DEF Upload
<1>6. ASSUME NEW t \in Tools, EnsureTool(t) PROVE ManifestIsTrue'
  BY <1>6 DEF EnsureTool, AfterTool, Swap
<1>7. CASE Wipe
  BY <1>7 DEF Wipe, Empty
<1>8. CASE Extract
  BY <1>8 DEF Extract, Written, Packaged, Empty
<1>9. CASE Put
  BY <1>9 DEF Put, Empty
<1>10. CASE Record
  BY <1>10 DEF Record, Empty, Packaged
<1>11. CASE End
  BY <1>11 DEF End
<1>12. CASE BeginRepair
  BY <1>12 DEF BeginRepair
<1>13. CASE ZipCleng
  BY <1>13 DEF ZipCleng
<1>14. CASE ExtractCleng
  BY <1>14 DEF ExtractCleng, Written
<1>15. CASE UNCHANGED vars
  BY <1>15 DEF vars
<1> QED
  BY <1>1, <1>2, <1>3, <1>4, <1>5, <1>6, <1>7, <1>8,
     <1>9, <1>10, <1>11, <1>12, <1>13, <1>14, <1>15 DEF Next

\* From the parts above, a step that ends a job as installed leaves the scanned files.
LEMMA CurrentNext ==
  ASSUME InstallAssumption, TypeOK, ManifestIsTrue, TimesInv, WriteInv,
         InstalledIsCurrent, [Next]_vars
  PROVE  InstalledIsCurrent'
<1> USE DEF InstallAssumption, TypeOK, Step, Raise, InstalledIsCurrent, Packaged, ManifestIsTrue
<1>1. ASSUME NEW f \in Files, Edit(f) PROVE InstalledIsCurrent'
  BY <1>1 DEF Edit
<1>2. CASE BeginInstall
  BY <1>2 DEF BeginInstall
<1>3. CASE Scan
  BY <1>3 DEF Scan, ShouldUpload
<1>4. CASE Zip
  BY <1>4 DEF Zip
<1>5. CASE Upload
  BY <1>5 DEF Upload
<1>6. ASSUME NEW t \in Tools, EnsureTool(t) PROVE InstalledIsCurrent'
  BY <1>6 DEF EnsureTool, AfterTool, Swap, Tools
<1>7. CASE Wipe
  BY <1>7 DEF Wipe, AfterWipe
<1>8. CASE Extract
  BY <1>8 DEF Extract, Written, TimesInv
<1>9. CASE Put
  BY <1>9 DEF Put
<1>10. CASE Record
  BY <1>10 DEF Record, WriteInv
<1>11. CASE End
  BY <1>11 DEF End
<1>12. CASE BeginRepair
  BY <1>12 DEF BeginRepair
<1>13. CASE ZipCleng
  BY <1>13 DEF ZipCleng
<1>14. CASE ExtractCleng
  BY <1>14 DEF ExtractCleng, Written
<1>15. CASE UNCHANGED vars
  BY <1>15 DEF vars
<1> QED
  BY <1>1, <1>2, <1>3, <1>4, <1>5, <1>6, <1>7, <1>8,
     <1>9, <1>10, <1>11, <1>12, <1>13, <1>14, <1>15 DEF Next

-----------------------------------------------------------------------------
\* The parts of the invariant hold on the console as it is before the first job.
LEMMA PartsInit ==
  ASSUME InstallAssumption, Init
  PROVE  ManifestIsTrue /\ TimesInv /\ WriteInv /\ ToolInv /\ InstalledIsCurrent
BY DEF InstallAssumption, Init, Empty, ManifestIsTrue, TimesInv, WriteInv, ToolInv,
       InstalledIsCurrent, Tools, Ready

\* The inductive invariant holds whatever fails and whenever files change.
THEOREM InstallInvariant == Spec => []InstallInv
<1>1. Init => InstallInv
  BY InstallAssumption, TypeInit, PartsInit DEF InstallInv
<1>2. InstallInv /\ [Next]_vars => InstallInv'
  BY InstallAssumption, TypeNext, TimesNext, WriteNext, ToolNext, ManifestNext, CurrentNext
     DEF InstallInv
<1> QED
  BY <1>1, <1>2, PTL DEF Spec

\* Type correctness, for every package: a repair never gets to the wipe.
THEOREM InstallTypeCorrect == Spec => []TypeOK
<1>1. InstallInv => TypeOK
  BY DEF InstallInv
<1> QED
  BY <1>1, InstallInvariant, PTL

\* The manifest on the console is true, so that a skipped file is one the console has
\* (_upload_tree, _extract_remote_bundle, _upload_files_individually).
THEOREM ManifestStaysTrue == Spec => []ManifestIsTrue
<1>1. InstallInv => ManifestIsTrue
  BY DEF InstallInv
<1> QED
  BY <1>1, InstallInvariant, PTL

\* A successful install leaves the package of its scan on the console.
THEOREM InstallsAreCurrent == Spec => []InstalledIsCurrent
<1>1. InstallInv => InstalledIsCurrent
  BY DEF InstallInv
<1> QED
  BY <1>1, InstallInvariant, PTL

\* A helper that is run is there, not cut short and no older than the package that was
\* scanned, whatever swaps were interrupted before (_ensure_remote_bootstrap_tool).
THEOREM HelpersAreCurrent == Spec => []ToolsAreCurrent
<1>1. InstallInv => ToolsAreCurrent
  BY DEF InstallInv, ToolInv, Ready, ToolsAreCurrent, Tools, TypeOK, Modes
<1> QED
  BY <1>1, InstallInvariant, PTL
=============================================================================
