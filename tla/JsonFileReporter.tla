-------------------------- MODULE JsonFileReporter --------------------------
(***************************************************************************)
(* The reporter (src/reporter.cpp): each report goes to a file whose name  *)
(* is made of the kind of report and of the time in milliseconds.  Of a    *)
(* report only what the properties of its sender tell apart is kept; the   *)
(* content of a file is the set of reports written to it since it was      *)
(* truncated: none yet, one, or several over each other.                   *)
(***************************************************************************)
VARIABLES
    writable,   \* output_dir_ can be written to
    files       \* the files in it: their contents by name

reporter == <<writable, files>>

InitReporter ==
    /\ writable \in BOOLEAN
    /\ files = [name \in {} |-> {}]

\* The file name: output_dir_ is the same for all reports.
FileName(prefix, ms) == <<prefix, ms>>

Prefix == [leaks |-> "domovoy_leaks", high_cpu |-> "domovoy_cpu",
           io_leak |-> "domovoy_io_leak", crash |-> "domovoy_crash"]

\* WriteToFile: std::ofstream creates the file, or truncates one that has the name
\* already; when it cannot be opened the report is lost without a trace.
OpenFile(prefix, ms) ==
    files' = IF writable
             THEN [name \in DOMAIN files \cup {FileName(prefix, ms)} |->
                     IF name = FileName(prefix, ms) THEN {} ELSE files[name]]
             ELSE files

\* The text reaches the file later, at the latest when the stream ends.
WriteFile(prefix, ms, data) ==
    files' = IF writable
             THEN [files EXCEPT ![FileName(prefix, ms)] = @ \cup {data}]
             ELSE files

\* The two halves of ReportLeaks, ReportHighCpu, ReportIoLeak and ReportCrash.
OpenReport(kind, ms) == OpenFile(Prefix[kind], ms) /\ UNCHANGED writable
WriteReport(kind, ms, data) == WriteFile(Prefix[kind], ms, data) /\ UNCHANGED writable

\* What the file of that kind and time holds.
OnDisk(kind, ms) ==
    UNION {files[name] : name \in DOMAIN files \cap {FileName(Prefix[kind], ms)}}
=============================================================================
