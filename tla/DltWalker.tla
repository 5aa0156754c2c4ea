------------------------------ MODULE DltWalker ------------------------------
(***************************************************************************)
(* class Walker of src/public/doc/DltParser.py (493-570) and the script    *)
(* lines that drive it (576-584): read config.txt, build the Parser, open  *)
(* the output files, search every PATH_IN for .cpp and .hpp files, scan   *)
(* each of them, close the output files.                                   *)
(*                                                                         *)
(* A configuration line is a record of what load_config's regular          *)
(* expressions find in it, together with what the format documented at    *)
(* the top of the file (lines 13-27) says the line means (field doc).      *)
(* The scan of one source file is one step here; DltScanner models it.     *)
(***************************************************************************)
EXTENDS Integers, Sequences, SequencesExt, Functions

CONSTANTS
  Configs,        \* the contents config.txt may have (sequences of lines)
  Dirs,           \* the directories below the input root, root included
  ParentOf,       \* ParentOf[d]: the directory containing d (NoName at root)
  PathDir,        \* PathDir[rel]: the directory input_root + "/" + rel names
  Files,          \* source tree entries [dir |-> d, ext |-> e]
  NoName          \* "" / no match

\* Walker._extensions (503).
Extensions == <<".cpp", ".hpp">>
\* FILE_<KEY> names and the severity key they set in _out_files (546-553).
FileKeys == [ERROR |-> "Error", WARNING |-> "Warning", INFO |-> "Info",
             VERBOSE |-> "Verbose"]
THIS == "($THIS)"

\* input_root + "/" + rel (540) and input_root + "" for ($THIS) (538).
InputPath(rel) == [base |-> "input_root", rel |-> IF rel = THIS THEN NoName ELSE rel]
\* os.path.dirname(os.path.realpath(__file__)) + "/" + name (547-553).
ScriptPath(name) == [base |-> "script_dir", rel |-> name]

VARIABLES
  pc,           \* where the script is
  config,       \* the lines of config.txt
  found,        \* open(config_file) succeeded (507-511)
  line_idx,     \* the next line load_config reads
  debug,        \* Walker._debug
  path_in,      \* Walker._path_in
  out_files,    \* Walker._out_files
  parser,       \* Walker._parser: the class Parser or an instance
  dlt_config,   \* the severities the instance's call pattern matches
  path_idx,     \* the PATH_IN entry search_paths is at (558)
  ext_idx,      \* the extension search_recursively is at (564)
  pending,      \* files os.walk still has to yield for this path and ext
  scanned       \* the files handed to open_input_file, in order

vars == <<pc, config, found, line_idx, debug, path_in, out_files, parser,
          dlt_config, path_idx, ext_idx, pending, scanned>>

\* d lies in the tree os.walk(p) visits (565).
RECURSIVE Below(_, _)
Below(d, top) == d = top \/ (ParentOf[d] # NoName /\ Below(ParentOf[d], top))

\* The files fnmatch.filter(file_names, '*' + ext) keeps in os.walk(path);
\* a path that does not exist makes os.walk call printerr and yield nothing.
FilesUnder(path, ext) ==
  LET top == PathDir[path.rel]
  IN  {f \in Files : f.ext = ext /\ top # NoName /\ Below(f.dir, top)}

-----------------------------------------------------------------------------
Init ==
  /\ pc = "init"
  /\ config \in Configs
  /\ found = FALSE
  /\ line_idx = 1
  /\ debug = 1
  /\ path_in = <<>>
  /\ out_files = <<>>
  /\ parser = "class"
  /\ dlt_config = {}
  /\ path_idx = 1
  /\ ext_idx = 1
  /\ pending = {}
  /\ scanned = <<>>

\* Walker.__init__ (505-511): without a configuration file the constructor
\* returns early and _parser stays the class Parser.
open_config ==
  /\ pc = "init"
  /\ \E ok \in BOOLEAN :
       /\ found' = ok
       /\ pc' = IF ok THEN "load" ELSE "search"
  /\ UNCHANGED <<config, line_idx, debug, path_in, out_files, parser,
                 dlt_config, path_idx, ext_idx, pending, scanned>>

\* One iteration of load_config's loop (525-553).  The tests are substring
\* searches made in this order: "#", "DEBUG", "PATH_IN", "FILE_".  A
\* PATH_IN line the split does not match has no values[1]: IndexError.
\* Mutation: the dict is keyed by the FILE_ suffix instead of the severity.
LoadLine_raw_key(l) ==
  \/ /\ l.hash
     /\ line_idx' = line_idx + 1
     /\ UNCHANGED <<pc, debug, path_in, out_files>>
  \/ /\ ~l.hash /\ l.debug
     /\ debug' = IF l.digit # NoName THEN l.digit ELSE debug
     /\ line_idx' = line_idx + 1
     /\ UNCHANGED <<pc, path_in, out_files>>
  \/ /\ ~l.hash /\ ~l.debug /\ l.pathIn
     /\ IF l.pathArg # NoName
          THEN /\ path_in' = Append(path_in, InputPath(l.pathArg))
               /\ line_idx' = line_idx + 1
               /\ UNCHANGED pc
          ELSE /\ pc' = "crashed"
               /\ UNCHANGED <<line_idx, path_in>>
     /\ UNCHANGED <<debug, out_files>>
  \/ /\ ~l.hash /\ ~l.debug /\ ~l.pathIn /\ l.file
     /\ out_files' = IF l.fileKey \in DOMAIN FileKeys
                       THEN (l.fileKey :> ScriptPath(l.fileArg)) @@ out_files
                       ELSE out_files
     /\ line_idx' = line_idx + 1
     /\ UNCHANGED <<pc, debug, path_in>>
  \/ /\ ~l.hash /\ ~l.debug /\ ~l.pathIn /\ ~l.file
     /\ line_idx' = line_idx + 1
     /\ UNCHANGED <<pc, debug, path_in, out_files>>

\* Mutation: a FILE_ key set twice keeps its first path.
LoadLine_keeps_first(l) ==
  \/ /\ l.hash
     /\ line_idx' = line_idx + 1
     /\ UNCHANGED <<pc, debug, path_in, out_files>>
  \/ /\ ~l.hash /\ l.debug
     /\ debug' = IF l.digit # NoName THEN l.digit ELSE debug
     /\ line_idx' = line_idx + 1
     /\ UNCHANGED <<pc, path_in, out_files>>
  \/ /\ ~l.hash /\ ~l.debug /\ l.pathIn
     /\ IF l.pathArg # NoName
          THEN /\ path_in' = Append(path_in, InputPath(l.pathArg))
               /\ line_idx' = line_idx + 1
               /\ UNCHANGED pc
          ELSE /\ pc' = "crashed"
               /\ UNCHANGED <<line_idx, path_in>>
     /\ UNCHANGED <<debug, out_files>>
  \/ /\ ~l.hash /\ ~l.debug /\ ~l.pathIn /\ l.file
     /\ out_files' = IF l.fileKey \in DOMAIN FileKeys
                       THEN out_files @@ (FileKeys[l.fileKey] :> ScriptPath(l.fileArg))
                       ELSE out_files
     /\ line_idx' = line_idx + 1
     /\ UNCHANGED <<pc, debug, path_in>>
  \/ /\ ~l.hash /\ ~l.debug /\ ~l.pathIn /\ ~l.file
     /\ line_idx' = line_idx + 1
     /\ UNCHANGED <<pc, debug, path_in, out_files>>

LoadLine(l) ==
  \/ /\ l.hash
     /\ line_idx' = line_idx + 1
     /\ UNCHANGED <<pc, debug, path_in, out_files>>
  \/ /\ ~l.hash /\ l.debug
     /\ debug' = IF l.digit # NoName THEN l.digit ELSE debug
     /\ line_idx' = line_idx + 1
     /\ UNCHANGED <<pc, path_in, out_files>>
  \/ /\ ~l.hash /\ ~l.debug /\ l.pathIn
     /\ IF l.pathArg # NoName
          THEN /\ path_in' = Append(path_in, InputPath(l.pathArg))
               /\ line_idx' = line_idx + 1
               /\ UNCHANGED pc
          ELSE /\ pc' = "crashed"
               /\ UNCHANGED <<line_idx, path_in>>
     /\ UNCHANGED <<debug, out_files>>
  \/ /\ ~l.hash /\ ~l.debug /\ ~l.pathIn /\ l.file
     \* a key set again keeps its place in the dict and takes the new path
     /\ out_files' = IF l.fileKey \in DOMAIN FileKeys
                       THEN (FileKeys[l.fileKey] :> ScriptPath(l.fileArg))
                              @@ out_files
                       ELSE out_files
     /\ line_idx' = line_idx + 1
     /\ UNCHANGED <<pc, debug, path_in>>
  \/ /\ ~l.hash /\ ~l.debug /\ ~l.pathIn /\ ~l.file
     /\ line_idx' = line_idx + 1
     /\ UNCHANGED <<pc, debug, path_in, out_files>>

load_line ==
  /\ pc = "load"
  /\ line_idx <= Len(config)
  /\ LoadLine(config[line_idx])
  /\ UNCHANGED <<config, found, parser, dlt_config, path_idx, ext_idx,
                 pending, scanned>>

\* End of load_config, then Parser(self._out_files, self._debug) (514-515):
\* Parser.__init__ (64-88) enables each severity whose entry is truthy: a
\* path built by line 547-553 never is "".
construct_parser ==
  /\ pc = "load"
  /\ line_idx > Len(config)
  /\ parser' = "instance"
  /\ dlt_config' = DOMAIN out_files
  /\ pc' = "search"
  /\ UNCHANGED <<config, found, line_idx, debug, path_in, out_files,
                 path_idx, ext_idx, pending, scanned>>

\* Walker.search_paths (556-557) calls open_output_files on _parser.  On the
\* class Parser the call lacks its "files" argument: TypeError.  The opened
\* outputs themselves are modelled in DltScanner.
search_paths ==
  /\ pc = "search"
  /\ pc' = IF parser = "class" THEN "crashed" ELSE "nextPath"
  /\ UNCHANGED <<config, found, line_idx, debug, path_in, out_files, parser,
                 dlt_config, path_idx, ext_idx, pending, scanned>>

\* search_recursively(path) (562-566): os.walk for one extension.
start_walk ==
  /\ pc = "nextPath"
  /\ path_idx <= Len(path_in)
  /\ pending' = FilesUnder(path_in[path_idx], Extensions[ext_idx])
  /\ pc' = "walk"
  /\ UNCHANGED <<config, found, line_idx, debug, path_in, out_files, parser,
                 dlt_config, path_idx, ext_idx, scanned>>

\* Lines 567-570 for one file os.walk yields, in the directory listing's
\* order: open_input_file, scan_file, close_input_file.
scan_source ==
  /\ pc = "walk"
  /\ \E f \in pending :
       /\ scanned' = Append(scanned, f)
       /\ pending' = pending \ {f}
  /\ UNCHANGED <<pc, config, found, line_idx, debug, path_in, out_files,
                 parser, dlt_config, path_idx, ext_idx>>

\* The walk is over: next extension, or next PATH_IN (558-559, 564).
\* Mutation: search_recursively walks only the first extension.
end_walk_one_ext ==
  /\ pc = "walk"
  /\ pending = {}
  /\ ext_idx' = 1
  /\ path_idx' = path_idx + 1
  /\ pc' = "nextPath"
  /\ UNCHANGED <<config, found, line_idx, debug, path_in, out_files, parser,
                 dlt_config, pending, scanned>>

end_walk ==
  /\ pc = "walk"
  /\ pending = {}
  /\ IF ext_idx < Len(Extensions)
       THEN /\ ext_idx' = ext_idx + 1
            /\ UNCHANGED path_idx
       ELSE /\ ext_idx' = 1
            /\ path_idx' = path_idx + 1
  /\ pc' = "nextPath"
  /\ UNCHANGED <<config, found, line_idx, debug, path_in, out_files, parser,
                 dlt_config, pending, scanned>>

\* search_paths (560): every path searched, close_output_files.
close_outputs ==
  /\ pc = "nextPath"
  /\ path_idx > Len(path_in)
  /\ pc' = "done"
  /\ UNCHANGED <<config, found, line_idx, debug, path_in, out_files, parser,
                 dlt_config, path_idx, ext_idx, pending, scanned>>

Halted == pc \in {"done", "crashed"} /\ UNCHANGED vars

Next ==
  \/ open_config
  \/ load_line
  \/ construct_parser
  \/ search_paths
  \/ start_walk
  \/ scan_source
  \/ end_walk
  \/ close_outputs
  \/ Halted

\* One sequential thread: a step is taken whenever one is enabled.
Spec == Init /\ [][Next]_vars /\ WF_vars(Next)

-----------------------------------------------------------------------------
(* The configuration format documented in lines 13-27: "#" starts a       *)
(* comment line, PATH_IN = <path> adds an input path ("($THIS)": the input *)
(* root itself), FILE_<SEVERITY> = <file> names an output file, which     *)
(* "can also be given with path" (line 22).                               *)

DocLines(c, key) == SelectSeq(c, LAMBDA l : l.doc.key = key)

DocPaths(c) ==
  [i \in DOMAIN DocLines(c, "PATH_IN") |->
     InputPath(DocLines(c, "PATH_IN")[i].doc.value)]

\* The last FILE_ line of each severity; an absolute path is taken as given.
DocOutFiles(c) ==
  LET F == DocLines(c, "FILE")
      last(sev) == F[CHOOSE i \in DOMAIN F :
                       F[i].doc.sev = sev /\ \A j \in DOMAIN F :
                         F[j].doc.sev = sev => j <= i]
  IN  [sev \in {F[i].doc.sev : i \in DOMAIN F} |->
         IF last(sev).doc.abs THEN [base |-> "/", rel |-> last(sev).doc.value]
                             ELSE ScriptPath(last(sev).doc.value)]

-----------------------------------------------------------------------------
TypeOK ==
  /\ pc \in {"init", "load", "search", "nextPath", "walk", "done", "crashed"}
  /\ found \in BOOLEAN
  /\ line_idx \in 1..Len(config) + 1
  /\ parser \in {"class", "instance"}
  /\ dlt_config \subseteq Range(FileKeys)
  /\ DOMAIN out_files \subseteq Range(FileKeys)
  /\ pending \subseteq Files
  /\ scanned \in Seq(Files)

\* A config.txt that exists is read to its end, and the input paths and
\* output files are those the format documented in lines 13-27 gives it
\* (spec 7: nothing but a missing configuration is fatal).  load_config's
\* substring tests and split patterns decide what each line means.
ConfigAsDocumented ==
  (found /\ pc \notin {"init", "load"})
    => /\ pc # "crashed"
       /\ path_in = DocPaths(config)
       /\ out_files = DocOutFiles(config)

-----------------------------------------------------------------------------
(* Refinement: the Walker implements the traversal contract of spec 6.    *)
(* The sources are the .cpp and .hpp files below the input paths           *)
(* load_config produced; the run is started once search_paths has a       *)
(* Parser instance to call.                                                *)

ConfiguredSources ==
  UNION {FilesUnder(path_in[i], Extensions[e]) :
           i \in DOMAIN path_in, e \in DOMAIN Extensions}

status_bar ==
  CASE pc = "crashed"               -> "failed"
    [] pc = "done"                  -> "finished"
    [] pc \in {"nextPath", "walk"}  -> "running"
    [] OTHER                        -> "start"

sources_bar == IF status_bar \in {"running", "finished"} THEN ConfiguredSources
                                                         ELSE {}

AW == INSTANCE AbstractWalker
        WITH status <- status_bar, sources <- sources_bar, scanned <- scanned

\* Every configured source file is scanned exactly once, one after the
\* other, and the walk ends (search_paths with search_recursively's two
\* os.walk passes per input path).
ImplementsTraversal == AW!Spec
=============================================================================
