---------------------------- MODULE InputFiles ----------------------------
(***************************************************************************)
(* What the program reads before it starts: the command line, the INI      *)
(* documents (src/src/application/application_config_loader.cpp and, with  *)
(* its own strict reader of the same shape, map_loader.cpp) and the map's  *)
(* two CSV tables.                                                         *)
(*                                                                         *)
(* A line is [form, section, key, value]: form "blank", "bad_header",      *)
(* "header", "bad_pair" or "pair".  A header names <<section, instance>>,  *)
(* instance "" for a plain section; a pair has a key.  Characters, line    *)
(* numbers and the wording of errors are left out.                         *)
(*                                                                         *)
(* A schema is [fields, families, lists, limit]: fields the sequence of    *)
(* [section, key, type] every document has, families the sequence of those *)
(* an instance section has, lists the keys whose value may be empty, limit *)
(* the instance sections a document may have.                              *)
(***************************************************************************)
EXTENDS Integers, FiniteSets, SequencesExt

CONSTANTS
    Schemas,                \* dialect |-> schema; the dialects are "configuration" and "map"
    LinesOf,                \* dialect |-> the lines a file may hold
    ArgumentVectors,        \* command lines, without the program's name
    FileStates,             \* what the file system may answer
    MaximumFileBytes,       \* kMaximumConfigurationFileBytes and its like
    Tables,                 \* the CSV tables a map may hold, sequences of rows
    MaximumLines            \* bounds the run

\* The tables of the readers name every section and every key.
NamesGiven(fields) == fields \in Seq([section : STRING \ {""}, key : STRING \ {""}, type : STRING])
LinesGiven ==
    [form : {"blank", "bad_header", "header", "bad_pair", "pair"}, section : STRING \X STRING, key : STRING,
     value : STRING]
RowsGiven == {"header", "row", "blank", "return", "long", "ragged", "unreadable"}
ASSUME InputAssumption ==
    /\ \A d \in {"configuration", "map"} :
          /\ NamesGiven(Schemas[d].fields) /\ NamesGiven(Schemas[d].families) /\ Schemas[d].limit \in Nat
          /\ LinesOf[d] \subseteq LinesGiven
    /\ Tables \subseteq Seq(RowsGiven)

VARIABLES
    dialect,    \* which reader runs
    reader,     \* "arguments", "file", "lines", "tables", "accepted" or an error code
    doc,        \* the document so far
    text        \* the lines read so far

inputVars == <<dialect, reader, doc, text>>

Line(form, section, key, value) == [form |-> form, section |-> section, key |-> key, value |-> value]
NoSection == <<"", "">>
EmptyDocument == [cursor |-> NoSection, seen |-> {}, instances |-> <<>>, values |-> <<>>, error |-> ""]

---------------------------------------------------------------------------
(* Values.  A value is the text itself, from a small alphabet of texts.    *)

WholeTexts == {"0", "7"}
TooLargeTexts == {"1e999"}          \* out of range for binary64, and not an integer
SignedTexts == {"-1", "2.5"}
InfiniteTexts == {"inf"}            \* std::from_chars reads it as a number

parse_unsigned_value(v) == IF v \in WholeTexts THEN "" ELSE "value_invalid"
parse_double_value(v) ==
    IF v \in TooLargeTexts THEN "value_out_of_range"
    ELSE IF v \in WholeTexts \cup SignedTexts \cup InfiniteTexts THEN "" ELSE "value_invalid"
parse_boolean_value(v) == IF v \in {"true", "false"} THEN "" ELSE "value_invalid"

\* The map's reader also wants a finite number, and has one error code.
parse_map_double(v) == IF v \in WholeTexts \cup SignedTexts THEN "" ELSE "map_value_invalid"
load_ground(v) == IF v \in {"solid", "corridors"} THEN "" ELSE "map_value_invalid"

\* What reading a value as its field's type reports.
read_value(type, v) ==
    CASE type = "unsigned"   -> parse_unsigned_value(v)
      [] type = "double"     -> parse_double_value(v)
      [] type = "boolean"    -> parse_boolean_value(v)
      [] type = "map_double" -> parse_map_double(v)
      [] type = "ground"     -> load_ground(v)
      [] type = "directory"  -> IF v = "arena" THEN "" ELSE "map_name_mismatch"
      [] OTHER               -> ""

---------------------------------------------------------------------------
(* The schema's tables.                                                    *)

schema == Schemas[dialect]
PlainSections == {f.section : f \in Range(schema.fields)}
Families == {f.section : f \in Range(schema.families)}

find_section_index(name) == name[2] = "" /\ name[1] \in PlainSections
find_section_family(name) == name[2] # "" /\ name[1] \in Families
Table(cursor) == IF cursor[2] = "" THEN schema.fields ELSE schema.families
find_config_field(cursor, key) == \E f \in Range(Table(cursor)) : f.section = cursor[1] /\ f.key = key

\* The configuration's reader tells its errors apart, the map's does not.
error_code(code) == IF dialect = "map" THEN "map_value_invalid" ELSE code
Failed(d, code) == [d EXCEPT !.error = error_code(code)]

---------------------------------------------------------------------------
(* The document.                                                           *)

\* Mutant of open_section: an instance section is opened as often as it is named.
OpensAgain(d, name) ==
    IF find_section_index(name)
    THEN IF name \in d.seen THEN Failed(d, "section_duplicate")
         ELSE [d EXCEPT !.seen = @ \cup {name}, !.cursor = name]
    ELSE IF ~ find_section_family(name) THEN Failed(d, "section_unknown")
    ELSE IF Len(d.instances) >= schema.limit THEN Failed(d, "section_limit_exceeded")
    ELSE [d EXCEPT !.instances = Append(@, name), !.cursor = name]

open_section(d, name) ==
    IF find_section_index(name)
    THEN IF name \in d.seen THEN Failed(d, "section_duplicate")
         ELSE [d EXCEPT !.seen = @ \cup {name}, !.cursor = name]
    ELSE IF ~ find_section_family(name) THEN Failed(d, "section_unknown")
    ELSE IF name \in Range(d.instances) THEN Failed(d, "section_duplicate")
    ELSE IF Len(d.instances) >= schema.limit THEN Failed(d, "section_limit_exceeded")
    ELSE [d EXCEPT !.instances = Append(@, name), !.cursor = name]

store_config_value(d, key, value) ==
    LET field == <<d.cursor, key>> IN
    IF field \in DOMAIN d.values THEN Failed(d, "key_duplicate")
    ELSE IF value = "" /\ key \notin schema.lists THEN Failed(d, "value_invalid")
    ELSE [d EXCEPT !.values = [f \in DOMAIN @ \cup {field} |-> IF f = field THEN value ELSE @[f]]]

parse_line(d, l) ==
    CASE l.form = "blank"      -> d
      [] l.form = "bad_header" -> Failed(d, "syntax_invalid")
      [] l.form = "header"     -> open_section(d, l.section)
      [] l.form \in {"bad_pair", "pair"} /\ d.cursor = NoSection -> Failed(d, "syntax_invalid")
      [] l.form = "bad_pair" /\ d.cursor # NoSection -> Failed(d, "syntax_invalid")
      [] l.form = "pair" /\ d.cursor # NoSection ->
           IF l.key = "" THEN Failed(d, "value_invalid")
           ELSE IF ~ find_config_field(d.cursor, l.key) THEN Failed(d, "key_unknown")
           ELSE store_config_value(d, l.key, l.value)

\* Every field of every plain section, opened or not, and of every instance.
FamilyFields(name) == {f \in Range(schema.families) : f.section = name[1]}
RequiredFields(d) ==
    {<<<<f.section, "">>, f.key>> : f \in Range(schema.fields)}
    \cup UNION {{<<i, f.key>> : f \in FamilyFields(i)} : i \in Range(d.instances)}
require_all_fields(d) == RequiredFields(d) \subseteq DOMAIN d.values

\* The values are read in the order of the schema, then instance by instance;
\* the first that does not read is the error.
FieldsInOrder(d) ==
    [k \in DOMAIN schema.fields |-> <<<<schema.fields[k].section, "">>, schema.fields[k]>>]
    \o FlattenSeq([k \in DOMAIN d.instances |-> FlattenSeq([m \in DOMAIN schema.families |->
          LET i == d.instances[k]
              f == schema.families[m]
          IN  IF f.section = i[1] THEN <<<<i, f>>>> ELSE <<>>])])
load_values(d) ==
    LET verdicts == [k \in DOMAIN FieldsInOrder(d) |->
                       LET f == FieldsInOrder(d)[k] IN read_value(f[2].type, d.values[<<f[1], f[2].key>>])]
        bad == SelectInSeq(verdicts, LAMBDA v : v # "")
    IN  IF bad = 0 THEN "" ELSE verdicts[bad]

---------------------------------------------------------------------------
(* Files and tables.                                                       *)

\* ApplicationConfigLoader::load: the two command lines that run the program.
arguments_verdict(a) ==
    IF a = <<"--help">> THEN "help"
    ELSE IF \/ Len(a) \notin {2, 4} \/ a[1] # "--config" \/ a[2] = ""
            \/ Len(a) = 4 /\ (a[3] # "--scenario" \/ a[4] = "")
         THEN "command_line_invalid"
    ELSE "file"

\* read_application_text_file: a file may change between the query for its
\* size and the read, and while it is read.
file_verdict(f) ==
    IF ~ f.exists THEN "file_missing"
    ELSE IF ~ f.regular THEN "not_regular_file"
    ELSE IF f.size > MaximumFileBytes THEN "file_too_large"
    ELSE IF ~ f.opens \/ f.got # f.size THEN "file_read_failed"
    ELSE IF f.more THEN (IF f.size >= MaximumFileBytes THEN "file_too_large" ELSE "file_read_failed")
    ELSE "lines"

\* read_csv: rows are "header", "row", "blank", "return" (a lone carriage
\* return, at the end one without a newline), "long", "ragged" and
\* "unreadable" (the map's kMapValueInvalid, told apart here).
row_verdict(row, last) ==
    CASE row = "return" /\ last -> ""
      [] row = "blank" \/ (row = "return" /\ ~ last) -> "map_row_empty"
      [] row = "long" -> "map_row_too_long"
      [] row = "ragged" -> "map_column_count_invalid"
      [] row \in {"unreadable", "header"} -> "map_row_value_invalid"
      [] row = "row" -> ""
read_csv(rows) ==
    IF rows = <<>> \/ Head(rows) # "header" THEN "map_header_invalid"
    ELSE LET verdicts == [k \in DOMAIN rows |-> IF k = 1 THEN "" ELSE row_verdict(rows[k], k = Len(rows))]
             bad == SelectInSeq(verdicts, LAMBDA v : v # "")
         IN  IF bad = 0 THEN "" ELSE verdicts[bad]

---------------------------------------------------------------------------
(* The steps.                                                              *)

InputInit(dialects) ==
    /\ dialect \in dialects
    /\ reader = IF dialect = "configuration" THEN "arguments" ELSE "file"
    /\ doc = EmptyDocument /\ text = <<>>

ReadArguments ==
    /\ reader = "arguments"
    /\ \E a \in ArgumentVectors : reader' = arguments_verdict(a)
    /\ UNCHANGED <<dialect, doc, text>>

ReadFile ==
    /\ reader = "file"
    /\ \E f \in FileStates : reader' = file_verdict(f)
    /\ UNCHANGED <<dialect, doc, text>>

ParseLine ==
    /\ reader = "lines" /\ Len(text) < MaximumLines
    /\ \E l \in LinesOf[dialect] :
         /\ text' = Append(text, l)
         /\ doc' = parse_line(doc, l)
         /\ reader' = IF doc'.error # "" THEN doc'.error ELSE reader
    /\ UNCHANGED dialect

\* The end of the file: the document is complete, and its values read.
EndOfFile ==
    /\ reader = "lines"
    /\ reader' = IF ~ require_all_fields(doc) THEN error_code("key_missing")
                ELSE IF load_values(doc) # "" THEN load_values(doc)
                ELSE IF dialect = "map" THEN "tables" ELSE "accepted"
    /\ UNCHANGED <<dialect, doc, text>>

\* The map's static bodies, then its markers.
ReadTables ==
    /\ reader = "tables"
    /\ \E bodies \in Tables, markers \in Tables :
         reader' = IF read_csv(bodies) # "" THEN read_csv(bodies)
                  ELSE IF read_csv(markers) # "" THEN read_csv(markers) ELSE "accepted"
    /\ UNCHANGED <<dialect, doc, text>>

InputNext == ReadArguments \/ ReadFile \/ ParseLine \/ EndOfFile \/ ReadTables
InputSpec == InputInit({"configuration", "map"}) /\ [][InputNext]_inputVars

---------------------------------------------------------------------------
(* What a document says, read as a whole.                                  *)

HeadersOf == {k \in DOMAIN text : text[k].form = "header"}
PairsOf == {k \in DOMAIN text : text[k].form = "pair"}
\* The line of the header a pair stands under, 0 if none.
HeaderAbove(k) == CHOOSE h \in HeadersOf \cup {0} : h < k /\ \A g \in HeadersOf : g < k => g <= h
SectionOf(k) == IF HeaderAbove(k) = 0 THEN NoSection ELSE text[HeaderAbove(k)].section
FieldOf(k) == <<SectionOf(k), text[k].key>>

InstanceHeaders == {k \in HeadersOf : text[k].section[2] # ""}
Wanted ==
    {<<<<f.section, "">>, f>> : f \in Range(schema.fields)}
    \cup UNION {{<<text[k].section, f>> : f \in FamilyFields(text[k].section)} : k \in InstanceHeaders}

KnownSections == \A k \in HeadersOf : text[k].section[1] \in IF k \in InstanceHeaders THEN Families ELSE PlainSections
SectionsOnce == \A h, k \in HeadersOf : text[h].section = text[k].section => h = k
KnownKeys == \A k \in PairsOf : HeaderAbove(k) # 0 /\ \E w \in Wanted : FieldOf(k) = <<w[1], w[2].key>>
KeysOnce == \A j, k \in PairsOf : FieldOf(j) = FieldOf(k) => j = k
Complete == \A w \in Wanted : \E k \in PairsOf : FieldOf(k) = <<w[1], w[2].key>>
Readable == \A k \in PairsOf, w \in Wanted :
              FieldOf(k) = <<w[1], w[2].key>> => /\ text[k].value # "" \/ w[2].key \in schema.lists
                                                 /\ read_value(w[2].type, text[k].value) = ""

Extensible ==
    /\ \A k \in DOMAIN text : text[k].form \notin {"bad_header", "bad_pair"}
    /\ KnownSections /\ SectionsOnce /\ Cardinality(InstanceHeaders) <= schema.limit
    /\ KnownKeys /\ KeysOnce /\ Readable

\* A document is accepted exactly when, read as a whole, every section and
\* every key is known and given once, none is missing, and every value reads
\* as its field's type; it then holds the value of each line under the section
\* that line stands in.  A document refused at some line is one no later line
\* can repair (parse_line and open_section move a cursor and fill slots line
\* by line; an instance section reopened, or a key stored under the previous
\* cursor, would go unnoticed).
ParseIsExact ==
    /\ reader \in {"accepted", "tables"} =>
         /\ Extensible /\ Complete
         /\ DOMAIN doc.values = {FieldOf(k) : k \in PairsOf}
         /\ \A k \in PairsOf : doc.values[FieldOf(k)] = text[k].value
    /\ reader \in {"section_duplicate", "section_unknown", "section_limit_exceeded", "key_duplicate", "key_unknown",
                  "syntax_invalid", "value_invalid", "value_out_of_range", "map_name_mismatch"} => ~ Extensible
    /\ reader = "key_missing" => ~ Complete
    /\ reader = "map_value_invalid" => ~ (Extensible /\ Complete)
===========================================================================
