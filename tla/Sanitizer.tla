------------------------------ MODULE Sanitizer ------------------------------
(***************************************************************************)
(* src/diffbot_agent/sanitize.py: camera images are taken out of values of *)
(* any depth, before these are stored.                                     *)
(*                                                                         *)
(* A value is what json.loads gives.  A string is the set of what is found *)
(* in it: words, a data URL of an image, the bare base64 of one, the       *)
(* placeholder, or the braces and keys of JSON; the empty set is the blank *)
(* string.  A list is the set of its items and a dict the set of its       *)
(* fields: their order makes no difference.  Of a dict the "type" is kept  *)
(* apart from its other fields.                                            *)
(*                                                                         *)
(* A function of the code that calls itself on the items and the fields of *)
(* its argument is here a function of the depth: f[n] is for the values of *)
(* depth n at most, and its calls are of f[n - 1].                         *)
(***************************************************************************)
EXTENDS Naturals

CONSTANTS
  Name,       \* the keys of dicts, and their types
  MaxDepth    \* bound: how deep lists and dicts are nested

\* The names that sanitize.py writes are among them.
ASSUME NameAssumption == {"", "text", "input_text", "image_url", "computer_screenshot"} \subseteq Name

ASSUME DepthAssumption == MaxDepth \in Nat \ {0}

Part == {"words", "dataURL", "base64", "placeholder", "syntax"}

Null == [kind |-> "null"]
Number == [kind |-> "number"]
Str(found) == [kind |-> "str", parts |-> found]
List(items) == [kind |-> "list", items |-> items]
Dict(type, fields) == [kind |-> "dict", type |-> type, fields |-> fields]

Field(key, value) == [key |-> key, value |-> value]

Leaf == {Null, Number} \cup [kind: {"str"}, parts: SUBSET Part]

JsonOver(part) ==
  Leaf \cup [kind: {"list"}, items: SUBSET part]
       \cup [kind: {"dict"}, type: Name, fields: SUBSET [key: Name, value: part]]

Json[n \in 0..MaxDepth] == IF n = 0 THEN Leaf ELSE JsonOver(Json[n - 1])

ImagePlaceholder == Str({"placeholder"})

\* Mutant: the type of an image in an MCP result is missing.
ModelImageTypes == {"input_image", "computer_screenshot"}

ImageTypes == {"image", "input_image", "computer_screenshot"}

ImageKeys == {"image_url", "file_data"}
TextTypes == {"input_text", "output_text", "text"}
TextKeys == {"text", "content"}

\* The values that Python's `in (None, "", {}, [])' finds.
Empty == {Null, Str({}), List({}), Dict("", {})}

Contains(contained, v) ==
  \/ v.kind = "str" /\ "dataURL" \in v.parts
  \/ v.kind = "list" /\ \E x \in v.items : contained[x]
  \/ /\ v.kind = "dict"
     /\ \/ v.type \in ImageTypes
        \/ \E f \in v.fields : f.key \in ImageKeys \/ contained[f.value]

contains[n \in 0..MaxDepth] == [v \in Json[n] |-> Contains(contains[n - 1], v)]

contains_image(v) == contains[MaxDepth][v]

\* Mutant: every image item keeps its key.
ReplacedKeepingKey(type) == Dict(type, {Field("image_url", ImagePlaceholder)})

\* What stands for an item of one of the image types.
Replaced(type) ==
  IF type = "computer_screenshot" THEN Dict(type, {Field("image_url", ImagePlaceholder)})
  ELSE Dict("input_text", {Field("text", ImagePlaceholder)})

Sanitized(sanitized, v) ==
  CASE v.kind = "str" /\ "dataURL" \in v.parts ->
         Str((v.parts \ {"dataURL"}) \cup {"placeholder"})
    [] v.kind = "list" -> List({sanitized[x] : x \in v.items})
    [] v.kind = "dict" /\ v.type \in ImageTypes -> Replaced(v.type)
    [] v.kind = "dict" /\ v.type \notin ImageTypes ->
         Dict(v.type, {Field(f.key, IF f.key \in ImageKeys THEN ImagePlaceholder
                                    ELSE sanitized[f.value]) : f \in v.fields})
    [] OTHER -> v

sanitize[n \in 0..MaxDepth] == [v \in Json[n] |-> Sanitized(sanitize[n - 1], v)]

sanitize_images(v) == sanitize[MaxDepth][v]

\* The placeholders go, and with them whatever becomes empty.
Removed(removed, v) ==
  CASE v.kind = "str" -> Str(v.parts \ {"placeholder"})
    [] v.kind = "list" -> List({removed[x] : x \in v.items} \ Empty)
    [] v.kind = "dict" ->
         LET cleaned == {Field(f.key, removed[f.value]) : f \in v.fields}
             kept == {f \in cleaned : f.value \notin Empty}
         IN IF v.type \in TextTypes /\ \A f \in kept : f.key \notin TextKeys
            THEN Dict("", {})
            ELSE Dict(v.type, kept)
    [] OTHER -> v

remove[n \in 0..MaxDepth] == [v \in Json[n] |-> Removed(remove[n - 1], v)]

remove_image_placeholders(v) == remove[MaxDepth][v]

\* Everything that is found in the strings of a value.
Found(found, v) ==
  CASE v.kind = "str" -> v.parts
    [] v.kind = "list" -> UNION {found[x] : x \in v.items}
    [] v.kind = "dict" -> UNION {found[f.value] : f \in v.fields}
    [] OTHER -> {}

parts[n \in 0..MaxDepth] == [v \in Json[n] |-> Found(parts[n - 1], v)]

PartsOf(v) == parts[MaxDepth][v]

\* The JSON text of a value.
JsonText(v) == Str(PartsOf(v) \cup {"syntax"})

json_dump(v) == JsonText(sanitize_images(v))

\* The reference: there is an image in a value when its data is.
ImageData == {"dataURL", "base64"}
HasImageData(v) == PartsOf(v) \cap ImageData # {}

\* What MCP and the SDK of the agent make of results: the bare base64 of an image
\* stands in an item of its own or under a key for it; words do not, and in a text
\* item they are its text.
IsWellFormed(formed, found, v) ==
  /\ v.kind = "str" => "base64" \notin v.parts
  /\ v.kind = "list" => v.items \subseteq formed
  /\ v.kind = "dict" => \A f \in v.fields :
       LET ofImage == \/ v.type \in {"image", "input_image", "computer_screenshot"}
                      \/ f.key \in {"image_url", "file_data"}
           besideText == v.type \in {"input_text", "output_text", "text"} /\ f.key \notin {"text", "content"}
       IN /\ ofImage \/ besideText => "words" \notin found[f.value]
          /\ ofImage \/ f.value \in formed

WellFormed[n \in 0..MaxDepth] == {v \in Json[n] : IsWellFormed(WellFormed[n - 1], parts[n - 1], v)}
=============================================================================
