---------------------------- MODULE MCTurnRecord -----------------------------
(* TurnRecord for TLC: one tool of each kind, and values of each form. *)
EXTENDS TurnRecord

AdvertisedCategories ==
  [robot_move |-> "navigation", robot_get_diagnostics |-> "status",
   speak_say |-> "speech", memory_remember |-> "tool"]

Names == STRING

Words == Str({"words"})
Frame == Str({"dataURL"})

\* A dict with the fields of a record.
Object(type, record) == Dict(type, {Field(k, record[k]) : k \in DOMAIN record})

InputText == Object("input_text", [text |-> Words])
InputImage == Object("input_image", [image_url |-> Frame])

\* The arguments of tests/test_memory_episode.py, and none.
Arguments == {Dict("", {}), Object("", [note |-> Words, image_url |-> Frame])}

\* A text, and the items of an MCP result.
SdkForms == {Words, List({InputImage}), List({InputText, InputImage})}

\* Other forms that sanitize.py knows: the dict of the test, an image with bare
\* base64, one inside a text, a nested url, a file, and blank and null leaves.
OtherForms ==
  {Object("", [description |-> Words, image_url |-> Frame]),
   List({Object("image", [data |-> Str({"base64"})]), Str({}), Null}),
   Object("", [found |-> Number,
               view |-> Object("image_url", [image_url |-> Object("", [url |-> Frame])])]),
   List({Str({"words", "dataURL"}), Object("input_file", [file_data |-> Str({"base64"})])})}

AllForms == SdkForms \cup OtherForms
=============================================================================
