---------------------------- MODULE TomlTextProps ---------------------------
(***************************************************************************)
(* Why the lines that are written of a tree can be read: what the parser   *)
(* finds when it comes to each of them.                                    *)
(***************************************************************************)
EXTENDS TomlText

\* The nodes are complete: what is in a table or in an array of tables is one of them.
Closed(nodes) ==
  \A n \in nodes :
    /\ IsSection(n) => /\ IsFiniteSet(DOMAIN n[2]) /\ DOMAIN n[2] \subseteq Keys
                       /\ \A k \in DOMAIN n[2] : n[2][k] \in nodes
    /\ TableArray(n) => n[2] \in Seq(nodes)

\* Any table of these nodes is written, and read line by line.
TextSpec(nodes) ==
  /\ InitText
  /\ [][\E n \in nodes : (IsSection(n) /\ Begin(n)) \/ WriteText(n)]_textVars

\* An assignment is read into the table it was written for: no header comes between
\* the table's own header and its assignments (toml.hpp:2635-2686).
TableOfLine ==
  todo # <<>> /\ Head(todo).call = "assign" => current = Head(todo).at

\* The parser takes the next line.
Accepted ==
  LET l == Head(todo)
      p == Header(l)
  IN CASE l.call = "assign" -> Reader!MayAssign(<<l.key>>)
       [] l.call = "open" -> Reader!MayOpen(Reader!Furthest(p), p)
       [] OTHER -> Reader!MayAppend(Reader!Furthest(Front(p)), p)

\* No line that the writer makes conflicts with those before it, whatever arrays of
\* tables, empty arrays and inline tables are nested in each other (toml.hpp:2635-2686).
LinesAccepted == todo # <<>> => Accepted
=============================================================================
