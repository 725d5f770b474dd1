-------------------------------- MODULE Vdom --------------------------------
(* The virtual DOM of the web UI (webui/vdom): a DomUpdater diffs the tree it    *)
(* showed last with a new one, and patches the nodes of the page by their        *)
(* number, depth first.  A tree that is asked for is text or an element with a   *)
(* tag, attributes ("none" where absent), event handlers or none, and children.  *)
(* A node of the page is one too; it also may be a comment, the separator that   *)
(* keeps two texts apart, and carries the number find_nodes found it under.      *)
EXTENDS Naturals, Sequences, SequencesExt

CONSTANTS
    Views,         \* the trees the application may render
    MaxUpdates     \* bound

VARIABLES
    vdom,          \* current_vdom
    root,          \* what root_node stands on
    page,          \* what is mounted once root_node was replaced there, or the mark of none
    panicked, updates

vars == <<vdom, root, page, panicked, updates>>

Unmarked == 1000
Detached == [kind |-> "none"]

-----------------------------------------------------------------------------
\* create_text_node, create_comment.
TextNode(t) == [kind |-> "text", text |-> t, mark |-> Unmarked]
Separator == [kind |-> "comment", mark |-> Unmarked]

\* create_dom_node: the closures of the handlers are returned with the node, and whoever
\* gets them keeps them ("held") or not ("lost").
RECURSIVE create_dom_node(_)
create_dom_node(v) ==
    IF v.kind = "text" THEN TextNode(v.text)
    ELSE [kind |-> "element", tag |-> v.tag, attrs |-> v.attrs, mark |-> Unmarked,
          listener |-> IF v.events THEN "held" ELSE "none",
          children |-> FlattenSeq([i \in DOMAIN v.children |->
              IF i > 1 /\ v.children[i].kind = "text" /\ v.children[i - 1].kind = "text"
              THEN <<Separator, create_dom_node(v.children[i])>>
              ELSE <<create_dom_node(v.children[i])>>])]

\* The closures that come with a node are dropped.
RECURSIVE DropClosures(_)
DropClosures(node) ==
    IF node.kind # "element" THEN node
    ELSE [node EXCEPT !.listener = IF @ = "held" THEN "lost" ELSE @,
                      !.children = [i \in DOMAIN node.children |-> DropClosures(node.children[i])]]

-----------------------------------------------------------------------------
RECURSIVE increment_node_idx_for_children(_, _)
increment_node_idx_for_children(old, idx) ==
    IF old.kind = "text" THEN idx + 1
    ELSE FoldLeft(LAMBDA i, child : increment_node_idx_for_children(child, i), idx + 1, old.children)

SkipAll(children, idx) == FoldLeft(LAMBDA i, child : increment_node_idx_for_children(child, i), idx, children)

Replaced(old, new) ==
    \/ old.kind # new.kind
    \/ /\ old.kind = "element"
       /\ old.tag # new.tag \/ (old.attrs["key"] # "none" /\ old.attrs["key"] # new.attrs["key"])

add_attributes(old, new) == {a \in DOMAIN new.attrs : new.attrs[a] # "none" /\ old.attrs[a] # new.attrs[a]}
remove_attributes(old, new) == {a \in DOMAIN old.attrs : old.attrs[a] # "none" /\ new.attrs[a] = "none"}
When(c, patch) == IF c THEN <<patch>> ELSE <<>>

\* The patches of an element itself.
ElementPatches(old, new, idx) ==
    When(add_attributes(old, new) # {},
         [op |-> "AddAttributes", at |-> idx, attrs |-> [a \in add_attributes(old, new) |-> new.attrs[a]]])
    \o When(remove_attributes(old, new) # {}, [op |-> "RemoveAttributes", at |-> idx, names |-> remove_attributes(old, new)])
    \o When(Len(new.children) > Len(old.children),
            [op |-> "AppendChildren", at |-> idx, nodes |-> SubSeq(new.children, Len(old.children) + 1, Len(new.children))])
    \o When(Len(new.children) < Len(old.children), [op |-> "TruncateChildren", at |-> idx, keep |-> Len(new.children)])

\* diff_recursive, with the patches so far and the number of the node last looked at.
RECURSIVE diff_recursive(_, _, _), diff_children(_, _, _, _)
diff_children(old, new, k, sofar) ==
    IF k > Len(new) \/ k > Len(old) THEN [patches |-> sofar.patches, idx |-> SkipAll(SubSeq(old, k, Len(old)), sofar.idx)]
    ELSE diff_children(old, new, k + 1,
             [diff_recursive(old[k], new[k], sofar.idx + 1) EXCEPT !.patches = sofar.patches \o @])
diff_recursive(old, new, idx) ==
    IF Replaced(old, new)
    THEN [patches |-> <<[op |-> "Replace", at |-> idx, node |-> new]>>,
          idx |-> IF old.kind = "element" THEN SkipAll(old.children, idx) ELSE idx]
    ELSE IF old.kind = "text"
    THEN [patches |-> When(old.text # new.text, [op |-> "ChangeText", at |-> idx, text |-> new.text]), idx |-> idx]
    ELSE diff_children(old.children, new.children, 1, [patches |-> ElementPatches(old, new, idx), idx |-> idx])

diff(old, new) == diff_recursive(old, new, 0).patches

-----------------------------------------------------------------------------
\* find_nodes numbers the nodes of the page; comments have no number.
RECURSIVE find_nodes(_, _)
find_nodes(node, idx) ==
    IF node.kind = "comment" THEN [node |-> node, idx |-> idx]
    ELSE IF node.kind = "text" THEN [node |-> [node EXCEPT !.mark = idx], idx |-> idx + 1]
    ELSE LET found == FoldLeft(LAMBDA sofar, child :
                          [nodes |-> Append(sofar.nodes, find_nodes(child, sofar.idx).node), idx |-> find_nodes(child, sofar.idx).idx],
                          [nodes |-> <<>>, idx |-> idx + 1], node.children)
         IN [node |-> [node EXCEPT !.mark = idx, !.children = found.nodes], idx |-> found.idx]

\* TruncateChildren's loop over the live list: n turns, `found` children seen that are no
\* separators.
RECURSIVE truncate(_, _, _, _, _)
truncate(children, keep, index, n, found) ==
    IF index = n THEN children
    ELSE LET at == 1 + IF index < Len(children) THEN index ELSE Len(children) - 1
         IN IF children[at].kind = "comment" THEN truncate(children, keep, index + 1, n, found)
            ELSE IF found < keep THEN truncate(children, keep, index + 1, n, found + 1)
            ELSE truncate(RemoveAt(children, at), keep, index + 1, n, found + 1)

apply_element_patch(node, p) ==
    CASE p.op = "AddAttributes" -> [node EXCEPT !.attrs = [a \in DOMAIN @ |-> IF a \in DOMAIN p.attrs THEN p.attrs[a] ELSE @[a]]]
      [] p.op = "RemoveAttributes" -> [node EXCEPT !.attrs = [a \in DOMAIN @ |-> IF a \in p.names THEN "none" ELSE @[a]]]
      [] p.op = "Replace" -> create_dom_node(p.node)
      [] p.op = "TruncateChildren" -> [node EXCEPT !.children = truncate(@, p.keep, 0, Len(@), 0)]
      [] p.op = "AppendChildren" -> [node EXCEPT !.children = @ \o [i \in DOMAIN p.nodes |-> create_dom_node(p.nodes[i])]]

\* The closures of a node that replaces text are not passed on.
apply_text_patch(node, p) ==
    IF p.op = "ChangeText" THEN [node EXCEPT !.text = p.text] ELSE DropClosures(create_dom_node(p.node))

\* The node of a number, wherever it is now, is patched.
RECURSIVE PatchNode(_, _)
PatchNode(node, p) ==
    IF node.kind = "comment" THEN node
    ELSE IF node.mark = p.at THEN IF node.kind = "text" THEN apply_text_patch(node, p) ELSE apply_element_patch(node, p)
    ELSE IF node.kind = "text" THEN node
    ELSE [node EXCEPT !.children = [i \in DOMAIN @ |-> PatchNode(@[i], p)]]

\* Whether the number was found, on a node that takes the patch: else unreachable!().
RECURSIVE Takes(_, _)
Takes(node, p) ==
    IF node.kind = "comment" THEN FALSE
    ELSE IF node.mark = p.at THEN (node.kind = "text" /\ p.op \in {"ChangeText", "Replace"}) \/ (node.kind = "element" /\ p.op # "ChangeText")
    ELSE node.kind = "element" /\ \E i \in DOMAIN node.children : Takes(node.children[i], p)

\* patch: root_node itself can be replaced in the page, and then is no longer in it.
patch(found, patches) ==
    LET onRoot(p) == p.op = "Replace" /\ p.at = 0
    IN /\ root' = FoldLeft(LAMBDA node, p : IF onRoot(p) THEN node ELSE PatchNode(node, p), found, patches)
       /\ page' = IF page = Detached /\ \E i \in DOMAIN patches : onRoot(patches[i]) THEN create_dom_node(patches[1].node) ELSE page
       /\ panicked' = \E i \in DOMAIN patches : ~ Takes(found, patches[i])

-----------------------------------------------------------------------------
\* DomUpdater::new.
Init ==
    /\ vdom \in Views /\ root = create_dom_node(vdom) /\ page = Detached
    /\ panicked = FALSE /\ updates = 0

update(new_vdom) ==
    /\ ~ panicked /\ updates < MaxUpdates /\ updates' = updates + 1
    /\ \E found \in {find_nodes(root, 0).node}, patches \in {diff(vdom, new_vdom)} : patch(found, patches)
    /\ vdom' = new_vdom

Next == \E new_vdom \in Views : update(new_vdom)

Spec == Init /\ [][Next]_vars

-----------------------------------------------------------------------------
\* What the user sees of a tree, and of a node of the page.
RECURSIVE Asked(_)
Asked(v) == IF v.kind = "text" THEN <<v.text>>
            ELSE [tag |-> v.tag, attrs |-> v.attrs, children |-> [i \in DOMAIN v.children |-> Asked(v.children[i])]]
RECURSIVE Shown(_)
Shown(node) ==
    IF node.kind = "text" THEN <<node.text>>
    ELSE [tag |-> node.tag, attrs |-> node.attrs,
          children |-> LET seen == SelectSeq(node.children, LAMBDA c : c.kind # "comment")
                       IN [i \in DOMAIN seen |-> Shown(seen[i])]]

RECURSIVE Holds(_)
Holds(node) == node.kind = "element" => node.listener # "lost" /\ \A i \in DOMAIN node.children : Holds(node.children[i])

\* After any updates the page shows the tree that was rendered last: the numbers diff gave the
\* nodes of the old tree are the ones find_nodes gives the nodes of the page, separators or not.
PageShowsView == ~ panicked /\ Shown(IF page = Detached THEN root ELSE page) = Asked(vdom)

\* A listener that is in the page has its closure among active_closures.
ListenersHeld == Holds(root)

\* A tree differs from itself in nothing.
DiffQuiet == diff(vdom, vdom) = <<>>

VdomSound == PageShowsView /\ ListenersHeld /\ DiffQuiet
=============================================================================
