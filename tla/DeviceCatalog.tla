---------------------------- MODULE DeviceCatalog -----------------------------
(***************************************************************************)
(* The device catalog, src/device/device_config.c: how the file            *)
(* /ddc.json is parsed, what makes it acceptable, and what it says about   *)
(* a device.                                                               *)
(*                                                                         *)
(* A document is a sequence of tokens with white space between them:       *)
(* punctuation, numbers, strings with their length, "escaped" for a string *)
(* with an escape that stands for a control character or for one beyond    *)
(* ASCII, "garbled" for one with a bad escape, a control character or no   *)
(* end, and "word" for any other run of characters (a number that does not *)
(* fit 32 bits or starts with a zero, true, 1.5).  A parser is at a token  *)
(* and returns the place of the token after what it parsed, or 0 if it     *)
(* failed.                                                                 *)
(***************************************************************************)
EXTENDS Integers, Sequences, FiniteSets, SequencesExt

CONSTANTS MaxCategories, MaxProducts, MaxJsonDepth

ASSUME CatalogAssumption == {MaxCategories, MaxProducts, MaxJsonDepth} \subseteq Nat \ {0}

Mark(c) == [t |-> c, v |-> "", n |-> 0]
Number(k) == [t |-> "number", v |-> "", n |-> k]
String(x, n) == [t |-> "string", v |-> x, n |-> n]
Value(token) == IF token.t = "number" THEN token.n ELSE token.v

Failed == 0
take_char(doc, at, c) == at \in DOMAIN doc /\ doc[at].t = c
parse_json_string(doc, at, capacity) ==
    at \in DOMAIN doc /\ doc[at].t = "string" /\ doc[at].n \in 1..capacity - 1
parse_uint32(doc, at) == at \in DOMAIN doc /\ doc[at].t = "number"

-----------------------------------------------------------------------------
(* Values nobody asked for.                                                *)

\* Any string, its escapes not decoded
skip_json_string(doc, at) == at \in DOMAIN doc /\ doc[at].t \in {"string", "escaped"}

RECURSIVE skip_json_value(_, _, _)

\* The members of an object from the one at at on, and the elements of an
\* array.  next is after the one skipped last.
RECURSIVE skip_members(_, _, _)
MemberSkipped(doc, next, depth) ==
    IF take_char(doc, next, "}") THEN next + 1
    ELSE IF take_char(doc, next, ",") THEN skip_members(doc, next + 1, depth)
    ELSE Failed
skip_members(doc, at, depth) ==
    IF ~skip_json_string(doc, at) \/ ~take_char(doc, at + 1, ":") THEN Failed
    ELSE MemberSkipped(doc, skip_json_value(doc, at + 2, depth + 1), depth)

RECURSIVE skip_elements(_, _, _)
ElementSkipped(doc, next, depth) ==
    IF take_char(doc, next, "]") THEN next + 1
    ELSE IF take_char(doc, next, ",") THEN skip_elements(doc, next + 1, depth)
    ELSE Failed
skip_elements(doc, at, depth) == ElementSkipped(doc, skip_json_value(doc, at, depth + 1), depth)

\* Anything that does not end an enclosing value passes for a number or a word.
skip_json_value(doc, at, depth) ==
    IF depth > MaxJsonDepth \/ at \notin DOMAIN doc THEN Failed
    ELSE CASE doc[at].t = "{" -> IF take_char(doc, at + 1, "}") THEN at + 2 ELSE skip_members(doc, at + 1, depth)
           [] doc[at].t = "[" -> IF take_char(doc, at + 1, "]") THEN at + 2 ELSE skip_elements(doc, at + 1, depth)
           [] doc[at].t \in {",", "]", "}", "garbled"} -> Failed
           [] OTHER -> at + 1

-----------------------------------------------------------------------------
(* Categories and products.  A field is a text of some capacity or a       *)
(* number with a largest value.                                            *)

TextField(capacity) == [kind |-> "text", max |-> capacity]
NumberField(max) == [kind |-> "number", max |-> max]
KeyCapacity == 64
CategoryFields == [bus |-> TextField(8), class |-> NumberField(255), subclass |-> NumberField(255),
                   protocol |-> NumberField(255), type |-> TextField(24), generic_name |-> TextField(64),
                   driver |-> TextField(32)]
ProductFields == [vid |-> NumberField(65535), pid |-> NumberField(65535), type |-> TextField(24),
                  name |-> TextField(64)]

\* Mutant: numbers are not compared with the width of their field.
FitsAnyNumber(doc, at, field) ==
    IF field.kind = "text" THEN parse_json_string(doc, at, field.max) ELSE parse_uint32(doc, at)

Fits(doc, at, field) ==
    IF field.kind = "text" THEN parse_json_string(doc, at, field.max)
    ELSE parse_uint32(doc, at) /\ doc[at].n <= field.max

\* What is read of a category or product, by key, and where it ends
NotRead == [at |-> Failed, read |-> <<>>]

\* The members of a category or product; next is after the one read last.
RECURSIVE parse_members(_, _, _, _)
MembersFollowed(doc, next, fields, read) ==
    IF take_char(doc, next, "}") THEN [at |-> next + 1, read |-> read]
    ELSE IF take_char(doc, next, ",") THEN parse_members(doc, next + 1, fields, read)
    ELSE NotRead
parse_members(doc, at, fields, read) ==
    IF ~parse_json_string(doc, at, KeyCapacity) \/ ~take_char(doc, at + 1, ":") THEN NotRead
    ELSE IF doc[at].v \notin DOMAIN fields
    THEN MembersFollowed(doc, skip_json_value(doc, at + 2, 0), fields, read)
    ELSE IF Fits(doc, at + 2, fields[doc[at].v])
    THEN MembersFollowed(doc, at + 3, fields, (doc[at].v :> Value(doc[at + 2])) @@ read)
    ELSE NotRead

\* parse_category and parse_product: nothing may be missing.
Complete(parsed, fields) ==
    IF /\ parsed.at # Failed /\ DOMAIN parsed.read = DOMAIN fields
       /\ "bus" \in DOMAIN fields => parsed.read.bus = "usb"
    THEN parsed ELSE NotRead
parse_entry(doc, at, fields) ==
    IF ~take_char(doc, at, "{") \/ take_char(doc, at + 1, "}") THEN NotRead
    ELSE Complete(parse_members(doc, at + 1, fields, <<>>), fields)

\* parse_categories and parse_products, from the entry at at on; parsed is the
\* entry read last.
RECURSIVE parse_entries(_, _, _, _, _)
EntriesFollowed(doc, parsed, fields, list, max) ==
    IF take_char(doc, parsed.at, "]") THEN [at |-> parsed.at + 1, list |-> Append(list, parsed.read)]
    ELSE IF take_char(doc, parsed.at, ",") THEN parse_entries(doc, parsed.at + 1, fields, Append(list, parsed.read), max)
    ELSE [at |-> Failed, list |-> list]
parse_entries(doc, at, fields, list, max) ==
    IF Len(list) >= max THEN [at |-> Failed, list |-> list]
    ELSE EntriesFollowed(doc, parse_entry(doc, at, fields), fields, list, max)

parse_array(doc, at, fields, list, max) ==
    IF ~take_char(doc, at, "[") THEN [at |-> Failed, list |-> list]
    ELSE IF take_char(doc, at + 1, "]") THEN [at |-> at + 2, list |-> list]
    ELSE parse_entries(doc, at + 1, fields, list, max)

-----------------------------------------------------------------------------
(* The document.                                                           *)

NoCatalog == [ok |-> FALSE, version |-> {}, categories |-> <<>>, products |-> <<>>, arrays |-> {}]

\* The members of the document.  version: the last one read; arrays: whether
\* there were categories.  parsed is the array read last.
RECURSIVE parse_top(_, _, _)
TopFollowed(doc, next, read) ==
    IF take_char(doc, next, "}") THEN [at |-> next + 1, read |-> read]
    ELSE IF take_char(doc, next, ",") THEN parse_top(doc, next + 1, read)
    ELSE [at |-> Failed, read |-> read]
WithCategories(doc, parsed, read) ==
    TopFollowed(doc, parsed.at, [read EXCEPT !.categories = parsed.list, !.arrays = {"categories"}])
WithProducts(doc, parsed, read) == TopFollowed(doc, parsed.at, [read EXCEPT !.products = parsed.list])
parse_top(doc, at, read) ==
    IF ~parse_json_string(doc, at, KeyCapacity) \/ ~take_char(doc, at + 1, ":") THEN [at |-> Failed, read |-> read]
    ELSE CASE doc[at].v = "categories" ->
                WithCategories(doc, parse_array(doc, at + 2, CategoryFields, read.categories, MaxCategories), read)
           [] doc[at].v = "products" ->
                WithProducts(doc, parse_array(doc, at + 2, ProductFields, read.products, MaxProducts), read)
           [] doc[at].v = "version" ->
                IF parse_uint32(doc, at + 2) THEN TopFollowed(doc, at + 3, [read EXCEPT !.version = {doc[at + 2].n}])
                ELSE [at |-> Failed, read |-> read]
           [] OTHER -> TopFollowed(doc, skip_json_value(doc, at + 2, 0), read)

Triple(category) == <<category.class, category.subclass, category.protocol>>
Model(product) == <<product.vid, product.pid, product.type>>
Triples(categories) == [i \in DOMAIN categories |-> Triple(categories[i])]
Models(products) == [i \in DOMAIN products |-> Model(products[i])]

category_type_exists(categories, type) == \E i \in DOMAIN categories : categories[i].type = type

\* parse_document: what was read must end with the document and be consistent.
Accepted(doc, top) ==
    /\ take_char(doc, 1, "{")
    /\ top.at = Len(doc) + 1
    /\ top.read.version = {1} /\ top.read.arrays # {} /\ top.read.categories # <<>>
    /\ IsInjective(Triples(top.read.categories))
    /\ \A i \in DOMAIN top.read.products : category_type_exists(top.read.categories, top.read.products[i].type)
    /\ IsInjective(Models(top.read.products))
Finished(doc, top) == IF Accepted(doc, top) THEN [top.read EXCEPT !.ok = TRUE] ELSE NoCatalog
parse_document(doc) ==
    IF take_char(doc, 2, "}") THEN NoCatalog ELSE Finished(doc, parse_top(doc, 2, NoCatalog))

\* What the catalog says of the interface of a USB device: the first category
\* of its class, and the name of its model if that is known
device_config_resolve(catalog, id) ==
    LET fitting == {i \in DOMAIN catalog.categories : Triple(catalog.categories[i]) = id.class}
        category == catalog.categories[CHOOSE i \in fitting : \A j \in fitting : i <= j]
        models == {i \in DOMAIN catalog.products : Model(catalog.products[i]) = <<id.vid, id.pid, category.type>>}
        model == catalog.products[CHOOSE i \in models : \A j \in models : i <= j]
    IN IF ~catalog.ok \/ fitting = {} THEN <<>>
       ELSE [type |-> category.type, driver |-> category.driver,
             name |-> IF models = {} THEN category.generic_name ELSE model.name]

-----------------------------------------------------------------------------
(* Reference: documents as trees.  An object is a sequence of members,     *)
(* each a key and a value; an array a sequence of values; a leaf a token.  *)

Leaf(token) == [shape |-> "leaf", token |-> token, items |-> <<>>]
Array(items) == [shape |-> "array", token |-> Mark("["), items |-> items]
Object(members) == [shape |-> "object", token |-> Mark("{"), items |-> members]
Member(key, value) == [key |-> key, value |-> value]

KeyToken(key) == IF key = "escaped" THEN Mark("escaped") ELSE String(key, Len(key))

\* The text of a tree
RECURSIVE Text(_)
Separated(parts) == FoldLeft(LAMBDA text, part : IF text = <<>> THEN part ELSE text \o <<Mark(",")>> \o part, <<>>, parts)
Text(tree) ==
    CASE tree.shape = "leaf" -> <<tree.token>>
      [] tree.shape = "array" ->
            <<Mark("[")>> \o Separated([i \in DOMAIN tree.items |-> Text(tree.items[i])]) \o <<Mark("]")>>
      [] tree.shape = "object" ->
            <<Mark("{")>> \o Separated([i \in DOMAIN tree.items |->
                <<KeyToken(tree.items[i].key), Mark(":")>> \o Text(tree.items[i].value)]) \o <<Mark("}")>>

\* How deep a value is nested, and whether it is a value at all
RECURSIVE Depth(_)
Depth(tree) ==
    LET values == [i \in DOMAIN tree.items |-> IF tree.shape = "object" THEN tree.items[i].value ELSE tree.items[i]]
    IN IF tree.items = <<>> THEN 0 ELSE 1 + Max({Depth(values[i]) : i \in DOMAIN values})

RECURSIVE Sound(_)
Sound(tree) ==
    CASE tree.shape = "leaf" -> tree.token.t \in {"string", "escaped", "number", "word"}
      [] tree.shape = "array" -> \A i \in DOMAIN tree.items : Sound(tree.items[i])
      [] tree.shape = "object" -> \A i \in DOMAIN tree.items : Sound(tree.items[i].value)
Ignored(tree) == Sound(tree) /\ Depth(tree) <= MaxJsonDepth

ValuesOf(object, key) == {i \in DOMAIN object.items : object.items[i].key = key}
ValueOf(object, key) == object.items[Max(ValuesOf(object, key))].value
Keys(object) == {object.items[i].key : i \in DOMAIN object.items}

\* An entry with every field there, each time within its limits, and nothing
\* else but values that can be ignored
IsEntry(tree, fields) ==
    /\ tree.shape = "object"
    /\ DOMAIN fields \subseteq Keys(tree) /\ "escaped" \notin Keys(tree)
    /\ \A i \in DOMAIN tree.items :
         LET value == tree.items[i].value
             field == fields[tree.items[i].key]
         IN IF tree.items[i].key \notin DOMAIN fields THEN Ignored(value)
            ELSE value.shape = "leaf" /\ IF field.kind = "text" THEN value.token.t = "string" /\ value.token.n \in 1..field.max - 1
                                         ELSE value.token.t = "number" /\ value.token.n \in 0..field.max
    /\ "bus" \in DOMAIN fields => ValueOf(tree, "bus").token.v = "usb"
EntryOf(tree, fields) == [k \in DOMAIN fields |-> Value(ValueOf(tree, k).token)]

\* The entries of all arrays under a key
ItemsOf(tree, key) ==
    FoldLeft(LAMBDA all, m : IF m.key = key THEN all \o m.value.items ELSE all, <<>>, tree.items)
ArrayOf(tree, key, fields, max) ==
    /\ \A i \in ValuesOf(tree, key) : tree.items[i].value.shape = "array"
    /\ \A i \in DOMAIN ItemsOf(tree, key) : IsEntry(ItemsOf(tree, key)[i], fields)
    /\ Len(ItemsOf(tree, key)) <= max

\* The catalog a tree stands for
CatalogOf(tree) ==
    LET entries(key, fields) == [i \in DOMAIN ItemsOf(tree, key) |-> EntryOf(ItemsOf(tree, key)[i], fields)]
        categories == entries("categories", CategoryFields)
        products == entries("products", ProductFields)
    IN IF /\ tree.shape = "object" /\ {"version", "categories"} \subseteq Keys(tree) /\ "escaped" \notin Keys(tree)
          /\ \A i \in ValuesOf(tree, "version") : tree.items[i].value.token.t = "number"
          /\ ValueOf(tree, "version").token.n = 1
          /\ ArrayOf(tree, "categories", CategoryFields, MaxCategories)
          /\ ArrayOf(tree, "products", ProductFields, MaxProducts)
          /\ \A i \in DOMAIN tree.items :
               tree.items[i].key \notin {"version", "categories", "products"} => Ignored(tree.items[i].value)
          /\ categories # <<>>
          /\ Cardinality({Triple(categories[i]) : i \in DOMAIN categories}) = Len(categories)
          /\ Cardinality({Model(products[i]) : i \in DOMAIN products}) = Len(products)
          /\ {products[i].type : i \in DOMAIN products} \subseteq {categories[i].type : i \in DOMAIN categories}
       THEN [ok |-> TRUE, version |-> {1}, categories |-> categories, products |-> products, arrays |-> {"categories"}]
       ELSE NoCatalog

\* A document means what its tree says: the catalog is loaded with exactly its
\* entries or refused as a whole, a document cut short or with something after
\* its end is refused, and what an accepted catalog says of a device does not
\* depend on the order of its entries.
ReadAsWritten(tree, ids) ==
    LET SameAnswers(catalog) ==
            LET turned == [catalog EXCEPT !.categories = Reverse(@), !.products = Reverse(@)]
            IN \A id \in ids : device_config_resolve(catalog, id) = device_config_resolve(turned, id)
        Read(doc) ==
            /\ parse_document(doc) = CatalogOf(tree)
            /\ \A k \in 1..Len(doc) - 1 : ~parse_document(SubSeq(doc, 1, k)).ok
            /\ ~parse_document(Append(doc, Mark("}"))).ok
    IN Read(Text(tree)) /\ SameAnswers(CatalogOf(tree))
=============================================================================
