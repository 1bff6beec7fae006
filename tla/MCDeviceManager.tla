--------------------------- MODULE MCDeviceManager ---------------------------
(***************************************************************************)
(* A PCI host controller that two drivers match (one of them enumerates    *)
(* the bus behind it) and a USB keyboard for which the catalog names one   *)
(* of two matching drivers.  The catalog is read from a document; others,  *)
(* changed in one or two places, are only parsed.                          *)
(***************************************************************************)
EXTENDS DeviceManager, DeviceCatalog

Word(x) == Leaf(String(x, 3))
Num(k) == Leaf(Number(k))
Category(class, type) ==
    <<Member("bus", Word("usb")), Member("class", Num(class)), Member("subclass", Num(1)),
      Member("protocol", Num(1)), Member("type", Word(type)), Member("generic_name", Word("generic")),
      Member("driver", Word("hid"))>>
Product(pid, type) ==
    <<Member("vid", Num(5)), Member("pid", Num(pid)), Member("type", Word(type)), Member("name", Word("model"))>>
Whole(version, categories, products, more) ==
    Object(<<Member("version", version), Member("categories", Array(categories)), Member("products", Array(products))>> \o more)

\* Values for a field, and values nobody asked for
Odd == {Leaf(Mark("word")), Leaf(Mark("garbled")), Leaf(Mark("escaped")), Array(<<>>), Object(<<>>)}
       \cup {Num(k) : k \in {0, 255, 256, 65535, 65536}}
       \cup {Leaf(String("pci", n)) : n \in {0, 7, 8, 23, 24, 31, 32, 63, 64}}
Nested == LET one == {Num(0), Array(<<>>), Leaf(Mark("garbled")), Leaf(Mark("escaped"))}
              two == {Array(<<x, y>>) : x, y \in one}
                     \cup {Object(<<Member(key, x)>>) : key \in {"k", "escaped"}, x \in one}
              three == {Array(<<x>>) : x \in two} \cup {Object(<<Member("k", x), Member("l", Num(0))>>) : x \in two}
          IN one \cup two \cup three \cup {Array(<<x>>) : x \in three}

\* An entry with a value changed, a member dropped, repeated or added
Changed(members) ==
    {[members EXCEPT ![i].value = x] : i \in DOMAIN members, x \in Odd}
    \cup {RemoveAt(members, i) : i \in DOMAIN members}
    \cup {Append(members, Member(members[i].key, x)) : i \in DOMAIN members, x \in {Num(2), Word("usb"), Leaf(Mark("word"))}}
    \cup {<<Member("more", x)>> \o members : x \in Nested}
    \cup {Append(members, Member("escaped", Num(0)))}

Categories == {Object(Category(k, type)) : k \in {3, 4}, type \in {"keyboard", "mouse"}}
Products == {Object(Product(k, type)) : k \in {7, 8}, type \in {"keyboard", "mouse"}}
Usual == <<Object(Category(3, "keyboard"))>>
Trees ==
    {Whole(Num(1), <<Object(c)>>, <<>>, <<>>) : c \in Changed(Category(3, "keyboard"))}
    \cup {Whole(Num(1), Usual, <<Object(p)>>, <<>>) : p \in Changed(Product(7, "keyboard"))}
    \cup {Whole(v, c, p, <<>>) : v \in {Num(1), Num(2), Leaf(Mark("word"))},
                                 c \in UNION {[1..n -> Categories] : n \in 0..2}, p \in {<<>>, <<Object(Product(7, "mouse"))>>}}
    \cup {Whole(Num(1), <<Object(Category(3, "keyboard")), Object(Category(4, "mouse"))>>, p, <<>>) :
              p \in UNION {[1..n -> Products] : n \in 0..3}}
    \cup {Whole(Num(1), Usual, <<>>, <<Member(key, x)>>) : key \in {"categories", "products", "version", "more", "escaped"},
                                                          x \in Nested \cup {Array(<<c>>) : c \in Categories}}
    \cup Odd

Keyboard == [class |-> <<3, 1, 1>>, vid |-> 5, pid |-> 7]
Mouse == [class |-> <<4, 1, 1>>, vid |-> 5, pid |-> 7]
Document == Text(Whole(Num(1), Usual, <<>>, <<>>))

MCMatches(d, id) ==
    <<d, id>> \in {<<"other", "controller">>, <<"xhci", "controller">>,
                   <<"other", "keyboard">>, <<"hid", "keyboard">>}
Match == device_config_resolve(parse_document(Document), Keyboard)
MCCatalog(id) == IF id = "keyboard" THEN Match.driver ELSE "none"

\* Every document is read as written (checked once, before anything is
\* registered).
CatalogAsWritten ==
    driver_count = 0 /\ device_count = 0 /\ ~loaded => \A tree \in Trees : ReadAsWritten(tree, {Keyboard, Mouse})
=============================================================================
