----------------------------- MODULE MCMasterData -----------------------------
EXTENDS MasterData, TLC

Blank == [kind |-> "product", company |-> "c1", key |-> "none", barcode |-> None,
          cost |-> 1, price |-> 2, active |-> TRUE, fails |-> 0, locked |-> "no"]
Product(c, sku) == [Blank EXCEPT !.company = c, !.key = sku]
Other(kind, key) == [Blank EXCEPT !.kind = kind, !.key = key, !.cost = 0, !.price = 0]

Id(name) == <<name, 0>>
MCSeeded == (Id("mug") :> Product("c1", "mug")) @@ (Id("pen") :> Product("c1", "pen"))
            @@ (Id("dock") :> Other("warehouse", "south"))
            @@ (Id("c1") :> Other("company", None))
            @@ (Id("ann") :> Other("user", "ann"))
            @@ (Id("shop") :> Other("customer", None))

Create(rs) == [does |-> "create", rows |-> rs]
Update(i, via, set) ==
    [does |-> "update", row |-> Id(i), company |-> "c1", via |-> via, set |-> set]

MCMenu == {
    Create(<<Product("c1", "cup"), Product("c1", "jar")>>),
    Create(<<Product("c1", "jar"), Product("c1", "cup")>>),
    Create(<<Product("c2", "cup")>>),
    Create(<<Product("c1", "pan"), Product("c1", "pan")>>),
    Create(<<Other("warehouse", "north")>>),
    Create(<<Other("supplier", None)>>),
    Create(<<Other("user", "ann")>>),
    Update("mug", "update", [cost |-> 2]),
    Update("mug", "update", [price |-> 1]),
    Update("mug", "delete", [active |-> FALSE]),
    Update("mug", "barcode", [barcode |-> "123456"]),
    Update("pen", "barcode", [barcode |-> "123456"]),
    Update("mug", "barcode", [barcode |-> None]),
    [Update("mug", "update", [price |-> 3]) EXCEPT !.company = "c2"],
    [Update("c1", "update", [active |-> FALSE]) EXCEPT !.company = "any"],
    Update("dock", "update", [key |-> "north"]),
    Update("shop", "update", [active |-> FALSE]),
    [does |-> "login", row |-> Id("ann"), right |-> FALSE],
    [does |-> "login", row |-> Id("ann"), right |-> TRUE]}

Symmetry == Permutations(Requests)
=============================================================================
