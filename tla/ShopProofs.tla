----------------------------- MODULE ShopProofs ------------------------------
(***************************************************************************)
(* What consumers see of a vendor, what they keep and what reaches them,   *)
(* what payees are told and what they are paid from: the parts of MCShop   *)
(* but for placing an order (OrderingProofs) and the payouts               *)
(* (CashoutProofs); and then all of them together.  For any menu, number   *)
(* of calls, and size.                                                     *)
(***************************************************************************)
EXTENDS MCShop, OrderingProofs, CashoutProofs

-----------------------------------------------------------------------------
(* The menu *)

(* What an item's flag and its level say of the stock agree, and its       *)
(* section is there.                                                       *)
StockAgrees == \A i \in Items : item[i].inStock = 1 <=> item[i].level # "OUT_OF_STOCK"
SectionIsLive == \A i \in Items : item[i].cat \in PickSection

(* The calls that have read a cap and are about to use it up. *)
MenuCallsAt(step) == {c \in MenuCalls : menuCall[c].at = step}

(* What is there, and what may still come of the calls under way. *)
CapsHold ==
    vendorType = "INFORMAL" =>
        /\ Cardinality(ShownItems) + Cardinality(MenuCallsAt("createItem"))
             <= ItemCap + MaxMenuCalls - 1
        /\ Cardinality(LiveSections) + Cardinality(MenuCallsAt("createSection"))
             <= SectionCap + MaxMenuCalls - 1

(* The invariant. *)
CatalogueInv == StockAgrees /\ SectionIsLive /\ NamesUnique /\ CapsHold

(* A menu and the calls about it are finite, and as small as their bounds. *)
LEMMA SmallMenu ==
    /\ \A S \in SUBSET Items : IsFiniteSet(S) /\ Cardinality(S) \in Nat
    /\ \A S \in SUBSET Sections : IsFiniteSet(S) /\ Cardinality(S) \in Nat
    /\ \A S \in SUBSET MenuCalls :
         IsFiniteSet(S) /\ Cardinality(S) \in Nat /\ Cardinality(S) <= MaxMenuCalls
<1>1. IsFiniteSet(MenuCalls) /\ Cardinality(MenuCalls) = MaxMenuCalls
  BY CatalogueAssumption, FS_Interval DEF MenuCalls
<1>2. IsFiniteSet(Items) /\ IsFiniteSet(Sections)
  BY CatalogueAssumption, FS_Interval DEF Items, Sections
<1> QED
  BY <1>1, <1>2, FS_Subset, FS_CardinalityType

(* The same of the sets that are counted. *)
LEMMA Counted ==
    /\ IsFiniteSet(ShownItems) /\ Cardinality(ShownItems) \in Nat
    /\ IsFiniteSet(LiveSections) /\ Cardinality(LiveSections) \in Nat
    /\ \A step : /\ IsFiniteSet(MenuCallsAt(step)) /\ Cardinality(MenuCallsAt(step)) \in Nat
                 /\ Cardinality(MenuCallsAt(step)) <= MaxMenuCalls
<1>1. /\ ShownItems \in SUBSET Items /\ LiveSections \in SUBSET Sections
      /\ \A step : MenuCallsAt(step) \in SUBSET MenuCalls
  BY DEF ShownItems, LiveSections, MenuCallsAt
<1> QED
  BY <1>1, SmallMenu

(* A step that adds nothing to what is counted keeps within the caps. *)
LEMMA NothingAdded ==
    ASSUME CapsHold, vendorType' = vendorType,
           ShownItems' \subseteq ShownItems, LiveSections' \subseteq LiveSections,
           MenuCallsAt("createItem")' \subseteq MenuCallsAt("createItem"),
           MenuCallsAt("createSection")' \subseteq MenuCallsAt("createSection")
    PROVE  CapsHold'
<1>1. /\ Cardinality(ShownItems') <= Cardinality(ShownItems)
      /\ Cardinality(LiveSections') <= Cardinality(LiveSections)
      /\ Cardinality(MenuCallsAt("createItem")') <= Cardinality(MenuCallsAt("createItem"))
      /\ Cardinality(MenuCallsAt("createSection")') <= Cardinality(MenuCallsAt("createSection"))
  BY Counted, FS_Subset
<1>2. /\ Cardinality(ShownItems') \in Nat /\ Cardinality(LiveSections') \in Nat
      /\ Cardinality(MenuCallsAt("createItem")') \in Nat
      /\ Cardinality(MenuCallsAt("createSection")') \in Nat
  <2>1. Cardinality(ShownItems') \in Nat
    BY Counted, FS_Subset, FS_CardinalityType
  <2>2. Cardinality(LiveSections') \in Nat
    BY Counted, FS_Subset, FS_CardinalityType
  <2>3. Cardinality(MenuCallsAt("createItem")') \in Nat
    BY Counted, FS_Subset, FS_CardinalityType
  <2>4. Cardinality(MenuCallsAt("createSection")') \in Nat
    BY Counted, FS_Subset, FS_CardinalityType
  <2> QED
    BY <2>1, <2>2, <2>3, <2>4
<1> QED
  BY <1>1, <1>2, Counted, CatalogueAssumption DEF CapsHold

(* A call that starts: it has seen room under the cap it is about. *)
LEMMA MenuCallSeesRoom ==
    ASSUME CatalogueTypeOK, CatalogueInv, NEW c \in MenuCalls,
           NEW call \in [at : {"createItem", "updateItem", "createSection"},
                         i : Items \cup {0}, cat : Sections \cup {NoSection}],
           MenuCallStarts(c, call),
           vendorType = "INFORMAL" /\ call.at = "createItem" => Cardinality(ShownItems) < ItemCap,
           vendorType = "INFORMAL" /\ call.at = "createSection" => Cardinality(LiveSections) < SectionCap
    PROVE  CatalogueTypeOK' /\ CatalogueInv'
<1>1. /\ menuCall' = [menuCall EXCEPT ![c] = call] /\ menuCall[c].at = "idle"
      /\ UNCHANGED <<vendorType, item, section>>
  BY DEF MenuCallStarts, NoCallYet
<1>2. CatalogueTypeOK'
  BY <1>1 DEF CatalogueTypeOK
<1>3. ShownItems' = ShownItems /\ LiveSections' = LiveSections
  BY <1>1 DEF ShownItems, LiveSections
<1>4. StockAgrees' /\ SectionIsLive' /\ NamesUnique'
  BY <1>1, <1>3 DEF CatalogueInv, StockAgrees, SectionIsLive, NamesUnique, PickSection
<1>5. \A step : call.at # step => MenuCallsAt(step)' \subseteq MenuCallsAt(step)
  BY <1>1 DEF MenuCallsAt, CatalogueTypeOK
<1>6. /\ \A step : Cardinality(MenuCallsAt(step)) \in Nat /\ IsFiniteSet(MenuCallsAt(step))
      /\ Cardinality(MenuCallsAt("createItem")') \in Nat
      /\ Cardinality(MenuCallsAt("createItem")') <= MaxMenuCalls
      /\ Cardinality(MenuCallsAt("createSection")') \in Nat
      /\ Cardinality(MenuCallsAt("createSection")') <= MaxMenuCalls
      /\ Cardinality(ShownItems) \in Nat /\ Cardinality(LiveSections) \in Nat
  <2>1. /\ MenuCallsAt("createItem")' \in SUBSET MenuCalls
        /\ MenuCallsAt("createSection")' \in SUBSET MenuCalls
    BY DEF MenuCallsAt
  <2> QED
    BY <2>1, SmallMenu, Counted
<1>7. \A step : MenuCallsAt(step)' \subseteq MenuCallsAt(step) =>
                  Cardinality(MenuCallsAt(step)') <= Cardinality(MenuCallsAt(step))
  BY <1>6, FS_Subset
<1>8. CapsHold'
  <2> SUFFICES ASSUME vendorType = "INFORMAL"
               PROVE  /\ Cardinality(ShownItems) + Cardinality(MenuCallsAt("createItem")')
                           <= ItemCap + MaxMenuCalls - 1
                      /\ Cardinality(LiveSections) + Cardinality(MenuCallsAt("createSection")')
                           <= SectionCap + MaxMenuCalls - 1
    BY <1>1, <1>3 DEF CapsHold
  <2>1. /\ Cardinality(ShownItems) + Cardinality(MenuCallsAt("createItem"))
             <= ItemCap + MaxMenuCalls - 1
        /\ Cardinality(LiveSections) + Cardinality(MenuCallsAt("createSection"))
             <= SectionCap + MaxMenuCalls - 1
    BY DEF CatalogueInv, CapsHold
  <2>2. \/ Cardinality(ShownItems) < ItemCap
        \/ Cardinality(MenuCallsAt("createItem")') <= Cardinality(MenuCallsAt("createItem"))
    BY <1>5, <1>7
  <2>3. \/ Cardinality(LiveSections) < SectionCap
        \/ Cardinality(MenuCallsAt("createSection")') <= Cardinality(MenuCallsAt("createSection"))
    BY <1>5, <1>7
  <2> QED
    BY <1>6, <2>1, <2>2, <2>3, CatalogueAssumption
<1> QED
  BY <1>2, <1>4, <1>8 DEF CatalogueInv

(* A call that ends is no longer about to do anything. *)
LEMMA MenuCallEnded ==
    ASSUME CatalogueTypeOK, NEW c \in MenuCalls, MenuCallEnds(c)
    PROVE  /\ menuCall' \in [MenuCalls -> [at : {"idle", "createItem", "updateItem", "createSection"},
                i : Items \cup {0}, cat : Sections \cup {NoSection}]]
           /\ MenuCallsAt("createItem")' = MenuCallsAt("createItem") \ {c}
           /\ MenuCallsAt("createSection")' = MenuCallsAt("createSection") \ {c}
<1>1. NoCallYet.at = "idle" /\ NoCallYet \in [at : {"idle", "createItem", "updateItem", "createSection"},
                i : Items \cup {0}, cat : Sections \cup {NoSection}]
  BY DEF NoCallYet
<1> QED
  BY <1>1 DEF MenuCallEnds, MenuCallsAt, CatalogueTypeOK

ItemRow == [there : {"no", "yes", "deleted"}, level : StockLevel,
            inStock : {0, 1}, cat : Sections \cup {NoSection}]

RowFits(row) ==
    row \in ItemRow /\ (row.inStock = 1 <=> row.level # "OUT_OF_STOCK") /\ row.cat \in PickSection

(* An item row that is written whole. *)
LEMMA ItemWritten ==
    ASSUME CatalogueTypeOK, CatalogueInv, NEW i \in Items, NEW row \in ItemRow,
           item' = [item EXCEPT ![i] = row], section' = section,
           row.inStock = 1 <=> row.level # "OUT_OF_STOCK", row.cat \in PickSection
    PROVE  /\ item' \in [Items -> ItemRow] /\ StockAgrees' /\ SectionIsLive' /\ NamesUnique'
           /\ LiveSections' = LiveSections
           /\ ShownItems' = IF row.there = "yes" THEN ShownItems \cup {i} ELSE ShownItems \ {i}
<1>1. item \in [Items -> ItemRow]
  BY DEF CatalogueTypeOK, ItemRow
<1>2. LiveSections' = LiveSections /\ PickSection' = PickSection
  BY DEF LiveSections, PickSection
<1>3. item' \in [Items -> ItemRow] /\ \A j \in Items : item'[j] = IF j = i THEN row ELSE item[j]
  BY <1>1
<1>4. StockAgrees' /\ SectionIsLive' /\ NamesUnique'
  BY <1>2, <1>3 DEF CatalogueInv, StockAgrees, SectionIsLive, NamesUnique
<1>5. ShownItems' = IF row.there = "yes" THEN ShownItems \cup {i} ELSE ShownItems \ {i}
  BY <1>3 DEF ShownItems
<1> QED
  BY <1>2, <1>3, <1>4, <1>5

(* An item created: within the cap that its call saw room under. *)
LEMMA CreateItemKeeps ==
    ASSUME CatalogueTypeOK, CatalogueInv, NEW c \in MenuCalls, CreateItemWrite(c)
    PROVE  CatalogueTypeOK' /\ CatalogueInv'
<1> DEFINE cat == menuCall[c].cat
<1>1. /\ menuCall[c].at = "createItem" /\ MenuCallEnds(c) /\ UNCHANGED <<vendorType, section>>
      /\ c \in MenuCallsAt("createItem")
  BY DEF CreateItemWrite, MenuCallsAt
<1>2. CASE /\ cat \in PickSection
           /\ \E i \in Items, level \in StockLevel :
               /\ item[i].there = "no"
               /\ item' = [item EXCEPT ![i] = [there |-> "yes", level |-> level,
                              inStock |-> InStockOf(level), cat |-> cat]]
  <2>1. PICK i \in Items, level \in StockLevel :
               /\ item[i].there = "no"
               /\ item' = [item EXCEPT ![i] = [there |-> "yes", level |-> level,
                              inStock |-> InStockOf(level), cat |-> cat]]
    BY <1>2
  <2> DEFINE row == [there |-> "yes", level |-> level, inStock |-> InStockOf(level), cat |-> cat]
  <2>2. /\ row \in ItemRow /\ row.there = "yes" /\ row.cat \in PickSection
        /\ row.inStock = 1 <=> row.level # "OUT_OF_STOCK"
    BY <1>2 DEF ItemRow, InStockOf, CatalogueTypeOK
  <2> HIDE DEF row
  <2>3. /\ item' \in [Items -> ItemRow] /\ StockAgrees' /\ SectionIsLive' /\ NamesUnique'
        /\ LiveSections' = LiveSections /\ ShownItems' = ShownItems \cup {i}
    BY <1>1, <2>1, <2>2, ItemWritten DEF row
  <2>4. i \notin ShownItems
    BY <2>1 DEF ShownItems
  <2>5. Cardinality(ShownItems') = Cardinality(ShownItems) + 1
    BY <2>3, <2>4, Counted, FS_AddElement
  <2>6. Cardinality(MenuCallsAt("createItem")') = Cardinality(MenuCallsAt("createItem")) - 1
    BY <1>1, MenuCallEnded, Counted, FS_RemoveElement
  <2>7. /\ Cardinality(MenuCallsAt("createSection")') \in Nat
        /\ Cardinality(MenuCallsAt("createSection")') <= Cardinality(MenuCallsAt("createSection"))
    <3>1. MenuCallsAt("createSection")' \subseteq MenuCallsAt("createSection")
      BY <1>1, MenuCallEnded
    <3> QED
      BY <3>1, Counted, FS_Subset, FS_CardinalityType
  <2>8. CapsHold'
    BY <1>1, <2>3, <2>5, <2>6, <2>7, Counted, CatalogueAssumption DEF CatalogueInv, CapsHold
  <2>9. CatalogueTypeOK'
    BY <1>1, <2>3, MenuCallEnded DEF CatalogueTypeOK, ItemRow
  <2> QED
    BY <2>3, <2>8, <2>9 DEF CatalogueInv
<1>3. CASE UNCHANGED item
  <2>1. ShownItems' = ShownItems /\ LiveSections' = LiveSections
    BY <1>1, <1>3 DEF ShownItems, LiveSections
  <2>2. StockAgrees' /\ SectionIsLive' /\ NamesUnique'
    BY <1>1, <1>3, <2>1 DEF CatalogueInv, StockAgrees, SectionIsLive, NamesUnique, PickSection
  <2>3. CapsHold'
    BY <1>1, <2>1, NothingAdded, MenuCallEnded DEF CatalogueInv
  <2> QED
    BY <1>1, <1>3, <2>2, <2>3, MenuCallEnded DEF CatalogueTypeOK, CatalogueInv
<1> QED
  BY <1>2, <1>3 DEF CreateItemWrite

(* An item written over: nothing is added. *)
LEMMA EditItemKeeps ==
    ASSUME CatalogueTypeOK, CatalogueInv, NEW i \in ShownItems, NEW row \in ItemRow,
           item' = [item EXCEPT ![i] = row], UNCHANGED <<vendorType, section>>,
           row.inStock = 1 <=> row.level # "OUT_OF_STOCK", row.cat \in PickSection,
           menuCall' = menuCall \/ \E c \in MenuCalls : MenuCallEnds(c)
    PROVE  CatalogueTypeOK' /\ CatalogueInv'
<1>1. i \in Items
  BY DEF ShownItems
<1>2. /\ item' \in [Items -> ItemRow] /\ StockAgrees' /\ SectionIsLive' /\ NamesUnique'
      /\ LiveSections' = LiveSections /\ ShownItems' \subseteq ShownItems
  BY <1>1, ItemWritten
<1>3. /\ menuCall' \in [MenuCalls -> [at : {"idle", "createItem", "updateItem", "createSection"},
                i : Items \cup {0}, cat : Sections \cup {NoSection}]]
      /\ MenuCallsAt("createItem")' \subseteq MenuCallsAt("createItem")
      /\ MenuCallsAt("createSection")' \subseteq MenuCallsAt("createSection")
  <2>1. CASE menuCall' = menuCall
    BY <2>1 DEF MenuCallsAt, CatalogueTypeOK
  <2>2. ASSUME NEW c \in MenuCalls, MenuCallEnds(c)
        PROVE  /\ menuCall' \in [MenuCalls -> [at : {"idle", "createItem", "updateItem", "createSection"},
                                   i : Items \cup {0}, cat : Sections \cup {NoSection}]]
               /\ MenuCallsAt("createItem")' \subseteq MenuCallsAt("createItem")
               /\ MenuCallsAt("createSection")' \subseteq MenuCallsAt("createSection")
    BY <2>2, MenuCallEnded
  <2> QED
    BY <2>1, <2>2
<1>4. CapsHold'
  BY <1>2, <1>3, NothingAdded DEF CatalogueInv
<1>5. CatalogueTypeOK'
  BY <1>2, <1>3 DEF CatalogueTypeOK, ItemRow
<1> QED
  BY <1>2, <1>4, <1>5 DEF CatalogueInv

(* The rows that the editors write: level and isInStock together. *)
LEMMA EditedRow ==
    ASSUME NEW r \in ItemRow, r.inStock = 1 <=> r.level # "OUT_OF_STOCK", r.cat \in PickSection,
           NEW cat \in PickSection, NEW level \in StockLevel
    PROVE  /\ RowFits([r EXCEPT !.cat = cat])
           /\ RowFits([r EXCEPT !.cat = cat, !.level = level, !.inStock = InStockOf(level)])
           /\ RowFits([r EXCEPT !.level = level, !.inStock = InStockOf(level)])
<1>1. InStockOf(level) \in {0, 1} /\ (InStockOf(level) = 1 <=> level # "OUT_OF_STOCK")
  BY DEF InStockOf
<1>2. cat \in Sections \cup {NoSection}
  BY DEF PickSection, LiveSections
<1>3. RowFits([r EXCEPT !.cat = cat])
  <2> DEFINE e == [r EXCEPT !.cat = cat]
  <2>1. e \in ItemRow
    BY <1>2 DEF ItemRow
  <2>2. e.inStock = r.inStock /\ e.level = r.level /\ e.cat = cat
    BY DEF ItemRow
  <2> QED
    BY <2>1, <2>2 DEF RowFits
<1>4. RowFits([r EXCEPT !.cat = cat, !.level = level, !.inStock = InStockOf(level)])
  <2> DEFINE e == [r EXCEPT !.cat = cat, !.level = level, !.inStock = InStockOf(level)]
  <2>1. e \in ItemRow
    BY <1>1, <1>2 DEF ItemRow
  <2>2. e.inStock = InStockOf(level) /\ e.level = level /\ e.cat = cat
    BY DEF ItemRow
  <2> HIDE DEF e
  <2>3. RowFits(e)
    BY <1>1, <2>1, <2>2 DEF RowFits
  <2> QED
    BY <2>3 DEF e
<1>5. RowFits([r EXCEPT !.level = level, !.inStock = InStockOf(level)])
  <2> DEFINE e == [r EXCEPT !.level = level, !.inStock = InStockOf(level)]
  <2>1. e \in ItemRow
    BY <1>1 DEF ItemRow
  <2>2. e.inStock = InStockOf(level) /\ e.level = level /\ e.cat = r.cat
    BY DEF ItemRow
  <2> HIDE DEF e
  <2>3. RowFits(e)
    BY <1>1, <2>1, <2>2 DEF RowFits
  <2> QED
    BY <2>3 DEF e
<1> QED
  BY <1>3, <1>4, <1>5

(* The rows there are. *)
LEMMA RowsFit ==
    CatalogueTypeOK /\ CatalogueInv => \A i \in Items :
        item[i] \in ItemRow /\ (item[i].inStock = 1 <=> item[i].level # "OUT_OF_STOCK")
        /\ item[i].cat \in PickSection
  BY DEF CatalogueTypeOK, CatalogueInv, StockAgrees, SectionIsLive, ItemRow

(* updateItem, with the section that it found, if that is still there. *)
LEMMA UpdateItemKeeps ==
    ASSUME CatalogueTypeOK, CatalogueInv, NEW c \in MenuCalls, UpdateItemWrite(c)
    PROVE  CatalogueTypeOK' /\ CatalogueInv'
<1> DEFINE i == menuCall[c].i
           cat == menuCall[c].cat
<1>1. MenuCallEnds(c) /\ UNCHANGED <<vendorType, section>>
  BY DEF UpdateItemWrite
<1>2. CASE UNCHANGED item
  <2>1. ShownItems' = ShownItems /\ LiveSections' = LiveSections
    BY <1>1, <1>2 DEF ShownItems, LiveSections
  <2>2. StockAgrees' /\ SectionIsLive' /\ NamesUnique'
    BY <1>1, <1>2, <2>1 DEF CatalogueInv, StockAgrees, SectionIsLive, NamesUnique, PickSection
  <2>3. CapsHold'
    BY <1>1, <2>1, NothingAdded, MenuCallEnded DEF CatalogueInv
  <2> QED
    BY <1>1, <1>2, <2>2, <2>3, MenuCallEnded DEF CatalogueTypeOK, CatalogueInv
<1>3. ASSUME i \in ShownItems, NEW row, RowFits(row), item' = [item EXCEPT ![i] = row]
      PROVE  CatalogueTypeOK' /\ CatalogueInv'
  BY <1>1, <1>3, EditItemKeeps DEF RowFits
<1>4. /\ i \in ShownItems => i \in Items
      /\ i \in Items => /\ item[i] \in ItemRow /\ item[i].cat \in PickSection
                        /\ item[i].inStock = 1 <=> item[i].level # "OUT_OF_STOCK"
  BY RowsFit DEF ShownItems
<1> HIDE DEF i, cat
<1>5. CASE i \in ShownItems /\ cat \in PickSection /\ item' = [item EXCEPT ![i].cat = cat]
  <2>1. item' = [item EXCEPT ![i] = [item[i] EXCEPT !.cat = cat]]
    BY <1>4, <1>5
  <2>2. RowFits([item[i] EXCEPT !.cat = cat])
    BY <1>4, <1>5, EditedRow, CatalogueAssumption
  <2> QED
    BY <1>3, <1>5, <2>1, <2>2
<1>6. ASSUME i \in ShownItems, cat \in PickSection, NEW level \in StockLevel,
             item' = [item EXCEPT ![i].cat = cat, ![i].level = level,
                                  ![i].inStock = InStockOf(level)]
      PROVE  CatalogueTypeOK' /\ CatalogueInv'
  <2>1. item' = [item EXCEPT ![i] =
                   [item[i] EXCEPT !.cat = cat, !.level = level, !.inStock = InStockOf(level)]]
    BY <1>4, <1>6
  <2>2. RowFits([item[i] EXCEPT !.cat = cat, !.level = level, !.inStock = InStockOf(level)])
    BY <1>4, <1>6, EditedRow
  <2> QED
    BY <1>3, <1>6, <2>1, <2>2
<1> QED
  BY <1>2, <1>5, <1>6 DEF UpdateItemWrite, i, cat

(* setStock. *)
LEMMA StockKeeps ==
    ASSUME CatalogueTypeOK, CatalogueInv, SetItemStock PROVE CatalogueTypeOK' /\ CatalogueInv'
<1>1. PICK i \in ShownItems, level \in StockLevel :
         item' = [item EXCEPT ![i].level = level, ![i].inStock = InStockOf(level)]
  BY DEF SetItemStock
<1>2. UNCHANGED <<vendorType, section, menuCall>>
  BY DEF SetItemStock
<1>3. i \in Items /\ NoSection \in PickSection
  BY DEF ShownItems, PickSection
<1>4. item' = [item EXCEPT ![i] = [item[i] EXCEPT !.level = level, !.inStock = InStockOf(level)]]
  BY <1>1
<1>5. RowFits([item[i] EXCEPT !.level = level, !.inStock = InStockOf(level)])
  BY <1>3, RowsFit, EditedRow
<1> QED
  BY <1>2, <1>4, <1>5, EditItemKeeps DEF RowFits

(* An item deleted. *)
LEMMA DeleteItemKeeps ==
    ASSUME CatalogueTypeOK, CatalogueInv, DeleteItem PROVE CatalogueTypeOK' /\ CatalogueInv'
<1> DEFINE row == [NoItem EXCEPT !.there = "deleted"]
<1>1. PICK i \in ShownItems : item' = [item EXCEPT ![i] = row]
  BY DEF DeleteItem
<1>2. UNCHANGED <<vendorType, section, menuCall>>
  BY DEF DeleteItem
<1>3. row \in ItemRow /\ row.cat \in PickSection /\ (row.inStock = 1 <=> row.level # "OUT_OF_STOCK")
  BY CatalogueAssumption DEF NoItem, ItemRow, PickSection
<1> HIDE DEF row
<1> QED
  BY <1>1, <1>2, <1>3, EditItemKeeps

(* A section created, under a name that is free. *)
LEMMA CreateSectionKeeps ==
    ASSUME CatalogueTypeOK, CatalogueInv, NEW c \in MenuCalls, CreateSectionWrite(c)
    PROVE  CatalogueTypeOK' /\ CatalogueInv'
<1>1. /\ menuCall[c].at = "createSection" /\ MenuCallEnds(c) /\ UNCHANGED <<vendorType, item>>
      /\ c \in MenuCallsAt("createSection")
  BY DEF CreateSectionWrite, MenuCallsAt
<1>2. ASSUME NEW n \in SectionNames, NameIsFree(n), NEW s \in Sections, section[s] = "none",
             section' = [section EXCEPT ![s] = n]
      PROVE  CatalogueTypeOK' /\ CatalogueInv'
  <2>1. LiveSections' = LiveSections \cup {s} /\ s \notin LiveSections
    BY <1>2, CatalogueAssumption DEF LiveSections, CatalogueTypeOK
  <2>2. NamesUnique'
    BY <1>2, <2>1 DEF CatalogueInv, NamesUnique, NameIsFree, LiveSections, CatalogueTypeOK
  <2>3. StockAgrees' /\ SectionIsLive'
    BY <1>1, <2>1 DEF CatalogueInv, StockAgrees, SectionIsLive, PickSection
  <2>4. ShownItems' = ShownItems
    BY <1>1 DEF ShownItems
  <2>5. Cardinality(LiveSections') = Cardinality(LiveSections) + 1
    BY <2>1, Counted, FS_AddElement
  <2>6. Cardinality(MenuCallsAt("createSection")') = Cardinality(MenuCallsAt("createSection")) - 1
    BY <1>1, MenuCallEnded, Counted, FS_RemoveElement
  <2>7. /\ Cardinality(MenuCallsAt("createItem")') \in Nat
        /\ Cardinality(MenuCallsAt("createItem")') <= Cardinality(MenuCallsAt("createItem"))
    <3>1. MenuCallsAt("createItem")' \subseteq MenuCallsAt("createItem")
      BY <1>1, MenuCallEnded
    <3> QED
      BY <3>1, Counted, FS_Subset, FS_CardinalityType
  <2>8. CapsHold'
    BY <1>1, <2>4, <2>5, <2>6, <2>7, Counted, CatalogueAssumption DEF CatalogueInv, CapsHold
  <2>9. CatalogueTypeOK'
    BY <1>1, <1>2, MenuCallEnded DEF CatalogueTypeOK
  <2> QED
    BY <2>2, <2>3, <2>8, <2>9 DEF CatalogueInv
<1>3. CASE UNCHANGED section
  <2>1. ShownItems' = ShownItems /\ LiveSections' = LiveSections
    BY <1>1, <1>3 DEF ShownItems, LiveSections
  <2>2. StockAgrees' /\ SectionIsLive' /\ NamesUnique'
    BY <1>1, <1>3, <2>1 DEF CatalogueInv, StockAgrees, SectionIsLive, NamesUnique, PickSection
  <2>3. CapsHold'
    BY <1>1, <2>1, NothingAdded, MenuCallEnded DEF CatalogueInv
  <2> QED
    BY <1>1, <1>3, <2>2, <2>3, MenuCallEnded DEF CatalogueTypeOK, CatalogueInv
<1> QED
  BY <1>2, <1>3 DEF CreateSectionWrite

(* A section renamed, to a name that is free. *)
LEMMA RenameSectionKeeps ==
    ASSUME CatalogueTypeOK, CatalogueInv, RenameSection PROVE CatalogueTypeOK' /\ CatalogueInv'
<1>1. PICK s \in LiveSections, n \in SectionNames :
         NameIsFree(n) /\ section' = [section EXCEPT ![s] = n]
  BY DEF RenameSection
<1>2. UNCHANGED <<vendorType, item, menuCall>>
  BY DEF RenameSection
<1>3. LiveSections' = LiveSections /\ ShownItems' = ShownItems
  BY <1>1, <1>2 DEF LiveSections, ShownItems, CatalogueTypeOK
<1>4. NamesUnique'
  BY <1>1, <1>3 DEF CatalogueInv, NamesUnique, NameIsFree, LiveSections, CatalogueTypeOK
<1>5. StockAgrees' /\ SectionIsLive'
  BY <1>2, <1>3 DEF CatalogueInv, StockAgrees, SectionIsLive, PickSection
<1>6. CapsHold'
  BY <1>2, <1>3, NothingAdded DEF CatalogueInv, MenuCallsAt
<1>7. CatalogueTypeOK'
  BY <1>1, <1>2 DEF CatalogueTypeOK, LiveSections
<1> QED
  BY <1>4, <1>5, <1>6, <1>7 DEF CatalogueInv

(* A section deleted, which its items are taken out of. *)
LEMMA DeleteSectionKeeps ==
    ASSUME CatalogueTypeOK, CatalogueInv, DeleteSection PROVE CatalogueTypeOK' /\ CatalogueInv'
<1>1. PICK s \in LiveSections :
         /\ section' = [section EXCEPT ![s] = "deleted"]
         /\ item' = [i \in Items |-> IF item[i].cat = s THEN [item[i] EXCEPT !.cat = NoSection]
                                                       ELSE item[i]]
  BY DEF DeleteSection
<1>2. UNCHANGED <<vendorType, menuCall>>
  BY DEF DeleteSection
<1>3. LiveSections' = LiveSections \ {s}
  BY <1>1, CatalogueAssumption DEF LiveSections, CatalogueTypeOK
<1>4. ASSUME NEW i \in Items
      PROVE  /\ item'[i] \in ItemRow /\ item'[i].there = item[i].there
             /\ item'[i].inStock = item[i].inStock /\ item'[i].level = item[i].level
             /\ item'[i].cat = IF item[i].cat = s THEN NoSection ELSE item[i].cat
  <2>1. item[i] \in ItemRow
    BY DEF CatalogueTypeOK, ItemRow
  <2> QED
    BY <1>1, <2>1 DEF ItemRow
<1>5. ShownItems' = ShownItems
  BY <1>4 DEF ShownItems
<1>6. StockAgrees' /\ SectionIsLive'
  BY <1>3, <1>4 DEF CatalogueInv, StockAgrees, SectionIsLive, PickSection
<1>7. NamesUnique'
  BY <1>1, <1>3 DEF CatalogueInv, NamesUnique, LiveSections, CatalogueTypeOK
<1>8. CapsHold'
  BY <1>2, <1>3, <1>5, NothingAdded DEF CatalogueInv, MenuCallsAt
<1>9. CatalogueTypeOK'
  <2>1. item' \in [Items -> ItemRow]
    BY <1>1, <1>4
  <2> QED
    BY <1>1, <1>2, <2>1 DEF CatalogueTypeOK, LiveSections, ItemRow
<1> QED
  BY <1>6, <1>7, <1>8, <1>9 DEF CatalogueInv

(* At first the menu is empty. *)
LEMMA InitCatalogue == CatalogueInit => CatalogueTypeOK /\ CatalogueInv
<1> SUFFICES ASSUME CatalogueInit PROVE CatalogueTypeOK /\ CatalogueInv
  OBVIOUS
<1>1. CatalogueTypeOK
  BY CatalogueAssumption DEF CatalogueInit, CatalogueTypeOK, NoItem, NoCallYet
<1>2. ShownItems = {} /\ LiveSections = {} /\ \A step \in {"createItem", "createSection"} : MenuCallsAt(step) = {}
  BY CatalogueAssumption
     DEF CatalogueInit, ShownItems, LiveSections, MenuCallsAt, NoItem, NoCallYet
<1>3. StockAgrees /\ SectionIsLive /\ NamesUnique
  BY <1>2 DEF CatalogueInit, StockAgrees, SectionIsLive, NamesUnique, NoItem, PickSection
<1>4. CapsHold
  BY <1>2, FS_EmptySet, CatalogueAssumption DEF CapsHold
<1> QED
  BY <1>1, <1>3, <1>4 DEF CatalogueInv

(* Every step keeps the menu so, *)
LEMMA StepCatalogue ==
    CatalogueTypeOK /\ CatalogueInv /\ [CatalogueNext]_catalogueVars => CatalogueTypeOK' /\ CatalogueInv'
<1> SUFFICES ASSUME CatalogueTypeOK, CatalogueInv, [CatalogueNext]_catalogueVars
             PROVE  CatalogueTypeOK' /\ CatalogueInv'
  OBVIOUS
<1>0. \A cat \in PickSection : cat \in Sections \cup {NoSection}
  BY DEF PickSection, LiveSections
<1>1. ASSUME NEW c \in MenuCalls, CreateItemRead(c) PROVE CatalogueTypeOK' /\ CatalogueInv'
  <2>1. PICK cat \in PickSection : MenuCallStarts(c, [at |-> "createItem", i |-> 0, cat |-> cat])
    BY <1>1 DEF CreateItemRead
  <2> QED
    BY <1>0, <1>1, <2>1, MenuCallSeesRoom DEF CreateItemRead
<1>2. ASSUME NEW c \in MenuCalls, UpdateItemRead(c) PROVE CatalogueTypeOK' /\ CatalogueInv'
  <2>1. PICK i \in ShownItems, cat \in PickSection :
          MenuCallStarts(c, [at |-> "updateItem", i |-> i, cat |-> cat])
    BY <1>2 DEF UpdateItemRead
  <2> QED
    BY <1>0, <2>1, MenuCallSeesRoom DEF ShownItems
<1>3. ASSUME NEW c \in MenuCalls, CreateSectionRead(c) PROVE CatalogueTypeOK' /\ CatalogueInv'
  BY <1>3, MenuCallSeesRoom DEF CreateSectionRead
<1>4. ASSUME NEW c \in MenuCalls, CreateItemWrite(c) \/ UpdateItemWrite(c) \/ CreateSectionWrite(c)
      PROVE  CatalogueTypeOK' /\ CatalogueInv'
  BY <1>4, CreateItemKeeps, UpdateItemKeeps, CreateSectionKeeps
<1>5. CASE SetItemStock \/ DeleteItem \/ RenameSection \/ DeleteSection
  BY <1>5, StockKeeps, DeleteItemKeeps, RenameSectionKeeps, DeleteSectionKeeps
<1>6. CASE UNCHANGED catalogueVars
  BY <1>6
     DEF catalogueVars, CatalogueTypeOK, CatalogueInv, StockAgrees, SectionIsLive, NamesUnique,
              CapsHold, ShownItems, LiveSections, PickSection, MenuCallsAt
<1> QED
  BY <1>1, <1>2, <1>3, <1>4, <1>5, <1>6 DEF CatalogueNext

(* and then what consumers see of it can be ordered. *)
LEMMA CatalogueInvImplies == CatalogueTypeOK /\ CatalogueInv => CatalogueSafe
<1> SUFFICES ASSUME CatalogueTypeOK, CatalogueInv PROVE CatalogueSafe
  OBVIOUS
<1>1. SellableAgrees
  BY DEF CatalogueInv, StockAgrees, SellableAgrees, Orderable, VendorPage, ShownItems
<1>2. PageHangsTogether
  BY DEF CatalogueInv, SectionIsLive, PageHangsTogether, VendorPage, ShownItems, PickSection
<1>3. CapsBounded
  BY Counted, CatalogueAssumption DEF CatalogueInv, CapsHold, CapsBounded
<1> QED
  BY <1>1, <1>2, <1>3 DEF CatalogueSafe, CatalogueInv

(* What an item, a section and a call hold is of its type. *)
THEOREM CatalogueIsTyped == CatalogueSpec => []CatalogueTypeOK
  BY InitCatalogue, StepCatalogue, PTL DEF CatalogueSpec

(* The vendor's page shows what can be ordered and sections that are       *)
(* there, and an INFORMAL vendor stays within its caps, but for the calls  *)
(* that overlap (CatalogueSafe).                                           *)
THEOREM CatalogueIsSafe == CatalogueSpec => []CatalogueSafe
  BY InitCatalogue, StepCatalogue, CatalogueInvImplies, PTL DEF CatalogueSpec

-----------------------------------------------------------------------------
(* Opening hours *)

(* The clock stays within the days, and its two readings within bounds. *)
LEMMA ClockTurns ==
    ASSUME NEW t \in 0..(24 * Days - 1)
    PROVE  /\ (t + 1) % (24 * Days) \in 0..(24 * Days - 1)
           /\ t \div 24 \in 0..(Days - 1) /\ t % 24 \in Hours
<1>1. Days \in 1..7
  BY StorefrontAssumption
<1> QED
  BY <1>1 DEF Hours

(* An hour typed with two digits sorts where it belongs; one typed with    *)
(* one digit sorts there too from 10 on.                                   *)
LEMMA TwoDigitsSort ==
    ASSUME NEW hour \in Hours, NEW digits \in {1, 2}, hour > 9 \/ digits = 2
    PROVE  SortsAs(hour, digits) = hour
  BY DEF SortsAs, Hours

(* Every step of the storefront keeps to the values. *)
LEMMA StepStorefrontType ==
    StorefrontTypeOK /\ [StorefrontNext]_storefrontVars => StorefrontTypeOK'
<1> SUFFICES ASSUME StorefrontTypeOK, [StorefrontNext]_storefrontVars PROVE StorefrontTypeOK'
  OBVIOUS
<1> USE DEF StorefrontTypeOK
<1>1. CASE SetAvailability
  BY <1>1 DEF SetAvailability
<1>2. CASE SetHours
  BY <1>2 DEF SetHours
<1>3. CASE StandingChanges
  BY <1>3 DEF StandingChanges
<1>4. CASE HourPasses
  BY <1>4, ClockTurns DEF HourPasses
<1>5. CASE UNCHANGED storefrontVars
  BY <1>5 DEF storefrontVars
<1> QED
  BY <1>1, <1>2, <1>3, <1>4, <1>5 DEF StorefrontNext

(* A vendor starts shut, without hours. *)
LEMMA InitStorefront == StorefrontInit => StorefrontTypeOK
<1>1. 24 * Days - 1 \in Nat
  BY StorefrontAssumption
<1> QED
  BY <1>1 DEF StorefrontInit, StorefrontTypeOK, NoHours

(* What the screens show follows from the types alone: the comparison of   *)
(* strings is that of the hours they stand for, if typed in full.          *)
LEMMA ShownRight == StorefrontTypeOK => StorefrontSafe
<1> SUFFICES ASSUME StorefrontTypeOK PROVE StorefrontSafe
  OBVIOUS
<1>1. OpenInItsHours
  <2> SUFFICES ASSUME storeType = "RESTAURANT", hours # NoHours, TypedInFull(Today)
               PROVE  ComputeIsOpenNow <=>
                        isOpen = 1 /\ Today # NoSlot /\ HourNow \in Covers(Today)
    BY DEF OpenInItsHours
  <2>1. Today \in [open : Hours, openDigits : {1, 2}, close : Hours, closeDigits : {1, 2}]
    <3>1. clock \div 24 \in 0..(Days - 1)
      BY ClockTurns DEF StorefrontTypeOK
    <3>2. NoSlot \in [open : Hours, openDigits : {1, 2}, close : Hours, closeDigits : {1, 2}]
      BY DEF NoSlot, Hours
    <3>3. hours[clock \div 24] \in Slots \cup {NoSlot}
      BY <3>1 DEF StorefrontTypeOK
    <3> QED
      BY <3>2, <3>3, StorefrontAssumption DEF Today
  <2>2. HourNow \in Hours
    BY ClockTurns DEF HourNow, StorefrontTypeOK
  <2>3. /\ SortsAs(Today.open, Today.openDigits) = Today.open
        /\ SortsAs(Today.close, Today.closeDigits) = Today.close
    BY <2>1, TwoDigitsSort DEF TypedInFull
  <2>4. HourNow \in Covers(Today) <=> Today.open <= HourNow /\ HourNow < Today.close
    BY <2>1, <2>2 DEF Covers, Hours
  <2>5. ComputeIsOpenNow <=>
          isOpen = 1 /\ Today # NoSlot /\ Today.open <= HourNow /\ HourNow < Today.close
    BY <2>3 DEF ComputeIsOpenNow
  <2> QED
    BY <2>4, <2>5
<1>2. ShownTakesOrders
  BY StorefrontAssumption
     DEF ShownTakesOrders, CardIsOpen, InCatalogue, TakesOrders, PageIsOpen, Plan,
         ComputeIsOpenNow
<1> QED
  BY <1>1, <1>2 DEF StorefrontSafe

(* The row, the hours and the clock keep to their values. *)
THEOREM StorefrontIsTyped == StorefrontSpec => []StorefrontTypeOK
  BY InitStorefront, StepStorefrontType, PTL DEF StorefrontSpec

(* For any hours that vendors set: open on the screen means open for       *)
(* orders, at the hours that were set and at no other.                     *)
THEOREM StorefrontIsSafe == StorefrontSpec => []StorefrontSafe
  BY StorefrontIsTyped, ShownRight, PTL

-----------------------------------------------------------------------------
(* The saved addresses *)

(* The calls that are going to insert a row. *)
NewCalls == {c \in AddressCalls : addressCall[c].at # "idle" /\ addressCall[c].row = NewRow}

(* One call at a time sets the default; by the time it writes, no other    *)
(* row is the default.                                                     *)
DefaultInv ==
    crowded = 0 =>
        /\ \A c, d \in AddressCalls :
              addressCall[c].asDefault = 1 /\ addressCall[d].asDefault = 1 => c = d
        /\ \A c \in AddressCalls :
              addressCall[c].at = "write" /\ addressCall[c].asDefault = 1
                 => Defaults \subseteq {addressCall[c].row}
        /\ \A a, b \in Defaults : a = b

(* What is saved and what is about to be. *)
CapInv == Cardinality(SavedRows) + Cardinality(NewCalls) <= MaxSaved + MaxAddressCalls - 1

-----------------------------------------------------------------------------
(* Types *)

(* A consumer without addresses is well typed. *)
LEMMA InitAddresses == AddressInit => AddressTypeOK
  BY DEF AddressInit, AddressTypeOK, AtEase, AddressStep

(* A call that starts knows its row. *)
LEMMA StartAddresses ==
    ASSUME AddressTypeOK, NEW c \in AddressCalls, NEW row \in AddressRows \cup {NewRow},
           AddressStarts(c, row)
    PROVE  AddressTypeOK'
  BY DEF AddressTypeOK, AddressStarts, AddressStep

(* Every step keeps the types. *)
LEMMA StepAddresses == AddressTypeOK /\ [AddressNext]_addressVars => AddressTypeOK'
<1> SUFFICES ASSUME AddressTypeOK, [AddressNext]_addressVars PROVE AddressTypeOK'
  OBVIOUS
<1>1. ASSUME NEW c \in AddressCalls, CreateAddress(c) \/ UpdateAddress(c) PROVE AddressTypeOK'
  BY <1>1, StartAddresses DEF CreateAddress, UpdateAddress, SavedRows
<1> USE DEF AddressTypeOK, AtEase, AddressStep
<1>2. ASSUME NEW c \in AddressCalls, DemoteOthers(c) \/ AddressFails(c) PROVE AddressTypeOK'
  BY <1>2 DEF DemoteOthers, AddressFails
<1>3. ASSUME NEW c \in AddressCalls, WriteAddress(c) PROVE AddressTypeOK'
  BY <1>3 DEF WriteAddress
<1>4. CASE DeleteAddress
  BY <1>4 DEF DeleteAddress
<1>5. CASE UNCHANGED addressVars
  BY <1>5 DEF addressVars
<1> QED
  BY <1>1, <1>2, <1>3, <1>4, <1>5 DEF AddressNext

(* The types, whatever the calls in progress do. *)
THEOREM AddressTypeAlways == AddressSpec => []AddressTypeOK
  BY InitAddresses, StepAddresses, PTL DEF AddressSpec

-----------------------------------------------------------------------------
(* One default *)

(* No call and no row sets the default at first. *)
LEMMA InitDefault == AddressInit => DefaultInv
  BY DEF AddressInit, DefaultInv, AtEase, Defaults

(* Every step keeps the default alone, or is crowded. *)
LEMMA StepDefault == AddressTypeOK /\ DefaultInv /\ [AddressNext]_addressVars => DefaultInv'
<1> SUFFICES ASSUME AddressTypeOK, DefaultInv, [AddressNext]_addressVars PROVE DefaultInv'
  OBVIOUS
<1> USE DEF AddressTypeOK, DefaultInv, Defaults, AtEase, AddressStep
<1>1. ASSUME NEW c \in AddressCalls, NEW row \in AddressRows \cup {NewRow}, AddressStarts(c, row)
      PROVE  DefaultInv'
  BY <1>1 DEF AddressStarts, Setting
<1>2. ASSUME NEW c \in AddressCalls, CreateAddress(c) \/ UpdateAddress(c) PROVE DefaultInv'
  BY <1>1, <1>2 DEF CreateAddress, UpdateAddress, SavedRows
<1>3. ASSUME NEW c \in AddressCalls, DemoteOthers(c) PROVE DefaultInv'
  BY <1>3 DEF DemoteOthers
<1>4. ASSUME NEW c \in AddressCalls, WriteAddress(c) PROVE DefaultInv'
  <2>1. CASE addressCall[c].row = NewRow
    <3>1. PICK a \in AddressRows :
            saved' = [saved EXCEPT ![a] = IF addressCall[c].asDefault = 1 THEN "default" ELSE "plain"]
      BY <1>4, <2>1 DEF WriteAddress
    <3>2. /\ addressCall[c].at = "write"
          /\ addressCall' = [addressCall EXCEPT ![c] = AtEase]
          /\ crowded' = crowded
      BY <1>4 DEF WriteAddress
    <3>3. CASE addressCall[c].asDefault = 1 /\ crowded = 0
      <4>1. Defaults = {}
        BY <2>1, <3>2, <3>3 DEF NewRow, AddressRows
      <4>2. Defaults' = {a}
        BY <3>1, <3>3, <4>1
      <4> QED
        BY <3>2, <3>3, <4>2
    <3>4. CASE addressCall[c].asDefault = 0
      <4>1. Defaults' \subseteq Defaults
        BY <3>1, <3>4
      <4> QED
        BY <3>2, <3>4, <4>1
    <3> QED
      BY <3>2, <3>3, <3>4
  <2>2. CASE addressCall[c].row # NewRow
    BY <1>4, <2>2 DEF WriteAddress
  <2> QED
    BY <2>1, <2>2
<1>5. ASSUME NEW c \in AddressCalls, AddressFails(c) PROVE DefaultInv'
  BY <1>5 DEF AddressFails
<1>6. CASE DeleteAddress
  BY <1>6 DEF DeleteAddress
<1>7. CASE UNCHANGED addressVars
  BY <1>7 DEF addressVars
<1> QED
  BY <1>2, <1>3, <1>4, <1>5, <1>6, <1>7 DEF AddressNext

-----------------------------------------------------------------------------
(* The cap *)

(* Sets of rows and of calls have a size. *)
LEMMA Sizes ==
    /\ IsFiniteSet(SavedRows) /\ Cardinality(SavedRows) \in Nat
    /\ IsFiniteSet(NewCalls) /\ Cardinality(NewCalls) \in Nat
    /\ Cardinality(NewCalls) <= MaxAddressCalls
<1>1. IsFiniteSet(AddressRows)
  BY AddressAssumption, FS_Interval DEF AddressRows
<1>2. IsFiniteSet(AddressCalls) /\ Cardinality(AddressCalls) = MaxAddressCalls
  BY AddressAssumption, FS_Interval DEF AddressCalls
<1>3. SavedRows \subseteq AddressRows /\ NewCalls \subseteq AddressCalls
  BY DEF SavedRows, NewCalls
<1> QED
  BY <1>1, <1>2, <1>3, FS_Subset, FS_CardinalityType

(* The same one step later. *)
LEMMA SizesNext ==
    /\ IsFiniteSet(SavedRows') /\ Cardinality(SavedRows') \in Nat
    /\ IsFiniteSet(NewCalls') /\ Cardinality(NewCalls') \in Nat
    /\ Cardinality(NewCalls') <= MaxAddressCalls
<1>1. IsFiniteSet(AddressRows)
  BY AddressAssumption, FS_Interval DEF AddressRows
<1>2. IsFiniteSet(AddressCalls) /\ Cardinality(AddressCalls) = MaxAddressCalls
  BY AddressAssumption, FS_Interval DEF AddressCalls
<1>3. SavedRows' \subseteq AddressRows /\ NewCalls' \subseteq AddressCalls
  BY DEF SavedRows, NewCalls
<1> QED
  BY <1>1, <1>2, <1>3, FS_Subset, FS_CardinalityType

(* Nothing is saved, or about to be, at first. *)
LEMMA InitCap == AddressInit => CapInv
<1> SUFFICES ASSUME AddressInit PROVE CapInv
  OBVIOUS
<1>1. SavedRows = {} /\ NewCalls = {}
  BY DEF AddressInit, SavedRows, NewCalls, AtEase
<1> QED
  BY <1>1, FS_EmptySet, AddressAssumption DEF CapInv

(* A step that adds neither a row nor an inserting call keeps the sum. *)
LEMMA Fewer ==
    ASSUME CapInv, SavedRows' \subseteq SavedRows, NewCalls' \subseteq NewCalls
    PROVE  CapInv'
<1>1. Cardinality(SavedRows') <= Cardinality(SavedRows)
  BY Sizes, FS_Subset
<1>2. Cardinality(NewCalls') <= Cardinality(NewCalls)
  BY Sizes, FS_Subset
<1> QED
  BY <1>1, <1>2, Sizes, SizesNext, AddressAssumption DEF CapInv

(* An insert turns one of the calls counted into a row. *)
LEMMA InsertKeepsCap ==
    ASSUME AddressTypeOK, CapInv, NEW c \in AddressCalls, WriteAddress(c),
           addressCall[c].row = NewRow
    PROVE  CapInv'
<1> USE DEF AddressTypeOK, AtEase, AddressStep
<1>1. PICK a \in AddressRows :
         /\ saved[a] = "none"
         /\ saved' = [saved EXCEPT ![a] = IF addressCall[c].asDefault = 1 THEN "default"
                                                                          ELSE "plain"]
  BY DEF WriteAddress
<1>2. SavedRows' = SavedRows \cup {a} /\ a \notin SavedRows
  BY <1>1 DEF SavedRows
<1>3. c \in NewCalls /\ NewCalls' = NewCalls \ {c}
  BY DEF WriteAddress, NewCalls
<1>4. Cardinality(SavedRows') = Cardinality(SavedRows) + 1
  BY <1>2, Sizes, FS_AddElement
<1>5. Cardinality(NewCalls') = Cardinality(NewCalls) - 1
  BY <1>3, Sizes, FS_RemoveElement
<1> QED
  BY <1>4, <1>5, Sizes, AddressAssumption DEF CapInv

(* Every step keeps what is saved, and about to be, in bounds. *)
LEMMA StepCap == AddressTypeOK /\ CapInv /\ [AddressNext]_addressVars => CapInv'
<1> SUFFICES ASSUME AddressTypeOK, CapInv, [AddressNext]_addressVars PROVE CapInv'
  OBVIOUS
<1> USE DEF AddressTypeOK, AtEase, AddressStep
<1>1. ASSUME NEW c \in AddressCalls, CreateAddress(c) PROVE CapInv'
  <2>1. SavedRows' = SavedRows
    BY <1>1 DEF CreateAddress, AddressStarts, SavedRows
  <2>2. Cardinality(SavedRows) < MaxSaved
    BY <1>1 DEF CreateAddress
  <2> QED
    BY <2>1, <2>2, Sizes, SizesNext, AddressAssumption DEF CapInv
<1>2. ASSUME NEW c \in AddressCalls, UpdateAddress(c) PROVE CapInv'
  <2>1. SavedRows' = SavedRows /\ NewCalls' \subseteq NewCalls
    BY <1>2 DEF UpdateAddress, AddressStarts, SavedRows, NewCalls, NewRow, AddressRows
  <2> QED
    BY <2>1, Fewer
<1>3. ASSUME NEW c \in AddressCalls, DemoteOthers(c) PROVE CapInv'
  <2>1. SavedRows' = SavedRows /\ NewCalls' \subseteq NewCalls
    BY <1>3 DEF DemoteOthers, SavedRows, NewCalls, Defaults
  <2> QED
    BY <2>1, Fewer
<1>4. ASSUME NEW c \in AddressCalls, WriteAddress(c), addressCall[c].row # NewRow PROVE CapInv'
  <2>1. SavedRows' \subseteq SavedRows /\ NewCalls' \subseteq NewCalls
    BY <1>4 DEF WriteAddress, SavedRows, NewCalls
  <2> QED
    BY <2>1, Fewer
<1>5. ASSUME NEW c \in AddressCalls, AddressFails(c) PROVE CapInv'
  <2>1. SavedRows' = SavedRows /\ NewCalls' \subseteq NewCalls
    BY <1>5 DEF AddressFails, SavedRows, NewCalls
  <2> QED
    BY <2>1, Fewer
<1>6. CASE DeleteAddress
  <2>1. SavedRows' \subseteq SavedRows /\ NewCalls' \subseteq NewCalls
    BY <1>6 DEF DeleteAddress, SavedRows, NewCalls
  <2> QED
    BY <2>1, Fewer
<1>7. CASE UNCHANGED addressVars
  <2>1. SavedRows' = SavedRows /\ NewCalls' = NewCalls
    BY <1>7 DEF addressVars, SavedRows, NewCalls
  <2> QED
    BY <2>1, Fewer
<1> QED
  BY <1>1, <1>2, <1>3, <1>4, <1>5, <1>6, <1>7, InsertKeepsCap DEF AddressNext

-----------------------------------------------------------------------------
(* create, update and delete of the addresses, from any number of devices: *)
(* one default unless two calls that set it overlapped, and the cap        *)
(* overshot by no more than the calls in progress.                         *)
THEOREM AddressesAlwaysSafe == AddressSpec => []AddressesSafe
<1>1. ASSUME DefaultInv, AddressTypeOK PROVE OneDefault
  <2> SUFFICES ASSUME crowded = 0 PROVE ~(Cardinality(Defaults) > 1)
    BY <1>1 DEF OneDefault, AddressTypeOK
  <2>1. CASE Defaults = {}
    BY <2>1, FS_EmptySet
  <2>2. ASSUME NEW a \in Defaults PROVE ~(Cardinality(Defaults) > 1)
    <3>1. Defaults = {a}
      BY <1>1, <2>2 DEF DefaultInv
    <3>2. Cardinality(Defaults) = 1
      BY <3>1, FS_Singleton
    <3> QED
      BY <3>2
  <2> QED
    BY <2>1, <2>2
<1>2. ASSUME CapInv PROVE SavedBounded
  BY <1>2, Sizes, AddressAssumption DEF CapInv, SavedBounded
<1> QED
  BY <1>1, <1>2, InitAddresses, StepAddresses, InitDefault, StepDefault, InitCap, StepCap, PTL
     DEF AddressSpec, AddressesSafe

-----------------------------------------------------------------------------
(* Notifications *)

Underway == {"queued", "push", "remove", "text", "sent"}

(* Until a mishap, the one message is the last thing a job does. *)
PingedLast ==
    \A n \in Notices : mishap[n] = 0 =>
        \/ pings[n] = 0
        \/ pings[n] = 1 /\ notice[n].at \in {"sent", "done"}

(* A job under way has a try left. *)
TriesLeft ==
    \A n \in Notices :
        /\ notice[n].at = "none" => notice[n].tries = 0
        /\ notice[n].at \in Underway => notice[n].tries < MaxAttempts
        /\ notice[n].at = "failed" => notice[n].tries \in {0, MaxAttempts}

(* While a push is out the row holds the endpoint it went to, or none,     *)
(* until the device subscribes anew; only a dead endpoint is to be removed.*)
ListedIsCurrent ==
    /\ \A n \in Notices : notice[n].at \in {"push", "remove"} => n = "vendorNewOrder"
    /\ LET job == notice["vendorNewOrder"] IN
         /\ job.at \in {"push", "remove"} /\ renewed = 0 => endpoint \in {0, job.listed}
         /\ job.at = "remove" => job.listed \in deadEnds

(* The invariant. *)
NoticeInv == PingedLast /\ TriesLeft /\ ListedIsCurrent /\ FreshIsKept

(* At first nothing is to be told. *)
LEMMA InitNotices == NotificationInit => NotificationTypeOK /\ NoticeInv
<1> SUFFICES ASSUME NotificationInit PROVE NotificationTypeOK /\ NoticeInv
  OBVIOUS
<1> USE NotificationAssumption DEF NotificationInit, Notices
<1>1. NotificationTypeOK
  BY DEF NotificationTypeOK, NoticeStep
<1>2. PingedLast
  BY DEF PingedLast
<1>3. TriesLeft
  BY DEF TriesLeft, Underway
<1>4. FreshIsKept
  BY DEF FreshIsKept
<1>5. ListedIsCurrent
  BY DEF ListedIsCurrent
<1> QED
  BY <1>1, <1>2, <1>3, <1>4, <1>5 DEF NoticeInv

(* The steps of a job, one at a time. *)
LEMMA StepJob ==
    ASSUME NotificationTypeOK, NoticeInv, NEW n \in Notices,
           \/ Enqueue(n) \/ ProcessVendor(n) \/ ProcessConsumer(n)
           \/ SendToUser(n) \/ DeactivateById(n) \/ SendWhatsApp(n) \/ NoPhone(n)
           \/ Completes(n) \/ NoticeStalls(n)
    PROVE  NotificationTypeOK' /\ NoticeInv'
<1> USE NotificationAssumption
    DEF NotificationTypeOK, NoticeInv, PingedLast, TriesLeft, ListedIsCurrent, FreshIsKept,
        Notices, NoticeStep, Underway, NoticeGoes, Pinged, pushRows, noticeGhosts
<1>1. CASE Enqueue(n)
  BY <1>1 DEF Enqueue
<1>2. CASE ProcessVendor(n)
  BY <1>2 DEF ProcessVendor
<1>3. CASE ProcessConsumer(n)
  BY <1>3 DEF ProcessConsumer
<1>4. CASE SendToUser(n)
  BY <1>4 DEF SendToUser
<1>5. CASE DeactivateById(n)
  BY <1>5 DEF DeactivateById
<1>6. CASE SendWhatsApp(n)
  BY <1>6 DEF SendWhatsApp, Throws
<1>7. CASE NoPhone(n)
  BY <1>7 DEF NoPhone
<1>8. CASE Completes(n)
  BY <1>8 DEF Completes
<1>9. CASE NoticeStalls(n)
  BY <1>9 DEF NoticeStalls
<1> QED
  BY <1>1, <1>2, <1>3, <1>4, <1>5, <1>6, <1>7, <1>8, <1>9

(* Every step keeps the invariant. *)
LEMMA StepNotices ==
    NotificationTypeOK /\ NoticeInv /\ [NotificationNext]_notificationVars
    => NotificationTypeOK' /\ NoticeInv'
<1> SUFFICES ASSUME NotificationTypeOK, NoticeInv, [NotificationNext]_notificationVars
             PROVE  NotificationTypeOK' /\ NoticeInv'
  OBVIOUS
<1> USE NotificationAssumption
    DEF NotificationTypeOK, NoticeInv, PingedLast, TriesLeft, ListedIsCurrent, FreshIsKept,
        Notices, noticeGhosts
<1>1. CASE Subscribe
  BY <1>1 DEF Subscribe, OutForPush
<1>2. CASE Unsubscribe
  BY <1>2 DEF Unsubscribe
<1>3. CASE EndpointRetires
  BY <1>3 DEF EndpointRetires
<1>4. CASE UNCHANGED notificationVars
  BY <1>4 DEF notificationVars, pushRows
<1> HIDE DEF NotificationTypeOK, NoticeInv
<1> QED
  BY <1>1, <1>2, <1>3, <1>4, StepJob DEF NotificationNext

(* A message that is sent reached its addressee once. *)
LEMMA NoticeInvImplies == NotificationTypeOK /\ NoticeInv => NotificationsSafe
  BY DEF NotificationTypeOK, NoticeInv, PingedLast, TriesLeft, NotificationsSafe,
         NeverDoublePinged, GivesUpLast

(* What a notification, its job and a subscription hold is of its type. *)
THEOREM NoticesAreTyped == NotificationSpec => []NotificationTypeOK
  BY InitNotices, StepNotices, PTL DEF NotificationSpec

(* A message is sent again only after it may have been lost, and a         *)
(* subscription goes when its endpoint is gone (NotificationsSafe).        *)
THEOREM NoticesAreSafe == NotificationSpec => []NotificationsSafe
  BY InitNotices, StepNotices, NoticeInvImplies, PTL DEF NotificationSpec

-----------------------------------------------------------------------------
(* Masked calls *)

(* The role of whoever is dialled. *)
RoleOfParty(p) == IF p \in Couriers THEN "rider" ELSE p

(* A call under which the order did not move on: the order is live, the    *)
(* caller is one of its parties, and is not whom he calls.                 *)
CallerChecked ==
    \A t \in Talks :
        (talk[t].at # "none" /\ talk[t].moved = 0) =>
            /\ leg = "live"
            /\ talk[t].by \in {"consumer", "vendor", courier} \ {NoCourier}
            /\ RoleOfParty(talk[t].by) # talk[t].to

(* A call that was put through reached whom it was to reach. *)
ReachedDialled ==
    \A t \in Talks :
        (talk[t].at = "talking" /\ talk[t].moved = 0) =>
            /\ talk[t].reached # NoCourier /\ talk[t].reached = DialledFor(talk[t].to)

(* The invariant. *)
VoiceInv == CallerChecked /\ ReachedDialled

(* At first nobody calls. *)
LEMMA InitVoice == VoiceInit => VoiceTypeOK /\ VoiceInv
  BY VoiceAssumption
     DEF VoiceInit, VoiceTypeOK, VoiceInv, CallerChecked, ReachedDialled, Silent, Targets

(* Once the order moves on, no call under way counts as checked. *)
LEMMA MovesMarks ==
    ASSUME VoiceTypeOK, Moves
    PROVE  /\ talk' \in [Talks -> [at : {"none", "ringing", "talking"},
                by : Couriers \cup Parties \cup {NoCourier}, to : Targets,
                reached : Couriers \cup Parties \cup {NoCourier}, moved : {0, 1}]]
           /\ \A t \in Talks : talk'[t].at # "none" => talk'[t].moved = 1
  BY DEF VoiceTypeOK, Moves

(* A call that starts. *)
LEMMA RingsChecked ==
    ASSUME VoiceTypeOK, VoiceInv, NEW t \in Talks, NEW by \in Couriers \cup Parties,
           NEW to \in Targets, Rings(t, by, to), leg = "live",
           by \in {"consumer", "vendor", courier} \ {NoCourier}, RoleOfParty(by) # to
    PROVE  VoiceTypeOK' /\ VoiceInv'
<1> DEFINE call == [Silent EXCEPT !.at = "ringing", !.by = by, !.to = to]
<1>1. /\ talk' = [talk EXCEPT ![t] = call] /\ leg' = leg /\ courier' = courier
  BY DEF Rings
<1>2. /\ call.at = "ringing" /\ call.by = by /\ call.to = to /\ call.moved = 0
      /\ call \in [at : {"none", "ringing", "talking"},
                by : Couriers \cup Parties \cup {NoCourier}, to : Targets,
                reached : Couriers \cup Parties \cup {NoCourier}, moved : {0, 1}]
  BY DEF Silent, Targets
<1> HIDE DEF call
<1>3. VoiceTypeOK'
  BY <1>1, <1>2 DEF VoiceTypeOK
<1>4. \A u \in Talks : talk'[u] = IF u = t THEN call ELSE talk[u]
  BY <1>1 DEF VoiceTypeOK
<1>5. CallerChecked'
  BY <1>1, <1>2, <1>4 DEF VoiceInv, CallerChecked
<1>6. ReachedDialled'
  BY <1>1, <1>2, <1>4 DEF VoiceInv, ReachedDialled, DialledFor
<1> QED
  BY <1>3, <1>5, <1>6 DEF VoiceInv

(* A call that ends, or was not put through. *)
LEMMA SilentAgain ==
    ASSUME VoiceTypeOK, VoiceInv, NEW t \in Talks, talk' = [talk EXCEPT ![t] = Silent],
           UNCHANGED <<leg, courier>>
    PROVE  VoiceTypeOK' /\ VoiceInv'
<1>1. /\ Silent.at = "none"
      /\ Silent \in [at : {"none", "ringing", "talking"},
                by : Couriers \cup Parties \cup {NoCourier}, to : Targets,
                reached : Couriers \cup Parties \cup {NoCourier}, moved : {0, 1}]
  BY VoiceAssumption DEF Silent, Targets
<1>2. VoiceTypeOK'
  BY <1>1 DEF VoiceTypeOK
<1>3. \A u \in Talks : talk'[u] = IF u = t THEN Silent ELSE talk[u]
  BY DEF VoiceTypeOK
<1>4. CallerChecked'
  BY <1>1, <1>3 DEF VoiceInv, CallerChecked
<1>5. ReachedDialled'
  BY <1>1, <1>3 DEF VoiceInv, ReachedDialled, DialledFor
<1> QED
  BY <1>2, <1>4, <1>5 DEF VoiceInv

(* Twilio fetches whom to dial. *)
LEMMA BridgeReaches ==
    ASSUME VoiceTypeOK, VoiceInv, NEW t \in Talks, BuildBridgeTwiml(t)
    PROVE  VoiceTypeOK' /\ VoiceInv'
<1> DEFINE who == DialledFor(talk[t].to)
           call == [talk[t] EXCEPT !.at = "talking", !.reached = who]
<1>1. CASE leg # "live" \/ who = NoCourier
  BY <1>1, SilentAgain DEF BuildBridgeTwiml
<1>2. CASE leg = "live" /\ who # NoCourier
  <2>1. /\ talk' = [talk EXCEPT ![t] = call] /\ leg' = leg /\ courier' = courier
        /\ talk[t].at = "ringing"
    BY <1>2 DEF BuildBridgeTwiml
  <2>2. talk[t].to \in Targets
    BY DEF VoiceTypeOK
  <2>3. who \in Couriers \cup Parties
    BY <1>2, <2>2, VoiceAssumption DEF DialledFor, VoiceTypeOK, Targets
  <2> HIDE DEF who
  <2>4. /\ call.at = "talking" /\ call.reached = who
        /\ call.by = talk[t].by /\ call.to = talk[t].to /\ call.moved = talk[t].moved
        /\ call \in [at : {"none", "ringing", "talking"},
                by : Couriers \cup Parties \cup {NoCourier}, to : Targets,
                reached : Couriers \cup Parties \cup {NoCourier}, moved : {0, 1}]
    BY <2>3 DEF VoiceTypeOK
  <2> HIDE DEF call
  <2>5. VoiceTypeOK'
    BY <2>1, <2>4 DEF VoiceTypeOK
  <2>6. \A u \in Talks : talk'[u] = IF u = t THEN call ELSE talk[u]
    BY <2>1 DEF VoiceTypeOK
  <2>7. CallerChecked'
    BY <2>1, <2>4, <2>6 DEF VoiceInv, CallerChecked
  <2>8. who = DialledFor(call.to)
    BY <2>4 DEF who
  <2>9. ReachedDialled'
    BY <1>2, <2>1, <2>4, <2>6, <2>8 DEF VoiceInv, ReachedDialled, DialledFor
  <2> QED
    BY <2>5, <2>7, <2>9 DEF VoiceInv
<1> QED
  BY <1>1, <1>2

(* Every step keeps to who may call whom, *)
LEMMA StepVoice ==
    VoiceTypeOK /\ VoiceInv /\ [VoiceNext]_voiceVars
      => VoiceTypeOK' /\ VoiceInv'
<1> SUFFICES ASSUME VoiceTypeOK, VoiceInv, [VoiceNext]_voiceVars PROVE VoiceTypeOK' /\ VoiceInv'
  OBVIOUS
<1>1. ASSUME NEW t \in Talks,
             \/ StartRiderToConsumer(t) \/ StartVendorToConsumer(t) \/ StartVendorToRider(t)
             \/ StartConsumerToVendor(t) \/ StartConsumerToRider(t)
      PROVE  VoiceTypeOK' /\ VoiceInv'
  <2>1. /\ leg = "live"
        /\ \E by \in Couriers \cup Parties, to \in Targets :
             /\ Rings(t, by, to) /\ RoleOfParty(by) # to
             /\ by \in {"consumer", "vendor", courier} \ {NoCourier}
    BY <1>1, VoiceAssumption
       DEF StartRiderToConsumer, StartVendorToConsumer, StartVendorToRider,
           StartConsumerToVendor, StartConsumerToRider, RequireOrderAssignedToRider,
           RequireOrderForVendor, RequireOrderForConsumer, RoleOfParty, Targets
  <2> QED
    BY <2>1, RingsChecked
<1>2. ASSUME NEW t \in Talks, BuildBridgeTwiml(t) PROVE VoiceTypeOK' /\ VoiceInv'
  BY <1>2, BridgeReaches
<1>3. ASSUME NEW t \in Talks, HangUp(t) PROVE VoiceTypeOK' /\ VoiceInv'
  BY <1>3, SilentAgain DEF HangUp
<1>4. CASE OrderAccepted \/ OrderEnds \/ CourierChanges
  <2>1. Moves
    BY <1>4 DEF OrderAccepted, OrderEnds, CourierChanges
  <2>2. leg' \in {"early", "live", "over"} /\ courier' \in Couriers \cup {NoCourier}
    BY <1>4 DEF OrderAccepted, OrderEnds, CourierChanges, VoiceTypeOK
  <2> QED
    BY <2>1, <2>2, MovesMarks DEF VoiceTypeOK, VoiceInv, CallerChecked, ReachedDialled
<1>5. CASE UNCHANGED voiceVars
  BY <1>5 DEF voiceVars, VoiceTypeOK, VoiceInv, CallerChecked, ReachedDialled, DialledFor
<1> QED
  BY <1>1, <1>2, <1>3, <1>4, <1>5 DEF VoiceNext

(* and whoever is connected is of the order. *)
LEMMA VoiceInvImplies == VoiceTypeOK /\ VoiceInv => PartiesOnly
<1> SUFFICES ASSUME VoiceTypeOK, VoiceInv, NEW t \in Talks,
                    talk[t].at = "talking", talk[t].moved = 0
             PROVE  /\ leg = "live" /\ talk[t].by # talk[t].reached
                    /\ {talk[t].by, talk[t].reached} \subseteq {"consumer", "vendor", courier}
  BY DEF PartiesOnly
<1>1. /\ leg = "live" /\ talk[t].by \in {"consumer", "vendor", courier} \ {NoCourier}
      /\ RoleOfParty(talk[t].by) # talk[t].to
      /\ talk[t].reached # NoCourier /\ talk[t].reached = DialledFor(talk[t].to)
  BY DEF VoiceInv, CallerChecked, ReachedDialled
<1>2. talk[t].to \in Targets /\ courier \in Couriers \cup {NoCourier}
  BY DEF VoiceTypeOK
<1> QED
  BY <1>1, <1>2, VoiceAssumption DEF DialledFor, RoleOfParty, Targets

(* What a call and its two legs hold is of its type. *)
THEOREM VoiceIsTyped == VoiceSpec => []VoiceTypeOK
  BY InitVoice, StepVoice, PTL DEF VoiceSpec

(* A masked call connects the parties of the order, and only them          *)
(* (PartiesOnly).                                                          *)
THEOREM VoiceIsSafe == VoiceSpec => []PartiesOnly
  BY InitVoice, StepVoice, VoiceInvImplies, PTL DEF VoiceSpec

-----------------------------------------------------------------------------
(* Dates of payout *)

(* An hour on the wall is an hour of a day of a week. *)
LEMMA WallReads ==
    ASSUME NEW wall \in Nat
    PROVE  \E k \in Nat, d \in 0..6, h \in 0..23 :
             /\ wall = 168 * k + 24 * d + h
             /\ HourOf(wall) = h /\ DayOf(wall) = d /\ Midnight(wall) = 168 * k + 24 * d
<1> DEFINE q == wall \div 24
           h == wall % 24
           k == q \div 7
           d == q % 7
<1>1. q \in Nat /\ h \in 0..23 /\ wall = 24 * q + h
  OBVIOUS
<1>2. HourOf(wall) = h /\ DayOf(wall) = d /\ Midnight(wall) = wall - h
  BY DEF HourOf, DayOf, Midnight
<1> HIDE DEF q, h
<1>3. k \in Nat /\ d \in 0..6 /\ q = 7 * k + d
  BY <1>1
<1> HIDE DEF k, d
<1> QED
  BY <1>1, <1>2, <1>3

(* The same decomposition, read backwards. *)
LEMMA WallIs ==
    ASSUME NEW k \in Int, NEW d \in 0..6, NEW h \in 0..23, 168 * k + 24 * d + h \in Nat
    PROVE  HourOf(168 * k + 24 * d + h) = h /\ DayOf(168 * k + 24 * d + h) = d
<1> DEFINE q == 7 * k + d
           wall == 168 * k + 24 * d + h
<1>1. q \in Int /\ wall = 24 * q + h /\ q % 7 = d
  OBVIOUS
<1> HIDE DEF q, wall
<1>2. wall % 24 = h /\ wall \div 24 = q
  BY <1>1
<1>3. HourOf(wall) = h /\ DayOf(wall) = d
  BY <1>1, <1>2 DEF HourOf, DayOf
<1> QED
  BY <1>3 DEF wall

(* The hour the payee is shown. *)
NextSweep(t) == IF payee = "VENDOR" THEN NextSundayAt02(t) ELSE NextMorningAt06(t)

(* nextMorningAt06DoualaUtc is the next hour at which the daily cron runs. *)
LEMMA MorningIsNext ==
    ASSUME NEW t \in Nat
    PROVE  /\ NextMorningAt06(t) \in Nat /\ t < NextMorningAt06(t)
           /\ HourOf(Douala(NextMorningAt06(t))) = 6
           /\ \A u \in Nat : t < u /\ u < NextMorningAt06(t) => HourOf(Douala(u)) # 6
<1> DEFINE wall == Douala(t)
           next == NextMorningAt06(t)
<1>1. wall \in Nat /\ wall = t + 1
  BY DEF Douala
<1>2. PICK q \in Nat, h \in 0..23 : wall = 24 * q + h /\ HourOf(wall) = h /\ Midnight(wall) = 24 * q
  <2>1. PICK k \in Nat, d \in 0..6, h \in 0..23 :
             /\ wall = 168 * k + 24 * d + h
             /\ HourOf(wall) = h /\ Midnight(wall) = 168 * k + 24 * d
    BY <1>1, WallReads
  <2>2. 7 * k + d \in Nat /\ 24 * (7 * k + d) = 168 * k + 24 * d
    OBVIOUS
  <2> QED
    BY <2>1, <2>2
<1>3. next = IF 6 <= h THEN 24 * q + 29 ELSE 24 * q + 5
  BY <1>1, <1>2 DEF NextMorningAt06
<1> HIDE DEF wall, next
<1>4. next \in Nat /\ t < next /\ (next + 1) % 24 = 6
  BY <1>1, <1>2, <1>3
<1>5. ASSUME NEW u \in Nat, t < u, u < next PROVE (u + 1) % 24 # 6
  BY <1>1, <1>2, <1>3, <1>5
<1> QED
  BY <1>4, <1>5 DEF HourOf, Douala, next

(* nextSundayAt02DoualaUtc is the next hour at which the weekly cron runs. *)
LEMMA SundayIsNext ==
    ASSUME NEW t \in Nat
    PROVE  /\ NextSundayAt02(t) \in Nat /\ t < NextSundayAt02(t)
           /\ DayOf(Douala(NextSundayAt02(t))) = 0 /\ HourOf(Douala(NextSundayAt02(t))) = 2
           /\ \A u \in Nat : t < u /\ u < NextSundayAt02(t) =>
                ~(DayOf(Douala(u)) = 0 /\ HourOf(Douala(u)) = 2)
<1> DEFINE wall == Douala(t)
           next == NextSundayAt02(t)
<1>1. wall \in Nat /\ wall = t + 1
  BY DEF Douala
<1>2. PICK k \in Nat, d \in 0..6, h \in 0..23 :
             /\ wall = 168 * k + 24 * d + h
             /\ HourOf(wall) = h /\ DayOf(wall) = d /\ Midnight(wall) = 168 * k + 24 * d
  BY <1>1, WallReads
<1>3. next = IF d = 0 /\ h < 2 THEN 168 * k + 1 ELSE 168 * k + 169
  BY <1>1, <1>2 DEF NextSundayAt02
<1> HIDE DEF wall, next
<1>4. next \in Nat /\ t < next
  BY <1>1, <1>2, <1>3
<1>5. DayOf(next + 1) = 0 /\ HourOf(next + 1) = 2
  BY <1>3, WallIs DEF DayOf, HourOf
<1>6. ASSUME NEW u \in Nat, t < u, u < next PROVE ~(DayOf(u + 1) = 0 /\ HourOf(u + 1) = 2)
  <2>1. PICK j \in Nat, e \in 0..6, g \in 0..23 :
             u + 1 = 168 * j + 24 * e + g /\ HourOf(u + 1) = g /\ DayOf(u + 1) = e
    <3>1. u + 1 \in Nat
      OBVIOUS
    <3> QED
      BY <3>1, WallReads
  <2> QED
    BY <1>1, <1>2, <1>3, <1>6, <2>1
<1> QED
  BY <1>4, <1>5, <1>6 DEF Douala, next

(* What the payee is shown is the next run of its own cron. *)
LEMMA NextIsNext ==
    ASSUME DatesTypeOK, NEW t \in Nat
    PROVE  /\ NextSweep(t) \in Nat /\ t < NextSweep(t) /\ CronIsDue(NextSweep(t))
           /\ \A u \in Nat : t < u /\ u < NextSweep(t) => ~CronIsDue(u)
  BY MorningIsNext, SundayIsNext DEF NextSweep, CronIsDue, DatesTypeOK

(* The date shown is that of the sweep after the look, which is the last   *)
(* one so far until that date comes.                                       *)
DatesInv ==
    /\ swept <= utc
    /\ seenAt # Never =>
         /\ seenAt <= utc /\ estimate = NextSweep(seenAt)
         /\ utc < estimate => swept <= seenAt
         /\ utc = estimate => swept = utc

(* At first no date is shown. *)
LEMMA InitDates == DatesInit => DatesTypeOK /\ DatesInv
  BY HorizonAssumption DEF DatesInit, DatesTypeOK, DatesInv, Never

(* Every step keeps the date shown ahead of the next sweep. *)
LEMMA StepDates ==
    DatesTypeOK /\ DatesInv /\ [DatesNext]_dateVars
      => DatesTypeOK' /\ DatesInv'
<1> SUFFICES ASSUME DatesTypeOK, DatesInv, [DatesNext]_dateVars PROVE DatesTypeOK' /\ DatesInv'
  OBVIOUS
<1>1. /\ utc \in Nat /\ Horizon \in Nat /\ swept \in Nat \cup {-1} /\ seenAt \in Nat \cup {-1}
      /\ estimate \in Int
  BY HorizonAssumption DEF DatesTypeOK, Never
<1>2. CASE LookAtBalance
  <2>1. /\ seenAt' = utc /\ estimate' = NextSweep(utc) /\ NextSweep(utc) \in Nat
        /\ utc < NextSweep(utc) /\ UNCHANGED <<utc, payee, swept>>
    BY <1>1, <1>2, NextIsNext DEF LookAtBalance, NextSweep
  <2>2. DatesTypeOK'
    BY <2>1 DEF DatesTypeOK
  <2>3. NextSweep(utc)' = NextSweep(utc)
    BY <2>1 DEF NextSweep
  <2>4. DatesInv'
    BY <1>1, <2>1, <2>3 DEF DatesInv, NextSweep
  <2> QED
    BY <2>2, <2>4
<1>3. CASE HourStrikes
  <2>1. /\ utc' = utc + 1 /\ utc < Horizon
        /\ swept' = IF CronIsDue(utc + 1) THEN utc + 1 ELSE swept
        /\ UNCHANGED <<payee, seenAt, estimate>>
    BY <1>3 DEF HourStrikes
  <2>2. DatesTypeOK'
    BY <1>1, <2>1 DEF DatesTypeOK, Never
  <2>3. NextSweep(seenAt)' = NextSweep(seenAt)
    BY <2>1 DEF NextSweep
  <2>4. seenAt # Never => /\ seenAt \in Nat /\ CronIsDue(NextSweep(seenAt))
                          /\ \A u \in Nat : seenAt < u /\ u < NextSweep(seenAt) => ~CronIsDue(u)
    BY <1>1, NextIsNext DEF Never
  <2> HIDE DEF NextSweep
  <2>5. DatesInv'
    BY <1>1, <2>1, <2>3, <2>4 DEF DatesInv, Never
  <2> QED
    BY <2>2, <2>5
<1>4. CASE UNCHANGED dateVars
  BY <1>4 DEF dateVars, DatesTypeOK, DatesInv, NextSweep
<1> QED
  BY <1>2, <1>3, <1>4 DEF DatesNext

(* A time and an estimate are times. *)
THEOREM DatesAreTyped == DatesSpec => []DatesTypeOK
  BY InitDates, StepDates, PTL DEF DatesSpec

(* The estimate that a payee sees is the time of the next sweep, whenever  *)
(* it is asked for (EstimateIsNextSweep).                                  *)
THEOREM EstimateIsNext == DatesSpec => []EstimateIsNextSweep
<1>1. DatesTypeOK /\ DatesInv => EstimateIsNextSweep
  <2> SUFFICES ASSUME DatesTypeOK, DatesInv, seenAt # Never PROVE seenAt < estimate
    BY DEF EstimateIsNextSweep, DatesInv
  <2>1. seenAt \in Nat /\ estimate = NextSweep(seenAt)
    BY HorizonAssumption DEF DatesTypeOK, DatesInv
  <2> QED
    BY <2>1, NextIsNext
<1> QED
  BY InitDates, StepDates, <1>1, PTL DEF DatesSpec

-----------------------------------------------------------------------------
(* The float *)

(* Types, without the model's bounds. *)
FloatTyped ==
    /\ float \in Int
    /\ fsweep \in [Sweeps -> [at : FloatStep, back : FloatStep, todo : SUBSET FloatRows,
                              row : FloatRows \cup {0}, left : Int]]
    /\ spent \in [Sweeps -> Nat]

(* A row in transfer was within what was left when it was taken up. *)
TakenInv ==
    \A s \in Sweeps :
        AtStep(s, "transfer") => /\ fsweep[s].row \in FloatRows
                                 /\ fsweep[s].back \in {"vendor", "rider"}
                                 /\ NetXAF[fsweep[s].row] <= fsweep[s].left

FloatInv == FloatIsCounted /\ TakenInv /\ NoNeedlessBounce

(* The row taken up next is one of those left. *)
LEMMA NextRow == ASSUME NEW T, T \subseteq Nat, T # {} PROVE Min(T) \in T
<1>1. \E x \in T : \A y \in T : ~ (<<y, x>> \in OpToRel(<, Nat))
  BY NatLessThanWellFounded, WFMin
<1>2. ASSUME NEW x \in T, NEW y \in T, <<y, x>> \notin OpToRel(<, Nat) PROVE x <= y
  <2>1. <<y, x>> \in Nat \X Nat
    OBVIOUS
  <2>2. ~(y < x)
    BY <1>2, <2>1 DEF OpToRel
  <2> QED
    BY <2>2
<1>3. \E x \in T : \A y \in T : x <= y
  BY <1>1, <1>2
<1> QED
  BY <1>3 DEF Min

-----------------------------------------------------------------------------
(* Every sweep rests, and nothing has bounced, at first. *)
LEMMA InitFloat == FloatInit => FloatTyped /\ FloatInv
  BY FloatAssumption
     DEF FloatInit, FloatTyped, FloatInv, FloatIsCounted, TakenInv, NoNeedlessBounce, AtStep,
         Resting, FloatStep

(* Money that leaves is unseen by every sweep under way but those in S. *)
LEMMA LeavesUnseen ==
    ASSUME FloatTyped, NEW xaf \in Nat, NEW S, Leaves(xaf, S)
    PROVE  /\ float' \in Int /\ float' = float - xaf
           /\ spent' \in [Sweeps -> Nat]
           /\ \A s \in Sweeps : s \notin S /\ ~AtStep(s, "idle") => spent'[s] = spent[s] + xaf
           /\ \A s \in Sweeps : s \in S \/ AtStep(s, "idle") => spent'[s] = spent[s]
  BY DEF Leaves, FloatTyped

(* A transfer that left leaves the sweep's own count right. *)
LEMMA InitiatedFloat ==
    ASSUME FloatTyped, FloatInv, NEW s \in Sweeps, Initiated(s)
    PROVE  FloatTyped' /\ FloatInv'
<1> DEFINE r == fsweep[s].row
<1>1. r \in FloatRows /\ NetXAF[r] \in Nat /\ fsweep[s].back \in {"vendor", "rider"}
  BY FloatAssumption DEF FloatInv, TakenInv, Initiated
<1>2. /\ float' \in Int /\ float' = float - NetXAF[r]
      /\ spent' \in [Sweeps -> Nat]
      /\ \A q \in Sweeps : q # s /\ ~AtStep(q, "idle") => spent'[q] = spent[q] + NetXAF[r]
      /\ spent'[s] = spent[s]
  BY <1>1, LeavesUnseen DEF Initiated
<1>3. /\ AtStep(s, "transfer") /\ bounced' = bounced
      /\ fsweep' = [fsweep EXCEPT ![s].at = fsweep[s].back, ![s].back = "idle",
                                  ![s].row = 0, ![s].left = @ - NetXAF[r]]
  BY DEF Initiated
<1> USE DEF FloatTyped, FloatStep
<1>4. FloatTyped'
  BY <1>1, <1>2, <1>3
<1>5. FloatIsCounted'
  BY <1>1, <1>2, <1>3 DEF FloatInv, FloatIsCounted, AtStep
<1>6. TakenInv'
  BY <1>1, <1>2, <1>3 DEF FloatInv, TakenInv, AtStep
<1> QED
  BY <1>3, <1>4, <1>5, <1>6 DEF FloatInv, NoNeedlessBounce

(* A transfer that failed was refused although the money was there, or was *)
(* taken unseen, or some money had left unseen before.                     *)
LEMMA FailedFloat ==
    ASSUME FloatTyped, FloatInv, NEW s \in Sweeps, Failed(s)
    PROVE  FloatTyped' /\ FloatInv'
<1> DEFINE r == fsweep[s].row
<1>1. /\ AtStep(s, "transfer")
      /\ r \in FloatRows /\ NetXAF[r] \in Nat /\ fsweep[s].back \in {"vendor", "rider"}
      /\ NetXAF[r] <= fsweep[s].left
  BY FloatAssumption DEF FloatInv, TakenInv, Failed
<1>2. fsweep' = [fsweep EXCEPT ![s].at = fsweep[s].back, ![s].back = "idle", ![s].row = 0]
  BY DEF Failed
<1> USE DEF FloatTyped, FloatStep
<1>3. CASE Leaves(NetXAF[r], {}) /\ bounced' = bounced
  <2>1. /\ float' \in Int /\ float' = float - NetXAF[r]
        /\ spent' \in [Sweeps -> Nat]
        /\ \A q \in Sweeps : ~AtStep(q, "idle") => spent'[q] = spent[q] + NetXAF[r]
    BY <1>1, <1>3, LeavesUnseen
  <2>2. FloatIsCounted'
    BY <1>1, <1>2, <2>1 DEF FloatInv, FloatIsCounted, AtStep
  <2> QED
    BY <1>1, <1>2, <1>3, <2>1, <2>2 DEF FloatInv, TakenInv, AtStep, NoNeedlessBounce
<1>4. CASE UNCHANGED <<float, spent>>
  <2>1. bounced' = bounced
    <3>1. NetXAF[r] > float => spent[s] # 0
      BY <1>1 DEF FloatInv, FloatIsCounted, AtStep
    <3> QED
      BY <1>1, <1>4, <3>1 DEF Failed
  <2>2. FloatIsCounted'
    BY <1>1, <1>2, <1>4 DEF FloatInv, FloatIsCounted, AtStep
  <2> QED
    BY <1>1, <1>2, <1>4, <2>1, <2>2 DEF FloatInv, TakenInv, AtStep, NoNeedlessBounce
<1> QED
  BY <1>3, <1>4 DEF Failed

(* The other steps of a sweep: it counts from the balance it read, and     *)
(* takes a row up only within what is left.                                *)
LEMMA SweepFloat ==
    ASSUME FloatTyped, FloatInv, NEW s \in Sweeps,
           GetBalance(s) \/ TakeRows(s) \/ TakeRow(s) \/ RowsDone(s)
    PROVE  FloatTyped' /\ FloatInv'
<1> USE FloatAssumption
    DEF FloatTyped, FloatInv, FloatIsCounted, TakenInv, NoNeedlessBounce, AtStep, FloatStep
<1>1. CASE GetBalance(s)
  <2>1. fsweep'[s] = [fsweep[s] EXCEPT !.at = "vendors", !.left = float]
    BY <1>1 DEF GetBalance
  <2>2. fsweep'[s] \in [at : FloatStep, back : FloatStep, todo : SUBSET FloatRows,
                        row : FloatRows \cup {0}, left : Int]
    BY <2>1
  <2>3. FloatTyped' /\ NoNeedlessBounce'
    BY <1>1, <2>2 DEF GetBalance
  <2>4. FloatIsCounted'
    BY <1>1 DEF GetBalance
  <2>5. TakenInv'
    BY <1>1 DEF GetBalance
  <2> QED
    BY <2>3, <2>4, <2>5
<1>2. CASE TakeRows(s)
  BY <1>2 DEF TakeRows, PendingOf, FloatRows
<1>3. CASE TakeRow(s)
  <2>1. Min(fsweep[s].todo) \in fsweep[s].todo
    BY <1>3, NextRow DEF TakeRow
  <2> QED
    BY <1>3, <2>1 DEF TakeRow
<1>4. CASE AtStep(s, "vendor") /\ RowsDone(s)
  BY <1>4 DEF RowsDone
<1>5. CASE AtStep(s, "rider") /\ RowsDone(s)
  <2>1. /\ fsweep' = [fsweep EXCEPT ![s] = Resting]
        /\ spent' = [spent EXCEPT ![s] = 0]
        /\ UNCHANGED <<float, bounced>>
    BY <1>5 DEF RowsDone
  <2>2. Resting \in [at : FloatStep, back : FloatStep, todo : SUBSET FloatRows,
                     row : FloatRows \cup {0}, left : Int]
    BY DEF Resting
  <2>3. FloatTyped' /\ NoNeedlessBounce'
    BY <2>1, <2>2
  <2>4. FloatIsCounted'
    BY <2>1 DEF Resting
  <2>5. TakenInv'
    BY <2>1 DEF Resting
  <2> QED
    BY <2>3, <2>4, <2>5
<1> QED
  BY <1>1, <1>2, <1>3, <1>4, <1>5 DEF RowsDone

(* Every step keeps the count. *)
LEMMA StepFloat ==
    FloatTyped /\ FloatInv /\ [FloatNext]_floatVars
      => FloatTyped' /\ FloatInv'
<1> SUFFICES ASSUME FloatTyped, FloatInv, [FloatNext]_floatVars PROVE FloatTyped' /\ FloatInv'
  OBVIOUS
<1>1. ASSUME NEW s \in Sweeps, FloatSweep(s) PROVE FloatTyped' /\ FloatInv'
  BY <1>1, SweepFloat, InitiatedFloat, FailedFloat DEF FloatSweep
<1> USE DEF FloatInv, FloatIsCounted, TakenInv, NoNeedlessBounce, AtStep
<1>2. CASE OthersSpend
  <2>1. /\ float' \in Int /\ float' = float - 1
        /\ spent' \in [Sweeps -> Nat]
        /\ \A q \in Sweeps : ~AtStep(q, "idle") => spent'[q] = spent[q] + 1
    BY <1>2, LeavesUnseen DEF OthersSpend
  <2> QED
    BY <1>2, <2>1 DEF OthersSpend, FloatTyped
<1>3. CASE CollectArrives
  BY <1>3 DEF CollectArrives, FloatTyped
<1>4. CASE FloatRetry
  BY <1>4 DEF FloatRetry, FloatTyped
<1>5. CASE UNCHANGED floatVars
  BY <1>5 DEF floatVars, FloatTyped
<1> QED
  BY <1>1, <1>2, <1>3, <1>4, <1>5 DEF FloatNext

(* The bounds that the actions keep to, and the rows. *)
FloatBounded ==
    /\ float \in 0..MaxFloat /\ spent \in [Sweeps -> 0..MaxUnseen] /\ bounced \in {0, 1}
    /\ due \in [FloatRows -> {"PENDING", "IN_FLIGHT", "FAILED"}]

(* Money leaves within the bounds. *)
LEMMA LeavesBounded ==
    ASSUME FloatBounded, NEW xaf \in Nat, NEW S, xaf <= float, Leaves(xaf, S)
    PROVE  float' \in 0..MaxFloat /\ spent' \in [Sweeps -> 0..MaxUnseen]
<1>1. float' \in 0..MaxFloat
  BY FloatAssumption DEF FloatBounded, Leaves
<1>2. \A s \in Sweeps : spent'[s] \in 0..MaxUnseen
  BY FloatAssumption DEF FloatBounded, Leaves
<1>3. spent' = [s \in Sweeps |-> spent'[s]]
  BY DEF Leaves
<1> QED
  BY <1>1, <1>2, <1>3

(* Every step keeps to the bounds. *)
LEMMA StepFloatBounded ==
    FloatTyped /\ FloatInv /\ FloatBounded /\ [FloatNext]_floatVars => FloatBounded'
<1> SUFFICES ASSUME FloatTyped, FloatInv, FloatBounded, [FloatNext]_floatVars
             PROVE  FloatBounded'
  OBVIOUS
<1>1. ASSUME NEW s \in Sweeps, Initiated(s) \/ Failed(s) PROVE FloatBounded'
  <2> DEFINE xaf == NetXAF[fsweep[s].row]
  <2>1. fsweep[s].row \in FloatRows /\ xaf \in Nat
    BY <1>1, FloatAssumption DEF Initiated, Failed, FloatInv, TakenInv
  <2> HIDE DEF xaf
  <2>2. \/ \E S : xaf <= float /\ Leaves(xaf, S)
        \/ UNCHANGED <<float, spent>>
    BY <1>1 DEF Initiated, Failed, xaf
  <2>3. float' \in 0..MaxFloat /\ spent' \in [Sweeps -> 0..MaxUnseen]
    BY <2>1, <2>2, LeavesBounded DEF FloatBounded
  <2> QED
    BY <1>1, <2>1, <2>3 DEF FloatBounded, Initiated, Failed
<1>2. ASSUME NEW s \in Sweeps, GetBalance(s) \/ TakeRows(s) \/ TakeRow(s) PROVE FloatBounded'
  BY <1>2 DEF FloatBounded, GetBalance, TakeRows, TakeRow
<1>3. ASSUME NEW s \in Sweeps, RowsDone(s) PROVE FloatBounded'
  BY <1>3, FloatAssumption DEF FloatBounded, RowsDone
<1>4. CASE OthersSpend
  BY <1>4, LeavesBounded DEF FloatBounded, OthersSpend
<1>5. CASE CollectArrives
  BY <1>5, FloatAssumption DEF FloatBounded, CollectArrives
<1>6. CASE FloatRetry
  BY <1>6 DEF FloatBounded, FloatRetry
<1>7. CASE UNCHANGED floatVars
  BY <1>7 DEF FloatBounded, floatVars
<1> QED
  BY <1>1, <1>2, <1>3, <1>4, <1>5, <1>6, <1>7 DEF FloatNext, FloatSweep

(* The balance, the rows and the sweeps keep to their values. *)
THEOREM FloatIsTyped == FloatSpec => []FloatTypeOK
<1>1. FloatInit => FloatBounded
  BY FloatAssumption DEF FloatInit, FloatBounded
<1>2. FloatTyped /\ FloatBounded => FloatTypeOK
  BY DEF FloatTyped, FloatBounded, FloatTypeOK
<1> QED
  BY InitFloat, StepFloat, <1>1, StepFloatBounded, <1>2, PTL DEF FloatSpec

(* sweepPendingTransfers never counts on money that is not there, and has  *)
(* a transfer refused for want of float only when something left unseen.   *)
THEOREM FloatAlwaysSafe == FloatSpec => []FloatSafe
<1>1. FloatInv => FloatSafe
  BY DEF FloatInv, FloatSafe
<1> QED
  BY InitFloat, StepFloat, <1>1, PTL DEF FloatSpec

-----------------------------------------------------------------------------
(* The parts together *)

(* Whichever part of the shop moves, each part goes its own way.            *)
LEMMA ShopPartsRun ==
    /\ ShopSpec => OrderingSpec
    /\ ShopSpec => CatalogueSpec
    /\ ShopSpec => StorefrontSpec
    /\ ShopSpec => AddressSpec
    /\ ShopSpec => NotificationSpec
    /\ ShopSpec => VoiceSpec
    /\ ShopSpec => CashoutSpec
    /\ ShopSpec => DatesSpec
    /\ ShopSpec => FloatSpec
<1>1. ShopInit => /\ OrderingInit /\ CatalogueInit /\ StorefrontInit /\ AddressInit
                  /\ NotificationInit /\ VoiceInit /\ CashoutInit /\ DatesInit /\ FloatInit
  BY DEF ShopInit
<1>2. [ShopNext]_shopVars => /\ [OrderingNext]_orderingVars
                            /\ [CatalogueNext]_catalogueVars
                            /\ [StorefrontNext]_storefrontVars
                            /\ [AddressNext]_addressVars
                            /\ [NotificationNext]_notificationVars
                            /\ [VoiceNext]_voiceVars
                            /\ [CashoutNext]_cashoutVars
                            /\ [DatesNext]_dateVars
                            /\ [FloatNext]_floatVars
  BY DEF ShopNext, shopVars
<1> QED
  BY <1>1, <1>2, PTL DEF ShopSpec, OrderingSpec, CatalogueSpec, StorefrontSpec, AddressSpec,
                         NotificationSpec, VoiceSpec, CashoutSpec, DatesSpec, FloatSpec

(* The part that moves keeps to its values.                                *)
THEOREM ShopIsTyped == ShopSpec => []ShopTypeOK
<1>1. /\ OrderingTypeOK /\ CatalogueTypeOK /\ StorefrontTypeOK /\ AddressTypeOK
      /\ NotificationTypeOK /\ VoiceTypeOK /\ CashoutTypeOK /\ DatesTypeOK /\ FloatTypeOK
      => ShopTypeOK
  BY DEF ShopTypeOK
<1> QED
  BY <1>1, ShopPartsRun, OrderingIsTyped, CatalogueIsTyped, StorefrontIsTyped,
     AddressTypeAlways,
     NoticesAreTyped, VoiceIsTyped, CashoutsAreTyped, DatesAreTyped, FloatIsTyped, PTL

(* What consumers see of a vendor can be ordered, its menu and its hours.  *)
THEOREM ShopfrontIsSafe == ShopSpec => []ShopfrontSafe
<1>1. CatalogueSafe /\ StorefrontSafe => ShopfrontSafe
  BY DEF ShopfrontSafe
<1> QED
  BY <1>1, ShopPartsRun, CatalogueIsSafe, StorefrontIsSafe, PTL

(* A message reaches its addressee once, a masked call only the parties of *)
(* the order.                                                              *)
THEOREM ContactIsSafe == ShopSpec => []ContactSafe
<1>1. NotificationsSafe /\ PartiesOnly => ContactSafe
  BY DEF ContactSafe
<1> QED
  BY <1>1, ShopPartsRun, NoticesAreSafe, VoiceIsSafe, PTL

(* Payees are paid what they are owed, when they were told, and from a     *)
(* float that is there.                                                    *)
THEOREM PayoutsAreSafe == ShopSpec => []PayoutsSafe
<1>1. CashoutsSafe /\ EstimateIsNextSweep /\ FloatSafe => PayoutsSafe
  BY DEF PayoutsSafe
<1> QED
  BY <1>1, ShopPartsRun, CashoutsAreSafe, EstimateIsNext, FloatAlwaysSafe, PTL
=============================================================================
