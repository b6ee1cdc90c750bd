------------------------------ MODULE Catalogue ------------------------------
(***************************************************************************)
(* MenuService for one vendor, who edits the menu from several devices,    *)
(* and what BrowseService shows of it.                                     *)
(***************************************************************************)
EXTENDS Naturals, FiniteSets

CONSTANTS
    VendorTypes,    \* INFORMAL or RESTAURANT vendors (a model bound)
    StockLevel,     \* IN_STOCK, LOW_STOCK, OUT_OF_STOCK (a model bound)
    SectionNames,   \* the names that categories are given
    MaxItems,       \* items ever created (a model bound)
    MaxSections,    \* categories ever created (a model bound)
    MaxMenuCalls,   \* calls in progress at once (a model bound)
    ItemCap,        \* INFORMAL_MAX_ITEMS
    SectionCap      \* INFORMAL_MAX_CATEGORIES

ASSUME CatalogueAssumption ==
    /\ StockLevel \subseteq {"IN_STOCK", "LOW_STOCK", "OUT_OF_STOCK"}
    /\ "OUT_OF_STOCK" \in StockLevel
    /\ SectionNames \cap {"none", "deleted"} = {}
    /\ VendorTypes \subseteq {"INFORMAL", "RESTAURANT"}
    /\ MaxItems \in Nat /\ MaxSections \in Nat /\ MaxMenuCalls \in Nat \ {0}
    /\ ItemCap \in Nat \ {0} /\ SectionCap \in Nat \ {0}

VARIABLES
    vendorType,  \* INFORMAL or RESTAURANT (Vendor.type)
    item,        \* each Item: is it there, its stock level, isInStock, its category
    section,     \* each MenuCategory: its name, none before and deleted after
    menuCall     \* the calls that read first and write later

catalogueVars == <<vendorType, item, section, menuCall>>

Items == 1..MaxItems
Sections == 1..MaxSections
MenuCalls == 1..MaxMenuCalls
NoSection == 0

ShownItems == {i \in Items : item[i].there = "yes"}
LiveSections == {s \in Sections : section[s] \in SectionNames}

NoItem == [there |-> "no", level |-> "OUT_OF_STOCK", inStock |-> 0, cat |-> NoSection]
NoCallYet == [at |-> "idle", i |-> 0, cat |-> NoSection]

CatalogueTypeOK ==
    /\ vendorType \in VendorTypes
    /\ item \in [Items -> [there : {"no", "yes", "deleted"}, level : StockLevel,
                           inStock : {0, 1}, cat : Sections \cup {NoSection}]]
    /\ section \in [Sections -> SectionNames \cup {"none", "deleted"}]
    /\ menuCall \in [MenuCalls -> [at : {"idle", "createItem", "updateItem", "createSection"},
                                   i : Items \cup {0}, cat : Sections \cup {NoSection}]]

CatalogueInit ==
    /\ vendorType \in VendorTypes
    /\ item = [i \in Items |-> NoItem]
    /\ section = [s \in Sections |-> "none"]
    /\ menuCall = [c \in MenuCalls |-> NoCallYet]

-----------------------------------------------------------------------------
MenuCallStarts(c, call) ==
    /\ menuCall[c] = NoCallYet /\ \A d \in 1..(c - 1) : menuCall[d] # NoCallYet
    /\ menuCall' = [menuCall EXCEPT ![c] = call]
    /\ UNCHANGED <<vendorType, item, section>>
MenuCallEnds(c) == menuCall' = [menuCall EXCEPT ![c] = NoCallYet]

(* requireCategoryBelongsTo, for an item that names a category. *)
PickSection == LiveSections \cup {NoSection}

(* createItem: the cap of an informal vendor, and the category. *)
CreateItemRead(c) ==
    /\ vendorType = "INFORMAL" => Cardinality(ShownItems) < ItemCap
    /\ \E cat \in PickSection :
         MenuCallStarts(c, [at |-> "createItem", i |-> 0, cat |-> cat])

InStockOf(level) == IF level = "OUT_OF_STOCK" THEN 0 ELSE 1

(* The foreign key refuses a category deleted meanwhile. *)
CreateItemWrite(c) ==
    LET cat == menuCall[c].cat IN
    /\ menuCall[c].at = "createItem"
    /\ \/ /\ cat \in PickSection
          /\ \E i \in Items, level \in StockLevel :
               /\ item[i].there = "no" /\ \A j \in 1..(i - 1) : item[j].there # "no"
               /\ item' = [item EXCEPT ![i] = [there |-> "yes", level |-> level,
                              inStock |-> InStockOf(level), cat |-> cat]]
       \/ cat \notin PickSection /\ UNCHANGED item
    /\ MenuCallEnds(c)
    /\ UNCHANGED <<vendorType, section>>

UpdateItemRead(c) ==
    \E i \in ShownItems, cat \in PickSection :
        MenuCallStarts(c, [at |-> "updateItem", i |-> i, cat |-> cat])

(* Mutant: the editor writes the level and leaves isInStock. *)
UpdateItemWrite_LevelOnly(c) ==
    LET i == menuCall[c].i  cat == menuCall[c].cat IN
    /\ menuCall[c].at = "updateItem"
    /\ \/ /\ i \in ShownItems /\ cat \in PickSection
          /\ \E level \in StockLevel :
               item' = [item EXCEPT ![i].cat = cat, ![i].level = level]
       \/ ~(i \in ShownItems /\ cat \in PickSection) /\ UNCHANGED item
    /\ MenuCallEnds(c)
    /\ UNCHANGED <<vendorType, section>>

(* The stock is written with the rest, or left alone; item and category    *)
(* must still be there.                                                    *)
UpdateItemWrite(c) ==
    LET i == menuCall[c].i  cat == menuCall[c].cat IN
    /\ menuCall[c].at = "updateItem"
    /\ \/ /\ i \in ShownItems /\ cat \in PickSection
          /\ \/ item' = [item EXCEPT ![i].cat = cat]
             \/ \E level \in StockLevel :
                  item' = [item EXCEPT ![i].cat = cat, ![i].level = level,
                                       ![i].inStock = InStockOf(level)]
       \/ ~(i \in ShownItems /\ cat \in PickSection) /\ UNCHANGED item
    /\ MenuCallEnds(c)
    /\ UNCHANGED <<vendorType, section>>

SetItemStock ==
    /\ \E i \in ShownItems, level \in StockLevel :
         item' = [item EXCEPT ![i].level = level, ![i].inStock = InStockOf(level)]
    /\ UNCHANGED <<vendorType, section, menuCall>>

DeleteItem ==
    /\ \E i \in ShownItems : item' = [item EXCEPT ![i] = [NoItem EXCEPT !.there = "deleted"]]
    /\ UNCHANGED <<vendorType, section, menuCall>>

-----------------------------------------------------------------------------
CreateSectionRead(c) ==
    /\ vendorType = "INFORMAL" => Cardinality(LiveSections) < SectionCap
    /\ MenuCallStarts(c, [at |-> "createSection", i |-> 0, cat |-> NoSection])

NameIsFree(n) == \A s \in LiveSections : section[s] # n

(* @@unique([vendorId, name]): category_name_taken. *)
CreateSectionWrite(c) ==
    /\ menuCall[c].at = "createSection"
    /\ \E n \in SectionNames :
         \/ /\ NameIsFree(n)
            /\ \E s \in Sections :
                 /\ section[s] = "none" /\ \A r \in 1..(s - 1) : section[r] # "none"
                 /\ section' = [section EXCEPT ![s] = n]
         \/ ~NameIsFree(n) /\ UNCHANGED section
    /\ MenuCallEnds(c)
    /\ UNCHANGED <<vendorType, item>>

RenameSection ==
    /\ \E s \in LiveSections, n \in SectionNames :
         NameIsFree(n) /\ section' = [section EXCEPT ![s] = n]
    /\ UNCHANGED <<vendorType, item, menuCall>>

(* onDelete: SetNull takes the category off its items. *)
DeleteSection ==
    /\ \E s \in LiveSections :
         /\ section' = [section EXCEPT ![s] = "deleted"]
         /\ item' = [i \in Items |-> IF item[i].cat = s THEN [item[i] EXCEPT !.cat = NoSection]
                                                       ELSE item[i]]
    /\ UNCHANGED <<vendorType, menuCall>>

-----------------------------------------------------------------------------
(* getVendorPublic: the categories and the items of an ACTIVE vendor, sold  *)
(* out or not; createOrder takes those that are in stock.                  *)
VendorPage == [sections |-> LiveSections, items |-> ShownItems]
Orderable == {i \in VendorPage.items : item[i].inStock = 1}

CatalogueNext ==
    \/ \E c \in MenuCalls :
         \/ CreateItemRead(c) \/ CreateItemWrite(c) \/ UpdateItemRead(c) \/ UpdateItemWrite(c)
         \/ CreateSectionRead(c) \/ CreateSectionWrite(c)
    \/ SetItemStock \/ DeleteItem \/ RenameSection \/ DeleteSection

CatalogueSpec == CatalogueInit /\ [][CatalogueNext]_catalogueVars

-----------------------------------------------------------------------------
(* "... can't disagree about whether an item is sellable": what consumers   *)
(* can order is what the vendor's screen says is in stock, whichever of    *)
(* the editors wrote last.                                                 *)
SellableAgrees == Orderable = {i \in ShownItems : item[i].level # "OUT_OF_STOCK"}

(* The public page has the category of each of its items, also when one is *)
(* deleted between the check and the write of an editor.                   *)
PageHangsTogether == {item[i].cat : i \in VendorPage.items} \subseteq VendorPage.sections \cup {NoSection}

(* A name is used once, though nothing looks for it before the insert.     *)
NamesUnique == \A r, s \in LiveSections : section[r] = section[s] => r = s

(* Caps are read before they are used up: an informal vendor gets past one *)
(* by at most one row for each further call in progress.                   *)
CapsBounded ==
    vendorType = "INFORMAL" =>
        /\ Cardinality(ShownItems) <= ItemCap + MaxMenuCalls - 1
        /\ Cardinality(LiveSections) <= SectionCap + MaxMenuCalls - 1

CatalogueSafe == SellableAgrees /\ PageHangsTogether /\ NamesUnique /\ CapsBounded
=============================================================================
