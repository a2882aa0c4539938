---------------------------- MODULE OrdersClient ----------------------------
(***************************************************************************)
(* The generated client of the orders API, and what the orders service     *)
(* keeps of a request and lists: ObjectSerializer renames the attributes   *)
(* of the service's own objects by the maps of the model classes, and      *)
(* drops what the maps do not name.  An object is a record; an attribute   *)
(* that is undefined is one that the record lacks, as the JSON does.       *)
(***************************************************************************)
EXTENDS Naturals, Sequences, FiniteSets

CONSTANTS Null,       \* of Java, for an object that the JSON lacks
          TextOrder   \* the pairs <<j, k>> of numbers of which the database
                      \* sorts the text of j before that of k

Primitives == {"string", "boolean", "double", "integer", "long", "float",
               "number", "any"}

Attribute(name, baseName, type) ==
  [name |-> name, baseName |-> baseName, type |-> type]

(* Slip: the line total has another name on the wire.                      *)
OrderItemAttributesWithTotal ==
  {Attribute("unitCost", "price", "number"),
   Attribute("id", "productId", "string"),
   Attribute("name", "name", "string"),
   Attribute("totalCost", "total", "number"),
   Attribute("quantity", "quantity", "number")}

OrderItemAttributes ==
  {Attribute("unitCost", "price", "number"),
   Attribute("id", "productId", "string"),
   Attribute("name", "name", "string"),
   Attribute("totalCost", "totalCost", "number"),
   Attribute("quantity", "quantity", "number")}

OrderAttributes ==
  {Attribute("email", "email", "string"),
   Attribute("firstName", "firstName", "string"),
   Attribute("items", "items", "Array<OrderItem>"),
   Attribute("lastName", "lastName", "string")}

ExistingOrderAttributes == OrderAttributes \cup {Attribute("id", "id", "string")}

TypeMap == [ExistingOrder |-> ExistingOrderAttributes,
            Order |-> OrderAttributes,
            OrderItem |-> OrderItemAttributes]

(* The subType cut out of "Array<...>".                                    *)
SubType == [t \in {"Array<OrderItem>", "Array<ExistingOrder>"} |->
              IF t = "Array<OrderItem>" THEN "OrderItem" ELSE "ExistingOrder"]

(* No class of the model sets its discriminator.                           *)
Discriminator == [t \in DOMAIN TypeMap |-> "none"]

FindCorrectType(data, type) ==
  IF /\ Discriminator[type] \in DOMAIN data
     /\ data[Discriminator[type]] \in DOMAIN TypeMap
  THEN data[Discriminator[type]] ELSE type

(* One call of serialize: a value of a primitive type as it is, an array   *)
(* element by element, an object by the attributes that it has.  Part is   *)
(* the call for an element or an attribute.                                *)
SerializeOnce(data, type, Part(_, _)) ==
  IF type \in Primitives THEN data
  ELSE IF type \in DOMAIN SubType
  THEN [i \in DOMAIN data |-> Part(data[i], SubType[type])]
  ELSE LET attributes == {a \in TypeMap[FindCorrectType(data, type)] :
                            a.name \in DOMAIN data}
           Of(n) == CHOOSE a \in attributes : a.baseName = n
       IN  [n \in {a.baseName : a \in attributes} |->
              Part(data[Of(n).name], Of(n).type)]

DeserializeOnce(data, type, Part(_, _)) ==
  IF type \in Primitives THEN data
  ELSE IF type \in DOMAIN SubType
  THEN [i \in DOMAIN data |-> Part(data[i], SubType[type])]
  ELSE LET attributes == {a \in TypeMap[FindCorrectType(data, type)] :
                            a.baseName \in DOMAIN data}
           Of(n) == CHOOSE a \in attributes : a.name = n
       IN  [n \in {a.name : a \in attributes} |->
              Part(data[Of(n).baseName], Of(n).type)]

(* The recursion, as deep as the classes are: orders, an order and its     *)
(* attributes, its items, an item and its attributes.                      *)
SerializeAttribute(data, type) == data
SerializeItem(data, type) == SerializeOnce(data, type, SerializeAttribute)
SerializeItems(data, type) == SerializeOnce(data, type, SerializeItem)
Serialize(data, type) == SerializeOnce(data, type, SerializeItems)

DeserializeAttribute(data, type) == data
DeserializeItem(data, type) == DeserializeOnce(data, type, DeserializeAttribute)
DeserializeItems(data, type) == DeserializeOnce(data, type, DeserializeItem)
DeserializeOrder(data, type) == DeserializeOnce(data, type, DeserializeItems)
Deserialize(data, type) == DeserializeOnce(data, type, DeserializeOrder)

(* What createOrder posts, and what listOrders makes of the answer.        *)
CreateOrder(order) == [method |-> "POST", body |-> Serialize(order, "Order")]
ListOrders(body) == Deserialize(body, "Array<ExistingOrder>")

-----------------------------------------------------------------------------
(* The orders service, POST: the attributes that OrderItem and             *)
(* OrderItemEntity share; an int that is missing is 0.                     *)
Field(data, name) == IF name \in DOMAIN data THEN data[name] ELSE Null
IntField(data, name) == IF name \in DOMAIN data THEN data[name] ELSE 0

OrderItemEntity(item) ==
  [productId |-> Field(item, "productId"), name |-> Field(item, "name"),
   quantity |-> IntField(item, "quantity"),
   unitCost |-> IntField(item, "unitCost"),
   totalCost |-> IntField(item, "totalCost")]

OrderEntity(id, order) ==
  [id |-> id, email |-> Field(order, "email"),
   firstName |-> Field(order, "firstName"),
   lastName |-> Field(order, "lastName"),
   items |-> [i \in DOMAIN order.items |-> OrderItemEntity(order.items[i])]]

(* repository.save: a row for each item.  The column product_id is at once *)
(* the item's productId and the key of the list of items, and what the     *)
(* row gets is the key: the index of the item, from 0.  A number stands    *)
(* for its decimal text.                                                   *)
Rows(entity) == [i \in DOMAIN entity.items |->
                   [entity.items[i] EXCEPT !.productId = i - 1]]

(* The index in place r when n rows are sorted by the text of product_id.  *)
IndexAt(r, n) ==
  CHOOSE k \in 0 .. n - 1 :
    Cardinality({j \in 0 .. n - 1 : <<j, k>> \in TextOrder}) = r - 1

(* repository.findAll: the rows of an order, sorted by the key.            *)
FindAll(entity) ==
  LET rows == Rows(entity)
  IN  [entity EXCEPT !.items =
         [r \in DOMAIN rows |-> rows[IndexAt(r, Len(rows)) + 1]]]

(* GET: the same attributes back, and the price of OrderItem, which no     *)
(* entity has.                                                             *)
OrderItem(entity) ==
  [productId |-> entity.productId, name |-> entity.name,
   quantity |-> entity.quantity, unitCost |-> entity.unitCost, price |-> 0,
   totalCost |-> entity.totalCost]

ExistingOrder(entity) ==
  [entity EXCEPT !.items = [i \in DOMAIN @ |-> OrderItem(@[i])]]
=============================================================================
