--------------------------- MODULE EndpointTables ---------------------------
(***************************************************************************)
(* The tables by which a request is classified, each in a package of its   *)
(* own: endpoint patterns (internal/endpoint/classify.go), operations that *)
(* need a restricted data token (internal/rdt/matcher.go), cache tiers     *)
(* (internal/cache/tiers.go), personal data (internal/pii/registry.go) and *)
(* rates (internal/ratelimit/defaults.go).                                 *)
(*                                                                         *)
(* A path is the sequence of its segments, a trailing slash an empty last  *)
(* one; so is a prefix, of which the last segment need only begin a        *)
(* segment of the path.  P stands for a parameter.  Of a rule with fields  *)
(* or rates only the key is kept.                                          *)
(***************************************************************************)
EXTENDS Naturals, Sequences, SequencesExt

P == "{}"

(* strings.HasPrefix on two segments, of those that occur.                 *)
Begins(a, b) ==
  \/ a = b
  \/ a = ""
  \/ <<a, b>> \in {<<"package", "packages">>, <<"purchaseOrders", "purchaseOrdersStatus">>}

HasPrefix(path, prefix) ==
  /\ Len(prefix) <= Len(path)
  /\ \A i \in 1 .. Len(prefix) - 1 : prefix[i] = path[i]
  /\ Begins(Last(prefix), path[Len(prefix)])

HasSuffix(path, suffix) ==
  Len(suffix) <= Len(path) /\ SubSeq(path, Len(path) - Len(suffix) + 1, Len(path)) = suffix

(* A row matches by prefix, number of segments (that of its pattern) and   *)
(* suffix.                                                                 *)
Row(prefix, suffix, pattern) == [prefix |-> prefix, suffix |-> suffix, pattern |-> pattern]

Literals(tail) == SubSeq(tail, Max({0} \cup {i \in DOMAIN tail : tail[i] = P}) + 1, Len(tail))

(* Rows below a base: the suffix is what follows the last parameter, and   *)
(* the base itself has a row without a slash.                              *)
Rows(base, tails) ==
  [i \in DOMAIN tails |->
     Row(IF tails[i] = <<>> THEN base ELSE Append(base, ""), Literals(tails[i]),
         base \o tails[i])]

(* Rows that leave their last segment open.                                *)
Loose(base, tails) == [i \in DOMAIN tails |-> Row(Append(base, ""), <<>>, base \o tails[i])]

Under(base, tails) == {base \o t : t \in tails}

DF(api, resource) == <<"vendor", "directFulfillment", api, "2021-12-28", resource>>

endpointPatterns ==
     Rows(<<"orders", "v0", "orders">>, <<
        <<P, "orderItems", "buyerInfo">>, <<P, "orderItems">>, <<P, "buyerInfo">>,
        <<P, "address">>, <<P, "regulatedInfo">>, <<P, "shipmentConfirmation">>,
        <<P, "shipment">>, <<P>>, <<>>>>)
  \o Rows(<<"orders", "2026-01-01", "orders">>, <<<<P>>, <<>>>>)
  \o Rows(<<"catalog", "2022-04-01", "items">>, <<<<P>>>>)
  \o Rows(<<"feeds", "2021-06-30", "feeds">>, <<<<P>>>>)
  \o Rows(<<"feeds", "2021-06-30", "documents">>, <<<<P>>>>)
  \o Rows(<<"reports", "2021-06-30", "reports">>, <<<<P>>>>)
  \o Rows(<<"reports", "2021-06-30", "schedules">>, <<<<P>>>>)
  \o Rows(<<"reports", "2021-06-30", "documents">>, <<<<P>>>>)
  \o Rows(<<"datakiosk", "2023-11-15", "queries">>, <<<<P>>>>)
  \o Rows(<<"datakiosk", "2023-11-15", "documents">>, <<<<P>>>>)
  \o Rows(<<"listings", "2021-08-01", "items">>, <<<<P, P>>, <<P>>>>)
  \o Loose(<<"products", "pricing", "v0", "items">>, <<<<P, "offers">>>>)
  \o Loose(<<"products", "pricing", "v0", "listings">>, <<<<P, "offers">>>>)
  \o Rows(<<"batches", "products", "pricing", "v0", "listingOffers">>, <<<<>>>>)
  \o Rows(<<"batches", "products", "pricing", "v0", "itemOffers">>, <<<<>>>>)
  \o Loose(<<"products", "fees", "v0", "listings">>, <<<<P, "feesEstimate">>>>)
  \o Loose(<<"products", "fees", "v0", "items">>, <<<<P, "feesEstimate">>>>)
  \o Rows(<<"products", "fees", "v0", "feesEstimate">>, <<<<>>>>)
  \o Rows(<<"definitions", "2020-09-01", "productTypes">>, <<<<P>>>>)
  \o Rows(<<"fba", "inventory", "v1", "items">>, <<<<"inventory">>, <<P>>>>)
  \o Rows(<<"fba", "inbound", "v2024-03-20", "inboundPlans">>, <<
        <<P, "packingOptions">>, <<P, "placementOptions">>, <<P>>>>)
  \o Rows(<<"fba", "inbound", "v0", "shipments">>, <<
        <<P, "labels">>, <<P, "billOfLading">>, <<P, "items">>>>)
  \o Rows(<<"fba", "outbound", "2020-07-01", "features", "inventory">>, <<<<P, P>>>>)
  \o Rows(<<"fba", "outbound", "2020-07-01", "fulfillmentOrders">>, <<
        <<P, "cancel">>, <<P, "return">>>>)
  \o Rows(<<"fba", "outbound", "2020-07-01", "features", "inventory">>, <<<<P>>>>)
  \o Rows(<<"fba", "outbound", "2020-07-01", "fulfillmentOrders">>, <<
        <<"preview">>, <<P>>, <<>>>>)
  \o Rows(<<"shipping", "v1", "shipments">>, <<<<P, "cancel">>, <<P, "purchaseLabels">>>>)
  \o Rows(<<"shipping", "v1", "containers">>, <<<<P, "label">>>>)
  \o Rows(<<"shipping", "v1", "shipments">>, <<<<P>>>>)
  \o Rows(<<"shipping", "v1", "tracking">>, <<<<P>>>>)
  \o Rows(<<"shipping", "v1", "shipments">>, <<<<>>>>)
  \o Rows(<<"shipping", "v2", "shipments">>, <<<<P, "cancel">>, <<P, "documents">>>>)
  \o Rows(<<"shipping", "v2", "shipments", "rates">>, <<<<>>>>)
  \o Rows(<<"shipping", "v2", "shipments", "directPurchase">>, <<<<>>>>)
  \o Rows(<<"shipping", "v2", "shipments">>, <<<<>>>>)
  \o Rows(<<"shipping", "v2", "oneClickShipment">>, <<<<>>>>)
  \o Rows(<<"mfn", "v0", "shipments">>, <<<<>>, <<P>>>>)
  \o Rows(<<"easyShip", "2022-03-23", "packages", "bulk">>, <<<<>>>>)
  \o Rows(<<"easyShip", "2022-03-23", "package">>, <<<<>>>>)
  \o Rows(<<"notifications", "v1", "subscriptions">>, <<<<P>>>>)
  \o Rows(<<"notifications", "v1", "destinations">>, <<<<P>>>>)
  \o Rows(<<"finances", "v0", "financialEventGroups">>, <<<<P, "financialEvents">>>>)
  \o Rows(<<"finances", "v0", "orders">>, <<<<P, "financialEvents">>>>)
  \o Rows(<<"finances", "v0", "financialEvents">>, <<<<>>>>)
  \o Rows(<<"messaging", "v1", "orders">>, <<<<P, "messages", P>>>>)
  \o Loose(<<"messaging", "v1", "orders">>, <<<<P, "messages">>>>)
  \o <<Row(<<"solicitations", "v1", "orders", "">>, <<"productReviewAndSellerFeedback">>,
           <<"solicitations", "v1", "orders", P, "solicitations",
             "productReviewAndSellerFeedback">>)>>
  \o Rows(<<"solicitations", "v1", "orders">>, <<<<P, "solicitations">>>>)
  \o Rows(<<"uploads", "2020-11-01", "uploadDestinations">>, <<<<P>>>>)
  \o Rows(<<"aplus", "2020-11-01", "contentDocuments">>, <<<<P>>>>)
  \o Rows(<<"awd", "2024-05-09", "inboundShipments">>, <<<<P>>>>)
  \o Rows(<<"supplySources", "2020-07-01", "supplySources">>, <<<<P>>>>)
  \o Rows(DF("orders", "purchaseOrders"), <<<<P>>>>)
  \o Rows(DF("shipping", "shippingLabels"), <<<<P>>>>)
  \o Rows(DF("shipping", "customerInvoices"), <<<<P>>>>)
  \o Rows(DF("shipping", "packingSlips"), <<<<P>>>>)
  \o Rows(DF("transactions", "transactions"), <<<<P>>>>)
  \o Rows(<<"vendor", "orders", "v1", "purchaseOrders">>, <<<<P>>>>)
  \o Rows(<<"vendor", "transactionStatus", "v1", "transactions">>, <<<<P>>>>)

(* Operations that need a restricted data token, by method.                *)
For(method, rows) == [i \in DOMAIN rows |-> [method |-> method, row |-> rows[i]]]

piiRules ==
     For("GET", Rows(<<"orders", "v0", "orders">>, <<
        <<P, "orderItems", "buyerInfo">>, <<P, "orderItems">>, <<P, "address">>,
        <<P, "buyerInfo">>, <<P, "regulatedInfo">>, <<P>>, <<>>>>))
  \o For("PUT", Rows(<<"mfn", "v0", "shipments">>, <<<<P, "cancel">>>>))
  \o For("GET", Rows(<<"mfn", "v0", "shipments">>, <<<<P>>>>))
  \o For("POST", Rows(<<"mfn", "v0", "shipments">>, <<<<>>>>))
  \o For("GET", Rows(<<"shipping", "v1", "shipments">>, <<<<P>>>>))
  \o For("GET", Rows(<<"fba", "outbound", "brazil", "v0", "shipments">>, <<<<P>>>>))
  \o For("POST", Rows(<<"easyShip", "2022-03-23", "packages", "bulk">>, <<<<>>>>))
  \o For("GET", Rows(DF("orders", "purchaseOrders"), <<<<P>>, <<>>>>))
  \o For("GET", Rows(DF("shipping", "shippingLabels"), <<<<P>>, <<>>>>))
  \o For("GET", Rows(DF("shipping", "packingSlips"), <<<<P>>, <<>>>>))
  \o For("GET", Rows(DF("shipping", "customerInvoices"), <<<<P>>, <<>>>>))

(* Cache tiers; kind tells the rows for GET from those for batch and       *)
(* single POST requests.                                                   *)
Tier(tier, kind, prefixes) ==
  [i \in DOMAIN prefixes |-> [tier |-> tier, kind |-> kind, prefix |-> prefixes[i]]]

defaultTierPatterns ==
     Tier("Never", "get", <<
        <<"tokens", "">>, <<"uploads", "">>, <<"applications", "">>,
        <<"authorization", "">>>>)
  \o Tier("Aggressive", "get", <<<<"definitions", "">>, <<"catalog", "">>, <<"sellers", "">>>>)
  \o Tier("Moderate", "get", <<<<"fba", "inbound", "eligibility", "">>>>)
  \o Tier("Short", "get", <<
        <<"reports", "2021-06-30", "documents", "">>,
        <<"feeds", "2021-06-30", "documents", "">>,
        <<"datakiosk", "2023-11-15", "documents", "">>>>)
  \o Tier("Moderate", "get", <<
        <<"reports", "">>, <<"feeds", "">>, <<"listings", "">>, <<"aplus", "">>,
        <<"sales", "">>, <<"fba", "inventory", "">>, <<"fba", "inbound", "">>,
        <<"fba", "outbound", "">>, <<"fba", "smallAndLight", "">>, <<"fba", "">>,
        <<"mfn", "">>, <<"supplySources", "">>, <<"finances", "">>,
        <<"notifications", "">>, <<"shipping", "">>, <<"solicitations", "">>,
        <<"easyShip", "">>, <<"messaging", "">>, <<"vendor", "">>, <<"datakiosk", "">>,
        <<"replenishment", "">>, <<"awd", "">>>>)
  \o Tier("Moderate", "batch", <<<<"batches", "products", "pricing", "">>>>)
  \o Tier("Aggressive", "batch", <<<<"products", "fees", "v0", "feesEstimate">>>>)
  \o Tier("Aggressive", "post", <<
        <<"products", "fees", "v0", "items", "">>,
        <<"products", "fees", "v0", "listings", "">>>>)
  \o Tier("Moderate", "post", <<
        <<"shipping", "v2", "shipments", "rates">>, <<"shipping", "v1", "rates">>,
        <<"mfn", "v0", "eligibleShippingServices">>>>)
  \o Tier("Aggressive", "post", <<<<"mfn", "v0", "additionalSellerInputs">>>>)
  \o Tier("Moderate", "post", <<
        <<"fba", "outbound", "2020-07-01", "fulfillmentOrders", "preview">>,
        <<"easyShip", "2022-03-23", "timeSlot">>,
        <<"replenishment", "2022-11-07", "sellingPartners", "metrics", "search">>,
        <<"replenishment", "2022-11-07", "offers", "metrics", "search">>,
        <<"replenishment", "2022-11-07", "offers", "search">>>>)
  \o Tier("Short", "get", <<
        <<"orders", "">>, <<"products", "pricing", "">>, <<"products", "fees", "">>,
        <<"products", "">>>>)

DefaultPIIRules ==
       Under(<<"orders", "v0", "orders">>, {
         <<>>, <<P>>, <<P, "orderItems">>, <<P, "regulatedInfo">>})
  \cup Under(<<"shipping", "v2", "shipments">>, {<<>>})
  \cup Under(<<"shipping", "v1", "shipments">>, {<<P>>})
  \cup Under(<<"mfn", "v0", "shipments">>, {<<>>, <<P>>})
  \cup Under(<<"fba", "outbound", "2020-07-01">>, {
         <<"fulfillmentOrders">>, <<"fulfillmentOrders", P>>})
  \cup Under(<<"messaging", "v1", "orders">>, {<<P, "messages">>})
  \cup Under(<<"finances", "v0", "financialEvents">>, {<<>>})
  \cup Under(<<"finances", "v0", "financialEventGroups">>, {<<P, "financialEvents">>})
  \cup Under(<<"finances", "v0", "orders">>, {<<P, "financialEvents">>})
  \cup Under(<<"easyShip", "2022-03-23", "package">>, {<<>>})
  \cup Under(<<"reports", "2021-06-30", "documents">>, {<<P>>})
  \cup Under(<<"feeds", "2021-06-30", "documents">>, {<<P>>})
  \cup Under(<<"datakiosk", "2023-11-15", "documents">>, {<<P>>})
  \cup Under(<<"vendor", "directFulfillment", "orders">>, {
         <<"2021-12-28", "purchaseOrders", P>>})

(* Rules that apply to the log always, to the cache only with a query that *)
(* selects personal data.                                                  *)
ConditionalPIIRules == Under(<<"orders", "2026-01-01", "orders">>, {<<>>, <<P>>})

DefaultFullBodyPIIEndpoints ==
       Under(<<"orders", "v0", "orders">>, {
         <<P, "buyerInfo">>, <<P, "address">>, <<P, "orderItems", "buyerInfo">>})
  \cup Under(<<"messaging", "v1", "orders">>, {<<P, "messages", P>>})
  \cup Under(<<"vendor", "directFulfillment", "shipping">>, {
         <<"2021-12-28", "packingSlips", P>>})

(* The actions are listed once more, as keys of the rules below.           *)
messagingPOSTActions ==
  {"createConfirmServiceDetails", "createConfirmDeliveryDetails",
   "createUnexpectedProblem", "createConfirmOrderDetails", "createWarranty",
   "createDigitalAccessKey", "createLegalDisclosure", "createAmazonMotors",
   "sendInvoice", "confirmCustomizationDetails"}

DefaultRequestBodyPIIRules ==
       Under(<<"messaging", "v1", "orders", P, "messages">>, {
         <<"createConfirmServiceDetails">>, <<"createConfirmDeliveryDetails">>,
         <<"createUnexpectedProblem">>, <<"createConfirmOrderDetails">>, <<"createWarranty">>,
         <<"createDigitalAccessKey">>, <<"createLegalDisclosure">>, <<"createAmazonMotors">>,
         <<"sendInvoice">>, <<"confirmCustomizationDetails">>})
  \cup Under(<<"mfn", "v0", "shipments">>, {<<>>})
  \cup Under(<<"shipping", "v1", "shipments">>, {<<>>})
  \cup Under(<<"shipping", "v2", "shipments">>, {<<"rates">>, <<"directPurchase">>})
  \cup Under(<<"shipping", "v2", "oneClickShipment">>, {<<>>})
  \cup Under(<<"fba", "outbound", "2020-07-01">>, {<<"fulfillmentOrders", "preview">>})

DefaultBucketParams ==
       Under(<<"orders", "v0", "orders">>, {
         <<>>, <<P>>, <<P, "orderItems">>, <<P, "buyerInfo">>, <<P, "address">>,
         <<P, "orderItems", "buyerInfo">>, <<P, "regulatedInfo">>,
         <<P, "shipmentConfirmation">>, <<P, "shipment">>})
  \cup Under(<<"orders", "2026-01-01", "orders">>, {<<>>, <<P>>})
  \cup Under(<<"catalog", "2022-04-01", "items">>, {<<>>, <<P>>})
  \cup Under(<<"feeds", "2021-06-30", "feeds">>, {<<>>, <<P>>})
  \cup Under(<<"feeds", "2021-06-30", "documents">>, {<<>>, <<P>>})
  \cup Under(<<"reports", "2021-06-30", "reports">>, {<<>>, <<P>>})
  \cup Under(<<"reports", "2021-06-30", "schedules">>, {<<>>, <<P>>})
  \cup Under(<<"reports", "2021-06-30", "documents">>, {<<P>>})
  \cup Under(<<"datakiosk", "2023-11-15", "queries">>, {<<>>, <<P>>})
  \cup Under(<<"datakiosk", "2023-11-15", "documents">>, {<<P>>})
  \cup Under(<<"listings", "2021-08-01", "items">>, {<<P, P>>, <<P>>})
  \cup Under(<<"listings", "2021-08-01", "restrictions">>, {<<>>})
  \cup Under(<<"products", "pricing", "v0">>, {
         <<"competitivePrice">>, <<"price">>, <<"items", P, "offers">>,
         <<"listings", P, "offers">>})
  \cup Under(<<"batches", "products", "pricing">>, {
         <<"v0", "itemOffers">>, <<"v0", "listingOffers">>})
  \cup Under(<<"products", "pricing", "2022-05-01">>, {
         <<"offer", "featuredOfferExpectedPrice">>, <<"offer", "competitiveSummary">>})
  \cup Under(<<"products", "fees", "v0">>, {
         <<"listings", P, "feesEstimate">>, <<"items", P, "feesEstimate">>,
         <<"feesEstimate">>})
  \cup Under(<<"definitions", "2020-09-01", "productTypes">>, {<<>>, <<P>>})
  \cup Under(<<"fba", "inventory", "v1">>, {
         <<"summaries">>, <<"items">>, <<"items", P>>, <<"items", "inventory">>})
  \cup Under(<<"fba", "inbound", "v1">>, {<<"eligibility", "itemPreview">>})
  \cup Under(<<"fba", "inbound", "v2024-03-20">>, {
         <<"inboundPlans">>, <<"inboundPlans", P>>,
         <<"inboundPlans", P, "packingOptions">>,
         <<"inboundPlans", P, "placementOptions">>})
  \cup Under(<<"fba", "inbound", "v0">>, {
         <<"prepInstructions">>, <<"shipments">>, <<"shipments", P, "labels">>,
         <<"shipments", P, "billOfLading">>, <<"shipments", P, "items">>,
         <<"shipmentItems">>})
  \cup Under(<<"fba", "outbound", "2020-07-01">>, {
         <<"fulfillmentOrders">>, <<"fulfillmentOrders", "preview">>,
         <<"fulfillmentOrders", P>>, <<"fulfillmentOrders", P, "cancel">>,
         <<"fulfillmentOrders", P, "return">>, <<"deliveryOffers">>, <<"tracking">>,
         <<"returnReasonCodes">>, <<"features">>, <<"features", "inventory", P>>,
         <<"features", "inventory", P, P>>})
  \cup Under(<<"shipping", "v1", "shipments">>, {
         <<>>, <<P>>, <<P, "cancel">>, <<P, "purchaseLabels">>})
  \cup Under(<<"shipping", "v1", "containers">>, {<<P, "label">>})
  \cup Under(<<"shipping", "v1", "purchaseShipment">>, {<<>>})
  \cup Under(<<"shipping", "v1", "rates">>, {<<>>})
  \cup Under(<<"shipping", "v1", "account">>, {<<>>})
  \cup Under(<<"shipping", "v1", "tracking">>, {<<P>>})
  \cup Under(<<"shipping", "v2", "shipments">>, {
         <<>>, <<"rates">>, <<P, "cancel">>, <<P, "documents">>, <<"directPurchase">>})
  \cup Under(<<"shipping", "v2", "tracking">>, {<<>>})
  \cup Under(<<"shipping", "v2", "oneClickShipment">>, {<<>>})
  \cup Under(<<"shipping", "v2", "collectionForms">>, {<<>>})
  \cup Under(<<"mfn", "v0", "eligibleShippingServices">>, {<<>>})
  \cup Under(<<"mfn", "v0", "shipments">>, {<<>>, <<P>>})
  \cup Under(<<"mfn", "v0", "sellerInputs">>, {<<>>})
  \cup Under(<<"easyShip", "2022-03-23", "timeSlot">>, {<<>>})
  \cup Under(<<"easyShip", "2022-03-23", "package">>, {<<>>})
  \cup Under(<<"easyShip", "2022-03-23", "packages">>, {<<"bulk">>})
  \cup Under(<<"notifications", "v1", "subscriptions">>, {<<P>>, <<>>})
  \cup Under(<<"notifications", "v1", "destinations">>, {<<>>, <<P>>})
  \cup Under(<<"tokens", "2021-03-01", "restrictedDataToken">>, {<<>>})
  \cup Under(<<"sellers", "v1", "marketplaceParticipations">>, {<<>>})
  \cup Under(<<"sellers", "v1", "account">>, {<<>>})
  \cup Under(<<"sales", "v1", "orderMetrics">>, {<<>>})
  \cup Under(<<"finances", "v0", "financialEvents">>, {<<>>})
  \cup Under(<<"finances", "v0", "financialEventGroups">>, {<<>>, <<P, "financialEvents">>})
  \cup Under(<<"finances", "v0", "orders">>, {<<P, "financialEvents">>})
  \cup Under(<<"finances", "2024-06-19", "transactions">>, {<<>>})
  \cup Under(<<"messaging", "v1", "orders">>, {<<P, "messages">>})
  \cup Under(<<"solicitations", "v1", "orders">>, {
         <<P, "solicitations", "productReviewAndSellerFeedback">>,
         <<P, "solicitations">>})
  \cup Under(<<"uploads", "2020-11-01", "uploadDestinations">>, {<<P>>})
  \cup Under(<<"applications", "2023-11-30", "clientSecret">>, {<<>>})
  \cup Under(<<"aplus", "2020-11-01", "contentDocuments">>, {<<>>, <<P>>})
  \cup Under(<<"aplus", "2020-11-01", "contentPublishRecords">>, {<<>>})
  \cup Under(<<"replenishment", "2022-11-07", "sellingPartners">>, {
         <<"metrics", "search">>})
  \cup Under(<<"replenishment", "2022-11-07", "offers">>, {
         <<"metrics", "search">>, <<"search">>})
  \cup Under(<<"awd", "2024-05-09", "inboundShipments">>, {<<>>, <<P>>})
  \cup Under(<<"awd", "2024-05-09", "inventory">>, {<<>>})
  \cup Under(<<"supplySources", "2020-07-01", "supplySources">>, {<<>>, <<P>>})
  \cup Under(<<"vendor", "directFulfillment", "orders">>, {
         <<"2021-12-28", "purchaseOrders">>, <<"2021-12-28", "purchaseOrders", P>>})
  \cup Under(<<"vendor", "directFulfillment", "shipping">>, {
         <<"2021-12-28", "shippingLabels">>, <<"2021-12-28", "shippingLabels", P>>,
         <<"2021-12-28", "shipmentConfirmations">>,
         <<"2021-12-28", "shipmentStatusUpdates">>,
         <<"2021-12-28", "customerInvoices">>, <<"2021-12-28", "customerInvoices", P>>,
         <<"2021-12-28", "packingSlips">>, <<"2021-12-28", "packingSlips", P>>})
  \cup Under(<<"vendor", "directFulfillment", "inventory">>, {
         <<"2021-12-28", "inventoryUpdates">>})
  \cup Under(<<"vendor", "directFulfillment", "payments">>, {<<"2021-12-28", "invoices">>})
  \cup Under(<<"vendor", "directFulfillment", "transactions">>, {
         <<"2021-12-28", "transactions", P>>})
  \cup Under(<<"vendor", "orders", "v1">>, {
         <<"purchaseOrders">>, <<"purchaseOrders", P>>, <<"purchaseOrdersStatus">>,
         <<"acknowledgements">>})
  \cup Under(<<"vendor", "shipments", "v1">>, {
         <<"shipmentConfirmations">>, <<"shipments">>, <<"shipmentLabels">>})
  \cup Under(<<"vendor", "invoices", "v1">>, {<<"invoices">>})
  \cup Under(<<"vendor", "transactionStatus", "v1">>, {<<"transactions", P>>})

MethodBucketOverrides ==
  {<<"POST", k>> : k \in
     {<<"feeds", "2021-06-30", "feeds">>,
      <<"reports", "2021-06-30", "reports">>,
      <<"datakiosk", "2023-11-15", "queries">>}}

AppBucketParams ==
       {"GET"} \X Under(<<"catalog", "2022-04-01", "items">>, {<<>>, <<P>>})
  \cup {"GET", "PUT", "PATCH", "DELETE"} \X {<<"listings", "2021-08-01", "items", P, P>>}
  \cup {"GET"} \X {<<"listings", "2021-08-01", "items", P>>}

=============================================================================
